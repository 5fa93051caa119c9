---------------------------- MODULE MCInputParts ----------------------------
(***************************************************************************)
(* Two more instances of InputSession for TLC, each with the inputs that     *)
(* one kind of question is about: merged devices and touch, and motion with  *)
(* a button anchored to it.  A behaviour runs one of them, its part.         *)
(***************************************************************************)
EXTENDS Integers, TLC

CONSTANTS k1, k2, b1, t1, t2, d1, d2, NoTouch, NoMember

VARIABLES now, sender, merger, nextAct, srcEnd, control, acks, motion, connected,
          pc, resume, at, receiver, pending, playout, batch, sinkEnd, backend,
          mirror, shown, closedBy

VARIABLE part   \* the instance that runs

TwoKeys == {k1, k2}
FirstKey == {k1}
TwoTouches == {t1, t2}
TwoDevices == {d1, d2}
OneDevice == {d1}
OneButton == {b1}
Still == {0}
BothWays == {-1, 0, 1}

(* Two devices press the same key, a key the backend cannot inject and two   *)
(* touch states.                                                           *)
Touching ==
  INSTANCE InputSession WITH
    Keys <- TwoKeys, Buttons <- {}, Touches <- TwoTouches, Devices <- TwoDevices,
    Supported <- FirstKey, Deltas <- Still, MaxTotal <- 2, CheckpointInterval <- 2,
    Lease <- 3, HeldLease <- 3, MaxPendingSnapshots <- 3, MaxQueue <- 2,
    RejectClosing <- FALSE, MaxActs <- 1, MaxControl <- 4, MaxMotion <- 0, MaxTime <- 0

(* Motion both ways over totals that wrap, and one button.                   *)
Moving ==
  INSTANCE InputSession WITH
    Keys <- {}, Buttons <- OneButton, Touches <- {}, Devices <- OneDevice,
    Supported <- OneButton, Deltas <- BothWays, MaxTotal <- 1, CheckpointInterval <- 1,
    Lease <- 3, HeldLease <- 3, MaxPendingSnapshots <- 3, MaxQueue <- 2,
    RejectClosing <- FALSE, MaxActs <- 1, MaxControl <- 4, MaxMotion <- 2, MaxTime <- 1

Symmetry == Permutations({d1, d2}) \cup Permutations({t1, t2})

MCInit == (part = "Touching" /\ Touching!Init) \/ (part = "Moving" /\ Moving!Init)
MCNext ==
  /\ (part = "Touching" /\ Touching!Next) \/ (part = "Moving" /\ Moving!Next)
  /\ UNCHANGED part
MCSpec == MCInit /\ [][MCNext]_<<part, Touching!vars>>

-----------------------------------------------------------------------------
(* Merged devices and touch: the peer sees one held set, the union over the  *)
(* devices, and the receiver holds what the controls it applied say          *)
(* (session.rs CaptureMerger, core/receiver.rs).  Motion: the pointer travels *)
(* exactly what was captured up to the last anchor, and a control is          *)
(* acknowledged only when its effects are applied (core/playout.rs,           *)
(* session/receive.rs).                                                      *)
BothEndsAgree ==
  /\ part = "Touching" => Touching!MergesDevices
  /\ part = "Moving" => Moving!MotionIsExact /\ Moving!AckedMeansApplied
=============================================================================
