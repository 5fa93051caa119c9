----------------------------- MODULE InputTypes -----------------------------
(***************************************************************************)
(* The vocabulary the two ends of an input session share (core/model.rs):  *)
(* held state, motion anchors, reliable control messages and unreliable    *)
(* motion frames.                                                          *)
(*                                                                         *)
(* Abstractions.  The four cumulative axes (pointer x/y, scroll x/y) are   *)
(* treated alike by the code, so one integer stands for them; its width is *)
(* -MaxTotal-1 .. MaxTotal in place of i64.  A touch state is an opaque    *)
(* value, NoTouch being the state with no contacts.  SessionContext is     *)
(* reduced to the activation id, because one connection pins one epoch and *)
(* one generation.                                                         *)
(***************************************************************************)
EXTENDS Integers, Sequences, FiniteSets

CONSTANTS Keys,      \* HID usages
          Buttons,   \* pointer buttons
          Touches,   \* non-empty touch states
          NoTouch,   \* the empty touch state
          NoMember,  \* "no key or button", for messages that name none
          MaxTotal   \* largest cumulative motion an axis can hold

ASSUME MembersAssumption ==
  /\ Keys \cap Buttons = {}
  /\ NoTouch \notin Touches
  /\ NoMember \notin Keys \cup Buttons
  /\ MaxTotal \in Nat

Members == Keys \cup Buttons
TouchStates == Touches \cup {NoTouch}
Total == (-MaxTotal - 1) .. MaxTotal
NoTime == -1

-----------------------------------------------------------------------------
(* HeldState *)

HeldState == [keys: SUBSET Keys, buttons: SUBSET Buttons, touch: TouchStates]

Neutral == [keys |-> {}, buttons |-> {}, touch |-> NoTouch]

IsNeutral(h) == h.keys = {} /\ h.buttons = {} /\ h.touch = NoTouch

Holds(h, member) == member \in h.keys \cup h.buttons

Press(h, member) ==
  IF member \in Keys THEN [h EXCEPT !.keys = @ \cup {member}]
                     ELSE [h EXCEPT !.buttons = @ \cup {member}]

Release(h, member) ==
  [h EXCEPT !.keys = @ \ {member}, !.buttons = @ \ {member}]

-----------------------------------------------------------------------------
(* MotionAnchor.  An absent anchor is NoAnchor. *)

Anchor == [through: Nat, totals: Total, touch: TouchStates,
           kind: {"Checkpoint", "Terminal"}]

NoAnchor == [through |-> 0, totals |-> 0, touch |-> NoTouch, kind |-> "Absent"]

HasAnchor(m) == m.anchor.kind # "Absent"

-----------------------------------------------------------------------------
(* ReliableControlMessage.  `after` is not on the wire: it is a history     *)
(* field recording the sender's held state and totals once the message was *)
(* produced, so that properties can compare the receiver with a prefix of  *)
(* what the sender did.  TouchCancel is received exactly as TouchEnd.       *)

ControlKinds == {"Enter", "Press", "Release", "TouchBegin", "TouchEnd",
                 "StateSnapshot", "SessionClose"}

CloseReasons == {"LocalRelease", "LeaseExpired", "Superseded",
                 "MotionOverflow", "ProtocolViolation"}

History == [held: HeldState, totals: Total]

ControlMessage == [act: Nat, seq: Nat, kind: ControlKinds,
                   member: Members \cup {NoMember},
                   held: HeldState,
                   reason: CloseReasons \cup {"none"},
                   anchor: Anchor \cup {NoAnchor},
                   after: History]

(* MotionFrame.  A frame without a touch snapshot has touch = NoTouch: the  *)
(* capture path never sends a snapshot with no contacts in it.             *)
MotionFrame == [act: Nat, seq: Nat, mark: Nat, totals: Total, touch: TouchStates]

(* Mutant: arithmetic that is never checked. *)
Fits_Unchecked(value) == TRUE

(* MotionDelta arithmetic: checked_add and checked_delta_from. *)
Fits(value) == value \in Total
=============================================================================
