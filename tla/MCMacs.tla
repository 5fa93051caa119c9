------------------------------- MODULE MCMacs -------------------------------
(***************************************************************************)
(* The Mac (links, receiving side, injector, and the application that arms  *)
(* its edges) for TLC. These are separate systems: a behaviour runs one of  *)
(* them, its part, and the variables of the others have no value.           *)
(***************************************************************************)
EXTENDS MacLink, MacReceive, MacInject, MacApp, TLC

VARIABLE part   \* the one that runs

TwoLayouts == [l1 |-> "a", l2 |-> "b"]

(* The variables of a part that does not run have no value. *)
Unused == 0
LinksOff ==
  /\ link = Unused /\ cmds = Unused /\ live = Unused /\ opened = Unused
  /\ nudges = Unused /\ guard = Unused /\ captured = Unused
  /\ crossing = Unused /\ desks = Unused /\ finishing = Unused
ControlOff ==
  /\ policy = Unused /\ revoking = Unused /\ macLocked = Unused
  /\ ownership = Unused /\ current = Unused /\ inbound = Unused
  /\ queue = Unused /\ heldBy = Unused /\ deskLease = Unused
  /\ requests = Unused /\ enders = Unused /\ sessionIds = Unused
  /\ tokens = Unused /\ changes = Unused
InjectorOff ==
  /\ macMode = Unused /\ macRemap = Unused /\ chosen = Unused
  /\ usages = Unused /\ codes = Unused /\ media = Unused /\ repeat = Unused
  /\ macButton = Unused /\ macDown = Unused /\ terminal = Unused
  /\ macPeer = Unused
AppOff ==
  /\ mac = Unused /\ pause = Unused /\ pointer = Unused /\ pushing = Unused
  /\ controlledBy = Unused /\ displays = Unused /\ trusted = Unused
  /\ disk = Unused /\ released = Unused /\ rested = Unused /\ escaped = Unused
  /\ macMoves = Unused /\ crossings = Unused

MCInit ==
  \/ part = "Links" /\ MacLinkInit /\ ControlOff /\ InjectorOff /\ AppOff
  \/ part = "Control" /\ MacReceiveInit /\ LinksOff /\ InjectorOff /\ AppOff
  \/ part = "Injector" /\ MacInjectInit /\ LinksOff /\ ControlOff /\ AppOff
  \/ part = "App" /\ MacAppInit /\ LinksOff /\ ControlOff /\ InjectorOff

RunLinks ==
  /\ part = "Links" /\ MacLinkNext
  /\ UNCHANGED <<part, macReceiveVars, macInjectVars, macAppVars>>

RunControl ==
  /\ part = "Control" /\ MacReceiveNext
  /\ UNCHANGED <<part, macLinkVars, macInjectVars, macAppVars>>

RunInjector ==
  /\ part = "Injector" /\ MacInjectNext
  /\ UNCHANGED <<part, macLinkVars, macReceiveVars, macAppVars>>

RunApp ==
  /\ part = "App" /\ MacAppNext
  /\ UNCHANGED <<part, macLinkVars, macReceiveVars, macInjectVars>>

MCNext == RunLinks \/ RunControl \/ RunInjector \/ RunApp

MCSpec == MCInit /\ [][MCNext]_<<part, macLinkVars, macReceiveVars,
          macInjectVars, macAppVars>>

(* The application alone.                                                   *)
AppSpec == part = "App" /\ MCSpec

Symmetry == Permutations(Controllers)

-----------------------------------------------------------------------------
(* Neither a session nor a desktop outlives the link that uses it, however   *)
(* links reconnect, hop and are refused (macos/link.rs).                     *)
LinksKeepTheirOwn == part = "Links" => NoOrphanSession /\ DesktopsAreLetGo

(* A Mac is controlled by one peer, which the policy admits and whose session *)
(* holds both the keys and the desktop (macos/receive.rs); and what macOS    *)
(* sees down is what that peer holds (macos/inject.rs).                      *)
ControlIsHeldTogether ==
  /\ part = "Control" => RevokedLosesControl /\ HeldByController /\ LeaseHasSession
  /\ part = "Injector" => MacHoldsPeersKeys

(* The edges are armed as the person and the layout mean it, off returns the  *)
(* input, and a crossing only starts where the person went (app/sharing.rs,  *)
(* app/native.rs).                                                           *)
SharingDoesAsMeant ==
  /\ [](part = "App" => ArmedAsMeant /\ OffReturnsInput)
  /\ [][part = "App" => CrossesOnPurpose]_macAppVars
=============================================================================
