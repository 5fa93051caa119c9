----------------------------- MODULE RuntimePort -----------------------------
(***************************************************************************)
(* What the daemon relies on from the input thread (runtime/linux.rs):      *)
(* one activation at a time goes from Idle through Arming to Remote, a live *)
(* release waits in Releasing for the daemon's answer to TerminalRequested, *)
(* and every end gives the devices back.  The daemon's model is built on    *)
(* these steps; LinuxCapture, with devices, keys and failing system calls,  *)
(* is checked to implement them.                                            *)
(***************************************************************************)
EXTENDS Naturals

VARIABLES
  phase,     \* LinuxRuntimeStatus.ownership
  waiting,   \* the terminal was requested and not yet confirmed
  captured   \* this computer's devices are taken from its own desktop

portVars == <<phase, waiting, captured>>

PortInit == phase = "Idle" /\ waiting = FALSE /\ captured = FALSE

Arm == phase = "Idle" /\ phase' = "Arming" /\ UNCHANGED <<waiting, captured>>

Grab ==
  /\ phase = "Arming"
  /\ phase' = "Remote" /\ captured' = TRUE
  /\ UNCHANGED waiting

AskTerminal ==
  /\ phase = "Remote"
  /\ phase' = "Releasing" /\ waiting' = TRUE
  /\ UNCHANGED captured

ConfirmTerminal ==
  /\ waiting
  /\ waiting' = FALSE
  /\ UNCHANGED <<phase, captured>>

(* A released, failed or cancelled activation: the devices go back at once.  *)
GiveBack ==
  /\ phase # "Idle"
  /\ phase' = "Idle" /\ waiting' = FALSE /\ captured' = FALSE

PortNext == Arm \/ Grab \/ AskTerminal \/ ConfirmTerminal \/ GiveBack

PortSpec == PortInit /\ [][PortNext]_portVars
=============================================================================
