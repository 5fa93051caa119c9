--------------------------- MODULE MCLinuxCapture ---------------------------
(***************************************************************************)
(* LinuxCapture for TLC.  Devices are interchangeable in a configuration     *)
(* that makes none of them Foreign.                                        *)
(***************************************************************************)
EXTENDS LinuxCapture, TLC

Symmetry == Permutations(Devices)
=============================================================================
