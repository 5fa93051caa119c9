--------------------------- MODULE MCInputSession ---------------------------
(* Constants of InputSession for TLC. *)
EXTENDS InputSession

Still == {0}
Forward == {0, 1}

(* Held input is given up: a lost connection releases it, and so does a       *)
(* lease that nothing renews (session.rs, session/receive.rs).               *)
HeldInputIsGivenUp == LossReleases /\ LeaseFires
=============================================================================
