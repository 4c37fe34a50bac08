---------------------------- MODULE MCFpgaAccess ----------------------------
(***************************************************************************)
(* Small instances of FpgaAccess for TLC: the fan duty register and one    *)
(* other (the LEDs); duty 0 is below SAFE_FAN_DUTY, 1 is that duty and 2   *)
(* is above it.  The threads are interchangeable, so the runs that check   *)
(* no liveness use their symmetry.                                         *)
(***************************************************************************)
EXTENDS FpgaAccess, TLC

MCReg == {"fan", "led"}
MCReset == [r \in MCReg |-> 0]
Threads == Permutations(Thread)
=============================================================================
