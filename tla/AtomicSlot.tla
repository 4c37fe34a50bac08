----------------------------- MODULE AtomicSlot -----------------------------
(***************************************************************************)
(* What an RSU update promises (install_rsu of fpga_access.py): slot P1    *)
(* holds one build or nothing that boots, and what the board runs was      *)
(* loaded whole - the image, its U-Boot and a core that fits it - from P1  *)
(* or from the factory image.                                              *)
(***************************************************************************)
CONSTANTS Build, Factory, Empty

VARIABLES slot, running

Init == slot \in Build /\ running \in {slot, Factory}

Erase == slot' = Empty /\ UNCHANGED running
Write == slot = Empty /\ slot' \in Build /\ UNCHANGED running
Boot == running' \in {slot, Factory} \ {Empty} /\ UNCHANGED slot

Next == Erase \/ Write \/ Boot

Spec == Init /\ [][Next]_<<slot, running>>
=============================================================================
