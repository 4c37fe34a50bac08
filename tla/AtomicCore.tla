----------------------------- MODULE AtomicCore -----------------------------
(***************************************************************************)
(* What an install of an FPGA core promises (fpga_access.py, install_core  *)
(* and _recover_install): whatever happens in between, the board has one   *)
(* installed core, which an install replaces in one step by a core that    *)
(* has run, or leaves as it was; and the card's copy, which the next       *)
(* power-on loads, only ever becomes a core that is installed.             *)
(***************************************************************************)
CONSTANTS Core, Good
VARIABLES installed, booted

Init == installed \in Good /\ booted = installed

\* A new core was loaded and passed its checks.
Replace == installed' \in Good /\ UNCHANGED booted

\* The card's copy follows.
Copy == booted' = installed /\ UNCHANGED installed

Next == Replace \/ Copy

Spec == Init /\ [][Next]_<<installed, booted>>
=============================================================================
