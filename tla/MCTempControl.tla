---------------------------- MODULE MCTempControl ----------------------------
(***************************************************************************)
(* A small instance of TempControl for TLC: duties 0 to 4, of which 0      *)
(* stalls the fan, 1 is its minimum, 2 the safe duty and 4 its maximum.    *)
(***************************************************************************)
EXTENDS TempControl

Setting(mode, manual, kp) == [mode |-> mode, manual |-> manual, kp |-> kp]
MCDefault == Setting("auto", 3, 2)
MCSettings == {MCDefault, Setting("auto", 3, 1), Setting("manual", 1, 2), Setting("off", 3, 2)}

MCErrors == {-1, 1, 2}
=============================================================================
