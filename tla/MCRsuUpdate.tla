---------------------------- MODULE MCRsuUpdate -----------------------------
(* RsuUpdate for TLC: three images next to the factory image, two of them    *)
(* with the same periphery.                                                  *)
EXTENDS RsuUpdate

MCPeriphery == [b \in Build |-> IF b \in {"a", "bad"} THEN 1 ELSE IF b = "b" THEN 2 ELSE 3]
=============================================================================
