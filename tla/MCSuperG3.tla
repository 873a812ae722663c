----------------------------- MODULE MCSuperG3 -----------------------------
(* One caller of this program, and an answerer of this program or of another *)
(* make, on two symbol rates and two primary rates.                          *)
EXTENDS SuperG3

Ours == {"V34HDX", "V17", "V21"}
MCCallerMods == {Ours}
MCAnswererMods == {Ours, {"V27TER", "V17", "V21"}}
MCSrates == {"S3429", "S2400"}
MCRateMask == [sr \in MCSrates |-> IF sr = "S3429" THEN {2, 3} ELSE {2}]
=============================================================================
