------------------------------ MODULE MCT38Term ------------------------------
(* T38Term on small instances: SEQ and the bounds are small enough for the  *)
(* sequence numbers to wrap within a call.                                  *)
EXTENDS T38Term
==============================================================================
