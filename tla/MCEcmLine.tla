----------------------------- MODULE MCEcmLine -----------------------------
(* The instance of T30Ecm over its coded line for TLC. *)
EXTENDS MCT30Ecm, EcmLine

(* One point and bits alone at 4800, two rings of the shell mapper without  *)
(* uncoded bits at 7200, nine rings at 19200: there the decisions are hit.  *)
MCModes == {[rate |-> 4800, rings |-> 1, hits |-> FALSE],
            [rate |-> 7200, rings |-> 2, hits |-> FALSE],
            [rate |-> 19200, rings |-> 9, hits |-> TRUE]}
=============================================================================
