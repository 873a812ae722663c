------------------------------ MODULE MCT30Call ------------------------------
(* Instances of T30Call for TLC. *)
EXTENDS T30Call

(* The caller has no V.17; the four rows left let a page be rejected twice  *)
(* and its training checks fail too.                                        *)
MCAllowed == [p \in Parties |-> IF p = "caller" THEN {"V29", "V27TER"} ELSE Modems]

(* The answerer has no V.17. *)
MCNoV17 == [p \in Parties |-> IF p = "caller" THEN Modems ELSE {"V29", "V27TER"}]
MCSetups == CallSetups
MCSend == {[poll |-> FALSE, doc |-> FALSE, kind |-> TRUE]}
MCLosses == {MsgKinds, {"CSI", "CIG", "TSI", "TCF", "FTT", "MPS", "EOP", "DCN"}}
MCNone == {{}}
MCLoseMcf == {{"MCF"}}
MCTimings == BOOLEAN
MCPatient == {FALSE}
=============================================================================
