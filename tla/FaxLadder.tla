------------------------------ MODULE FaxLadder ------------------------------
(***************************************************************************)
(* The modem/rate fallback table of nf_t30.c and the functions that walk   *)
(* it.  The caller picks a starting row from the far DIS, announces its    *)
(* speed octet in DCS (and in CTC after repeated PPRs), and steps down one *)
(* allowed row at a time on FTT, RTN and the fourth PPR.                   *)
(*                                                                         *)
(* A speed octet is modelled by the set of its bits among DIS bits 3..6.   *)
(***************************************************************************)
EXTENDS Integers

(* static const FB[]: rate, modem and DCS speed bits, fastest first. *)
FB == [i \in 0..7 |->
  CASE i = 0 -> [rate |-> 14400, modem |-> "V17",    dcs |-> {6}]
    [] i = 1 -> [rate |-> 12000, modem |-> "V17",    dcs |-> {6, 4}]
    [] i = 2 -> [rate |-> 9600,  modem |-> "V17",    dcs |-> {6, 3}]
    [] i = 3 -> [rate |-> 9600,  modem |-> "V29",    dcs |-> {3}]
    [] i = 4 -> [rate |-> 7200,  modem |-> "V17",    dcs |-> {6, 4, 3}]
    [] i = 5 -> [rate |-> 7200,  modem |-> "V29",    dcs |-> {4, 3}]
    [] i = 6 -> [rate |-> 4800,  modem |-> "V27TER", dcs |-> {4}]
    [] i = 7 -> [rate |-> 2400,  modem |-> "V27TER", dcs |-> {}]]

Modems == {"V17", "V29", "V27TER"}
FbIndex == 0..7
NoFb == -1

(* next_allowed_fb: the first row at or after i whose modem is allowed. *)
AllowedFrom(i, allowed) == {j \in FbIndex : j >= i /\ FB[j].modem \in allowed}

NextAllowedFb(i, allowed) ==
  IF i < 0 \/ AllowedFrom(i, allowed) = {} THEN NoFb
  ELSE CHOOSE j \in AllowedFrom(i, allowed) :
         \A k \in AllowedFrom(i, allowed) : j <= k

(* fb_from_dcs_byte: the row whose speed bits are exactly `bits`. *)
FbFromDcs(bits) ==
  IF \E j \in FbIndex : FB[j].dcs = bits
  THEN CHOOSE j \in FbIndex : FB[j].dcs = bits
  ELSE NoFb
==============================================================================
