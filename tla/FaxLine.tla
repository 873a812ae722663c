------------------------------- MODULE FaxLine -------------------------------
(* The two-wire line between the caller C and the answerer A while both      *)
(* transmit continuous signals (V.8 and V.34 Phase 2). What an end emits     *)
(* reaches the other after a delay; a signal shorter than the delay, or one  *)
(* that noise destroys, is not heard at all.                                 *)
EXTENDS Naturals, Sequences, FiniteSets, Functions

Sides == {"C", "A"}
Peer(s) == IF s = "C" THEN "A" ELSE "C"

VARIABLE arriving   \* what reaches the far end of each side's emission

(* A signal: its kind, the modulation octets of a CM or JM, the symbol rate  *)
(* of an INFOh.                                                              *)
Signal(kind) == [sig |-> kind, octets |-> <<>>, srate |-> ""]
Message(kind, octets) == [Signal(kind) EXCEPT !.octets = octets]
Info(srate) == [Signal("INFOH") EXCEPT !.srate = srate]
Silence == Signal("SILENCE")

LineInit == arriving = [s \in Sides |-> Silence]

Carry(s, signal) ==
  /\ arriving[s] # signal
  /\ arriving' = [arriving EXCEPT ![s] = signal]
==============================================================================
