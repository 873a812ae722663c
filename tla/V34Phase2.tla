------------------------------ MODULE V34Phase2 ------------------------------
(* Phase 2 of the V.34 start-up (nf_v34.c, clause 12.2.1): INFO0 both ways,  *)
(* tones whose phase reversals are the cues, line probing, and the INFOh by  *)
(* which the recipient (the answerer) dictates the symbol rate.              *)
EXTENDS FaxLine

CONSTANTS
  Srates,      \* symbol rates
  Srate0,      \* the one a session starts from, 3429
  rate_mask    \* primary rates, as multiples of 2400 bit/s, of a symbol rate

(* Each symbol rate has a primary rate, and the lowest of each is within what *)
(* 3429 carries (v34_ratetabs): a session's first cap is never below a floor. *)
ASSUME RateAssumption ==
  /\ Srate0 \in Srates /\ "" \notin Srates
  /\ \A sr \in Srates : rate_mask[sr] # {} /\ rate_mask[sr] \subseteq 1..14
  /\ \A sr \in Srates : \E low \in rate_mask[sr], high \in rate_mask[Srate0] : low <= high

VARIABLES
  p2_state,
  p2_info_seen,   \* the peer's INFO0 was decoded
  p2_roll,        \* the INFO frame in the last 0.8 s of audio
  point           \* symbol rate and highest rate an end works with

p2Vars == <<p2_state, p2_info_seen, p2_roll, point>>

top_rate(sr) == CHOOSE r \in rate_mask[sr] : \A q \in rate_mask[sr] : q <= r
floor_rate(sr) == CHOOSE r \in rate_mask[sr] : \A q \in rate_mask[sr] : q >= r
Lower(a, b) == IF a < b THEN a ELSE b

Points == [srate : Srates, local_max : 1..14]

(* nf_v34_sess_alloc, with the cap nf_v34_sess_set_max_rate may have put.    *)
P2Init ==
  /\ p2_state = [s \in Sides |-> "OFF"]
  /\ p2_info_seen = [s \in Sides |-> FALSE]
  /\ p2_roll = [s \in Sides |-> Silence]
  /\ point = [s \in Sides |-> [srate |-> Srate0, local_max |-> top_rate(Srate0)]]

(* v34_p2_init *)
p2_init(s) ==
  /\ p2_state' = [p2_state EXCEPT ![s] = IF s = "C" THEN "C_SILENCE" ELSE "A_SILENCE"]
  /\ p2_info_seen' = [p2_info_seen EXCEPT ![s] = FALSE]

(* v34_p2_tx: what each state transmits.                                     *)
v34_p2_tx(s) ==
  CASE p2_state[s] \in {"C_INFO0", "A_INFO0"} -> Signal("INFO0")
    [] p2_state[s] \in {"C_TONEB", "C_TONEB2", "A_TONEA", "A_TONEA2"} -> Signal("TONE")
    [] p2_state[s] \in {"C_TB_REV", "A_TA_REV"} -> Signal("REVERSAL")
    [] p2_state[s] \in {"C_L1", "C_L2"} -> Signal("PROBE")
    [] p2_state[s] = "A_INFOH" -> Info(point[s].srate)
    [] OTHER -> Silence

(* v34_p2_roll_push, and rx_hist with nf_v34_sess_rx_prime for audio heard   *)
(* before the session began: an INFO frame that arrives whole stays.         *)
Roll(s, signal) ==
  IF signal.sig \in {"INFO0", "INFOH"}
    THEN p2_roll' \in {p2_roll, [p2_roll EXCEPT ![Peer(s)] = signal]}
    ELSE UNCHANGED p2_roll

enter(s, state) == p2_state' = [p2_state EXCEPT ![s] = state]
Go(s, from, to) ==
  p2_state[s] = from /\ enter(s, to) /\ UNCHANGED <<p2_info_seen, p2_roll, point>>

PeerSends(s, kind) == arriving[Peer(s)].sig = kind

start_info0(s, from) == Go(s, from, IF s = "C" THEN "C_INFO0" ELSE "A_INFO0")

(* v34_p2_scan_info with the INFO0 of the peer: the caller arms its detector *)
(* of reversals, the answerer only acknowledges.                             *)
DecodeInfo0(s) ==
  /\ p2_state[s] \in {"C_TONEB", "A_TONEA"}
  /\ ~p2_info_seen[s] /\ p2_roll[s].sig = "INFO0"
  /\ p2_info_seen' = [p2_info_seen EXCEPT ![s] = TRUE]
  /\ UNCHANGED <<p2_state, p2_roll, point>>

HearToneAReversal ==
  p2_info_seen["C"] /\ PeerSends("C", "REVERSAL") /\ Go("C", "C_TONEB", "C_TB_REV")

(* v34_p2_finish; what Phase 2 had collected is read no more.                *)
finish_p2(s) ==
  /\ enter(s, "OFF")
  /\ p2_roll' = [p2_roll EXCEPT ![s] = Silence]
  /\ p2_info_seen' = [p2_info_seen EXCEPT ![s] = FALSE]

Dev_AdoptInfoh ==
  /\ p2_state["C"] = "C_TONEB2" /\ p2_roll["C"].sig = "INFOH"
  /\ point' = [point EXCEPT !["C"].local_max =
                 Lower(point["C"].local_max, top_rate(p2_roll["C"].srate))]
  /\ finish_p2("C")

Dev2_AdoptInfoh ==
  /\ p2_state["C"] = "C_TONEB2" /\ p2_roll["C"].sig = "INFOH"
  /\ point' = [point EXCEPT !["C"].srate = p2_roll["C"].srate]
  /\ finish_p2("C")

(* P2C_TONEB2: the source adopts what the recipient's INFOh dictates.        *)
AdoptInfoh ==
  /\ p2_state["C"] = "C_TONEB2" /\ p2_roll["C"].sig = "INFOH"
  /\ LET sr == p2_roll["C"].srate IN
     point' = [point EXCEPT !["C"] =
                 [srate |-> sr, local_max |-> Lower(point["C"].local_max, top_rate(sr))]]
  /\ finish_p2("C")

C_Phase2 ==
  \/ start_info0("C", "C_SILENCE")
  \/ Go("C", "C_INFO0", "C_TONEB")
  \/ DecodeInfo0("C") \/ HearToneAReversal
  \/ Go("C", "C_TB_REV", "C_L1") \/ Go("C", "C_L1", "C_L2")
  \/ Go("C", "C_L2", "C_TONEB2")       \* Tone A is back, or 550 ms of L2
  \/ AdoptInfoh

(* v34_p2_analyze_probe: a symbol rate and a cap from the probe, or nothing. *)
analyze_probe ==
  \/ UNCHANGED point
  \/ \E sr \in Srates : \E projected \in rate_mask[sr] :
       point' = [point EXCEPT !["A"] =
         [srate |-> sr,
          local_max |-> Lower(projected, Lower(point["A"].local_max, top_rate(sr)))]]

ProbeDone ==
  /\ p2_state["A"] = "A_PROBE" /\ enter("A", "A_TONEA2") /\ analyze_probe
  /\ UNCHANGED <<p2_info_seen, p2_roll>>

InfohPlayed == p2_state["A"] = "A_INFOH" /\ finish_p2("A") /\ UNCHANGED point

A_Phase2 ==
  \/ start_info0("A", "A_SILENCE")
  \/ Go("A", "A_INFO0", "A_TONEA")
  \/ DecodeInfo0("A")
  \/ start_info0("A", "A_TONEA")                                   \* 700 ms
  \/ PeerSends("A", "TONE") /\ Go("A", "A_TONEA", "A_TA_REV")
  \/ Go("A", "A_TA_REV", "A_SIL2")
  \/ PeerSends("A", "REVERSAL") /\ Go("A", "A_SIL2", "A_PROBE")
  \/ start_info0("A", "A_SIL2")                                    \* 800 ms
  \/ ProbeDone
  \/ PeerSends("A", "TONE") /\ Go("A", "A_TONEA2", "A_INFOH")
  \/ InfohPlayed

(* The end whose Phase 2 ends in this step: v34_p2_finish gives the line to  *)
(* Phase 3.                                                                  *)
Phase2Ends(s) == p2_state[s] # "OFF" /\ p2_state'[s] = "OFF"

P2TypeOK ==
  /\ p2_state \in [Sides ->
       {"OFF", "C_SILENCE", "C_INFO0", "C_TONEB", "C_TB_REV", "C_L1", "C_L2", "C_TONEB2",
        "A_SILENCE", "A_INFO0", "A_TONEA", "A_TA_REV", "A_SIL2", "A_PROBE", "A_TONEA2",
        "A_INFOH"}]
  /\ p2_info_seen \in [Sides -> BOOLEAN]
  /\ \A s \in Sides : p2_roll[s].sig \in {"SILENCE", "INFO0", "INFOH"}
  /\ point \in [Sides -> Points]
  /\ \A s \in Sides : point[s].local_max <= top_rate(point[s].srate)
==============================================================================
