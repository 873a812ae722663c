----------------------------- MODULE V34Session -----------------------------
(* One end of a V.34 half-duplex session after Phase 2 (nf_v34.c): the       *)
(* control channel held between image bursts, the rates, the recovery. What  *)
(* one end does to its own state is a function of its record; SuperG3 puts   *)
(* two of them on the line.                                                  *)
EXTENDS V34Phase2, SequencesExt

CONSTANT MaxRetrains   \* V34S_MAX_RETRAINS

(* The fields of the source's session, in its groups. "gate" says what the   *)
(* receiver is capturing of the peer's carrier: nothing, the control         *)
(* channel, the primary channel or Phase 3; win_mph is the rate of the MPh   *)
(* and win the frames that the captured audio still holds, rx_seen those     *)
(* already handed up from this capture.                                      *)
NewSession ==
  [st |-> "IDLE", done |-> FALSE, in_retrain |-> FALSE, retrains |-> 0,
   tx_mode |-> "NONE", rx_mode |-> "NONE",
   frames |-> <<>>, saved |-> <<>>, pri_pending |-> FALSE, pcm |-> "", pcm_rate |-> 0,
   ccs_state |-> "OFF", pre_mph |-> FALSE, form_startup |-> FALSE, peer_mph |-> FALSE,
   data_pending |-> FALSE, reneg_pending |-> FALSE, holdoff |-> FALSE,
   cc_established |-> FALSE, last_adv |-> 0, remote_max |-> 0, rate_cur |-> 0,
   floor_hard_fails |-> 0,
   gate |-> "", win_mph |-> 0, win |-> <<>>, rx_seen |-> {}, burst_seen |-> FALSE,
   pri_skip |-> FALSE]

-----------------------------------------------------------------------------
(* Rates. An end is [ss, pt, t]: session, operating point and T.30 engine.   *)

Dev_pick_rate(r, pt) ==
  LET ok == {n \in rate_mask[pt.srate] : n <= pt.local_max} IN
  [r EXCEPT !.rate_cur =
     IF ok = {} THEN floor_rate(pt.srate) ELSE CHOOSE n \in ok : \A m \in ok : m <= n]

(* The highest rate of the symbol rate within both maxima, or the floor.     *)
pick_rate(r, pt) ==
  LET ok == {n \in rate_mask[pt.srate] :
               n <= pt.local_max /\ (r.remote_max > 0 => n <= r.remote_max)} IN
  [r EXCEPT !.rate_cur =
     IF ok = {} THEN floor_rate(pt.srate) ELSE CHOOSE n \in ok : \A m \in ok : m <= n]

(* v34_sess_rate_fallback: the rates a bad burst may fall to from cur, one   *)
(* step or several; empty at the floor.                                      *)
cur_rate(e) == IF e.ss.rate_cur > 0 THEN e.ss.rate_cur ELSE e.pt.local_max
fallbacks(e) == {n \in rate_mask[e.pt.srate] : n < cur_rate(e)}

Dev_rate_fallback(e, n) == [e EXCEPT !.ss.rate_cur = n]

rate_fallback(e, n) ==
  LET pt == [e.pt EXCEPT !.local_max = n]
  IN  [e EXCEPT !.pt = pt, !.ss = pick_rate(e.ss, pt)]

-----------------------------------------------------------------------------
(* The receiver's capture of the peer's carrier.                             *)

(* The gate opens: nothing captured yet, nothing handed up.                  *)
gate_opens(r, what, mph) ==
  [r EXCEPT !.gate = what, !.win_mph = mph, !.win = <<>>, !.rx_seen = {},
            !.burst_seen = FALSE]

gate_shut(r) == gate_opens(r, "", 0)

(* A reset of the gate while the carrier lasts: it opens again at once, on   *)
(* what follows.                                                             *)
regate(r) == gate_opens(r, r.gate, 0)

(* nf_v34_sess_set_rx_mode                                                   *)
set_rx_mode(r, mode) ==
  LET skip == mode = "PRI" /\ (r.pri_skip \/ (r.rx_mode # "PRI" /\ r.gate # ""))
      keep == r.rx_mode = mode \/ (r.rx_mode = "STARTUP" /\ mode = "CC" /\ r.gate # "")
      r1   == IF keep THEN r ELSE regate(r)
  IN  [r1 EXCEPT !.pri_skip = skip, !.rx_mode = mode,
                 !.ccs_state = IF mode = "PRI" /\ r.ccs_state = "RUN" THEN "DRAIN" ELSE @]

(* nf_v34_sess_set_tx_mode; pri_pending is read in the mode PRI only.        *)
set_tx_mode(r, mode) ==
  [r EXCEPT !.tx_mode = mode,
            !.frames = IF mode = "CC" THEN <<>> ELSE @,
            !.pri_pending = FALSE]

queue_frame(r, f) == [r EXCEPT !.frames = Append(@, f)]
begin_stream(r) == [r EXCEPT !.pri_pending = TRUE]

-----------------------------------------------------------------------------
(* The held control channel stream.                                          *)

ccs_reset(r) ==
  [r EXCEPT !.ccs_state = "OFF", !.data_pending = FALSE, !.pre_mph = FALSE,
            !.form_startup = FALSE, !.peer_mph = FALSE]

(* The short resync suffices when the caps advertised last still hold.       *)
use_sh(r, pt, startup) == ~startup /\ r.cc_established /\ pt.local_max = r.last_adv

(* v34_ccs_begin: the start-up form loops MPh until the peer's MPh is heard. *)
ccs_begin(r, pt, startup) ==
  [ccs_reset(r) EXCEPT
     !.ccs_state = "RUN", !.pre_mph = startup, !.form_startup = startup,
     !.last_adv = IF use_sh(r, pt, startup) THEN @ ELSE pt.local_max,
     !.reneg_pending = @ /\ ~startup]

append_frames(r) ==
  [r EXCEPT !.saved = r.frames, !.frames = <<>>, !.data_pending = TRUE]

(* A peer's restart is answered with the start-up form; the frames sent last *)
(* go out again.                                                             *)
restart(r, pt) ==
  ccs_begin([r EXCEPT !.frames = IF r.frames = <<>> THEN r.saved ELSE @], pt, TRUE)

(* MPh interlock complete: E and flags follow, and MPh that lingers in the   *)
(* held carriers is no restart for four seconds.                             *)
interlock(r) == [r EXCEPT !.pre_mph = FALSE, !.peer_mph = FALSE, !.holdoff = TRUE]

-----------------------------------------------------------------------------
(* Decoding the control channel.                                             *)

(* v34_sess_process_cc of a capture that yields the MPh of rate mph, or none *)
(* (0); "opens" when it opens like a start-up. The peer's restart is noticed *)
(* unless one is under way here or has just been. peer_mph matters only to   *)
(* the interlock, so it is kept only while MPh is looped.                    *)
process_cc(e, mph, opens) ==
  LET r  == e.ss
      r1 == [r EXCEPT !.reneg_pending =
               @ \/ (r.cc_established /\ ~r.holdoff /\ (mph > 0 \/ opens)
                     /\ ~(r.ccs_state # "OFF" /\ r.form_startup))]
  IN  IF mph = 0 THEN [e EXCEPT !.ss = r1]
      ELSE [e EXCEPT !.ss = pick_rate([r1 EXCEPT !.peer_mph = r.pre_mph, !.remote_max = mph], e.pt)]

(* The states of the start-up in which a peer's MPh establishes the channel. *)
CanEstablish(r) == ~r.done /\ r.st \in {"C_CC_INIT_PLAY", "A_CC1_PLAY"}

(* v34_sess_report; T.30 hears of the first start-up only.                   *)
report_v34(r, ok) ==
  IF r.done THEN r
  ELSE [r EXCEPT !.done = TRUE, !.st = IF ok THEN "DONE" ELSE "FAILED",
                 !.cc_established = @ \/ ok, !.in_retrain = FALSE,
                 !.floor_hard_fails = IF ok THEN 0 ELSE @]

(* The members of a sequence that are in a set, in order.                    *)
Only(q, set) == FoldLeft(LAMBDA kept, f : IF f \in set THEN Append(kept, f) ELSE kept, <<>>, q)

(* v34_sess_flush_rxq: of identical frames in one capture only the first is  *)
(* handed up, so a copy of one handed up or waiting adds nothing.            *)
captured(r, frames) ==
  [r EXCEPT !.win = @ \o Only(frames, Range(frames) \ (r.rx_seen \cup Range(@)))]

hand_up(r, got) ==
  [r EXCEPT !.win = Only(@, Range(@) \ got), !.rx_seen = @ \cup got]

(* nf_v34_sess_retrain: the physical layer starts over at Phase 2.           *)
retrain(r) ==
  IF r.retrains >= MaxRetrains THEN r
  ELSE [gate_shut(ccs_reset(r)) EXCEPT
          !.retrains = @ + 1, !.done = FALSE, !.cc_established = FALSE,
          !.last_adv = 0, !.floor_hard_fails = 0, !.in_retrain = TRUE,
          !.st = "START", !.pcm = ""]

(* v34_sess_process_pri after the decoder: a clean burst, a poor one that    *)
(* lowers the cap to n (0: it was at the floor), or none that decodes.       *)
judge_burst(e, hard, n) ==
  LET fails == Lower(e.ss.floor_hard_fails + 1, 2) IN
  IF n > 0
    THEN [rate_fallback(e, n) EXCEPT !.ss.floor_hard_fails = 0]
  ELSE IF ~hard
    THEN [e EXCEPT !.ss.floor_hard_fails = 0]
  ELSE [e EXCEPT !.ss = IF fails >= 2 THEN retrain([@ EXCEPT !.floor_hard_fails = fails])
                        ELSE [@ EXCEPT !.floor_hard_fails = fails]]

-----------------------------------------------------------------------------
(* Phase 3.                                                                  *)

(* v34_sess_train on a TRN that was heard: a trained equalizer whose noise   *)
(* floor may lower the cap to n, or the start-up fails.                      *)
train(e, n) == [e EXCEPT !.ss.st = "A_CC1_Q", !.pt.local_max = Lower(@, n)]

CcStates == {"OFF", "RUN", "ONES", "DRAIN"}
SessionStates ==
  {"IDLE", "START", "C_PHASE3_Q", "C_PHASE3_PLAY", "C_CC_INIT_Q", "C_CC_INIT_PLAY",
   "A_TRN_WAIT", "A_CC1_Q", "A_CC1_PLAY", "DONE", "FAILED"}
Modes == {"NONE", "STARTUP", "CC", "PRI"}
==============================================================================
