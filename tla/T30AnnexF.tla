------------------------------ MODULE T30AnnexF ------------------------------
(* The T.30 engine in a V.34 call (nf_t30.c, Annex F): what it does when V.8 *)
(* or V.34 reports, when a control frame arrives, when a step completes and  *)
(* when its timer fires, down to the calls it makes into the session. The    *)
(* caller sends one page of one ECM block; T30Ecm has the rest of ECM.       *)
EXTENDS V34Session

CONSTANTS
  DisRetries,    \* repeats of DIS, 10 in the program
  PostRetries,   \* repeats of PPS, 3
  PprLimit       \* PPRs the sender serves, 16

NewEngine(sub) ==
  [sub |-> sub, v34 |-> FALSE, dis_retries |-> 0, post_retries |-> 0, ppr_count |-> 0,
   missing |-> TRUE, result |-> ""]

(* start: V.8 when V.34 is enabled, else straight to CNG or CED.             *)
start(s, v8_on) ==
  NewEngine(IF s = "C" THEN IF v8_on THEN "C_WAIT_V8" ELSE "C_WAIT_DIS"
                       ELSE IF v8_on THEN "A_SEND_V8" ELSE "A_SEND_CED")

to(e, sub) == [e EXCEPT !.t.sub = sub]

(* tx_v21_frames and send_simple: one control frame.                         *)
send(e, f, sub) ==
  to([e EXCEPT !.ss = queue_frame(set_tx_mode(@, "CC"), f)], sub)

rx(e, mode, sub) == to([e EXCEPT !.ss = set_rx_mode(@, mode)], sub)

(* finish: neither direction is pumped any more, so the carrier falls and    *)
(* nothing of the session matters to anyone.                                 *)
finish(e, result) ==
  [e EXCEPT !.t.sub = "DONE", !.t.result = result, !.ss = NewSession]

answer_send_dis(e) == send(e, "DIS", "A_SEND_DIS")
ecm_rx_listen(e) == rx(e, "PRI", "A_RECV_ECM")
ecm_send_pps(e) == send(e, "PPS", "C_SEND_PPS")
ecm_start_burst(e) ==
  to([e EXCEPT !.ss = begin_stream(set_tx_mode(@, "PRI")), !.t.post_retries = 0], "C_SEND_ECM")

(* on_status with V.8's result (v8_status): V.34 when both ends negotiated   *)
(* it, else the classic call.                                                *)
on_v8(e, s, status, mods) ==
  IF status = "V8_CALL" /\ "V34HDX" \in mods
    THEN [e EXCEPT !.t.sub = (IF s = "C" THEN "C_WAIT_V34" ELSE "A_WAIT_V34"),
                   !.t.v34 = TRUE,
                   !.ss = [@ EXCEPT !.st = "START", !.tx_mode = "STARTUP",
                                    !.rx_mode = "STARTUP"]]
  ELSE IF s = "C" THEN to(e, "C_WAIT_DIS")
  ELSE to(e, IF status = "V8_CALL" THEN "A_CLASSIC_DIS" ELSE "A_SEND_CED")

(* on_status with the result of the V.34 start-up.                           *)
on_startup(e, ok) ==
  CASE ~ok /\ e.t.sub \in {"C_WAIT_V34", "A_WAIT_V34"} -> finish(e, "ERR")
    [] ok /\ e.t.sub = "C_WAIT_V34" -> rx(e, "CC", "C_WAIT_DIS")
    [] ok /\ e.t.sub = "A_WAIT_V34" -> answer_send_dis(e)
    [] OTHER -> e

(* on_status, SEND_STEP_COMPLETE.                                            *)
on_complete(e) ==
  CASE e.t.sub = "A_SEND_DIS" -> rx(e, "CC", "A_WAIT_DCS")
    [] e.t.sub = "C_SEND_DCS" -> rx(e, "CC", "C_WAIT_CFR")
    [] e.t.sub = "A_SEND_CFR" -> ecm_rx_listen([e EXCEPT !.t.missing = TRUE])
    [] e.t.sub = "C_SEND_ECM" -> ecm_send_pps(e)
    [] e.t.sub = "C_SEND_PPS" -> rx(e, "CC", "C_WAIT_PPS_RESP")
    [] e.t.sub = "A_SEND_PPR" -> ecm_rx_listen(e)
    [] e.t.sub \in {"A_SEND_ECM_MCF", "A_REACK"} -> rx(e, "CC", "A_WAIT_DCN")
    [] e.t.sub = "C_SEND_DCN" -> finish(e, "OK")
    [] OTHER -> e

(* on_status, CARRIER_DOWN.                                                  *)
on_carrier_down(e) ==
  IF e.t.sub = "A_RECV_ECM" THEN rx(e, "CC", "A_WAIT_PPS") ELSE e

Dev_ecm_process_pps(e) == send(e, "MCF", "A_SEND_ECM_MCF")

ecm_process_pps(e) ==
  IF e.t.missing THEN send(e, "PPR", "A_SEND_PPR") ELSE send(e, "MCF", "A_SEND_ECM_MCF")

ecm_ppr(e) ==
  LET e1 == [e EXCEPT !.t.ppr_count = @ + 1] IN
  IF e1.t.ppr_count > PprLimit THEN finish(e1, "ERR") ELSE ecm_start_burst(e1)

(* on_hdlc: a control frame.                                                 *)
on_frame(e, f) ==
  CASE e.t.sub = "C_WAIT_DIS" /\ f = "DIS" -> send(e, "DCS", "C_SEND_DCS")
    [] e.t.sub = "C_WAIT_CFR" /\ f = "CFR" -> ecm_start_burst(e)
    [] e.t.sub = "C_WAIT_PPS_RESP" /\ f = "MCF" -> send(e, "DCN", "C_SEND_DCN")
    [] e.t.sub = "C_WAIT_PPS_RESP" /\ f = "PPR" -> ecm_ppr(e)
    [] e.t.sub = "A_WAIT_DCS" /\ f = "DCS" -> send(e, "CFR", "A_SEND_CFR")
    [] e.t.sub \in {"A_RECV_ECM", "A_WAIT_PPS"} /\ f = "PPS" -> ecm_process_pps(e)
    [] e.t.sub = "A_WAIT_DCN" /\ f = "PPS" -> send(e, "MCF", "A_REACK")
    [] e.t.sub \in {"A_RECV_ECM", "A_WAIT_PPS", "A_WAIT_DCN"} /\ f = "DCN" -> finish(e, "OK")
    [] OTHER -> e

(* The frames of one scan, in the order they came.                           *)
on_frames(e, q) == FoldLeft(on_frame, e, q)

(* on_timer: the substates a timer guards, and what it does.                 *)
Waiting ==
  {"C_WAIT_DIS", "C_WAIT_CFR", "C_WAIT_PPS_RESP", "A_WAIT_DCS", "A_RECV_ECM",
   "A_WAIT_PPS", "A_WAIT_DCN"}

on_timer(e) ==
  CASE e.t.sub = "C_WAIT_PPS_RESP" /\ e.t.post_retries < PostRetries ->
         ecm_send_pps([e EXCEPT !.t.post_retries = @ + 1])
    [] e.t.sub = "A_WAIT_DCS" /\ e.t.dis_retries < DisRetries ->
         answer_send_dis([e EXCEPT !.t.dis_retries = @ + 1])
    [] OTHER -> finish(e, "ERR")

Substates ==
  Waiting \cup
  {"C_WAIT_V8", "A_SEND_V8", "C_WAIT_V34", "A_WAIT_V34", "A_SEND_CED", "A_CLASSIC_DIS",
   "C_SEND_DCS", "C_SEND_ECM", "C_SEND_PPS", "C_SEND_DCN", "A_SEND_DIS", "A_SEND_CFR",
   "A_SEND_PPR", "A_SEND_ECM_MCF", "A_REACK", "PHASE_B", "DONE"}
==============================================================================
