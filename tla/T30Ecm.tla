------------------------------- MODULE T30Ecm -------------------------------
(***************************************************************************)
(* Error correction mode (T.30 Annex A) as nf_t30.c runs it: the caller    *)
(* streams each block of a page as HDLC frames (FCD) over the fast modem   *)
(* and closes it with PPS; the answerer stores the frames by number and    *)
(* replies MCF, or PPR naming the missing ones.  After PPR_LIMIT PPRs the  *)
(* caller steps down the modem ladder (CTC/CTR), and gives the block up    *)
(* (EOR/ERR) at the bottom.  MCF, PPR, CTR and ERR may be lost, and so may *)
(* any FCD frame or command.                                               *)
(*                                                                         *)
(* Both engines start where CFR has just been exchanged: the caller in     *)
(* begin_ecm_image_tx, the answerer in ecm_rx_begin_page/ecm_rx_listen.    *)
(*                                                                         *)
(* A message enters a channel when its sender's modem reports              *)
(* SEND_STEP_COMPLETE, and is taken out when the other engine's on_hdlc    *)
(* (or on_status, for the end of a carrier) runs.  One burst of FCD frames *)
(* is one message: the set of frames that survive the line.                *)
(***************************************************************************)
EXTENDS FaxLadder, Sequences, FiniteSets

CONSTANTS
  Doc,            \* the document: for each page, the FCD frames of each block
  Allowed,        \* modems the caller may use (NF_T30_MODEMS)
  StartFb,        \* ladder row negotiated in phase B
  Links,          \* the kinds of call to consider, among LinkKinds
  Racing,         \* TRUE: a timer may expire while an answer is on its way
  POST_RETRIES,   \* PPS repeats before giving up (3)
  CTC_RETRIES,    \* CTC repeats before giving up (3)
  PPR_LIMIT,      \* PPRs at one rate before CTC or EOR (4)
  PPR_LIMIT_V34,  \* PPRs tolerated in a V.34 call (16)
  FRAMES,         \* frame numbers in a block (256)
  OCTET           \* values of the page and block octets of a PPS (256)

(* A classic call over the audio modems, an Annex F call over V.34 (also    *)
(* audio: V.34 needs nf_fax_ops), or a call over the T.38 backend.          *)
LinkKinds == {"AUDIO", "V34", "T38"}

ASSUME EcmAssumption ==
  /\ Doc \in Seq(Seq(1..FRAMES)) /\ Len(Doc) > 0
  /\ \A p \in 1..Len(Doc) : Len(Doc[p]) > 0
  /\ Allowed \subseteq Modems
  /\ StartFb \in FbIndex
  /\ Links \subseteq LinkKinds /\ Racing \in BOOLEAN
  /\ POST_RETRIES \in Nat /\ CTC_RETRIES \in Nat
  /\ PPR_LIMIT \in Nat \ {0} /\ PPR_LIMIT_V34 \in Nat
  /\ FRAMES \in Nat \ {0}
  /\ OCTET \in Nat /\ OCTET > 1

VARIABLES
  link,                        \* the kind of call, fixed in phase B
  cst, ctimer, cresult,        \* caller: substate, timeout armed, result
  cur_page, ecm_block,         \* caller: page and block being sent
  ecm_send,                    \* caller: frames of the block still to send
  ecm_burst,                   \* caller: frames sent in the last burst
  post_retries, ppr_count, ctc_retries,
  fallback,                    \* caller: ladder row
  pages_tx,                    \* caller: pages counted as sent
  ast, atimer, aresult,        \* answerer: substate, timeout armed, result
  ecm_data,                    \* answerer: frames of the block, by number
  ecm_frames,                  \* answerer: frames expected, -1 until a PPS
  acked,                       \* answerer: page and block octets last MCFed
  last_pps_fcf2,               \* answerer: post-message of the last PPS
  reack_return,                \* answerer: substate after a re-sent MCF
  rfallback,                   \* answerer: ladder row
  rxbuf,                       \* answerer: blocks of the page so far
  pages,                       \* answerer: pages written to the file
  c2a, a2c                     \* the line, one queue per direction

callerVars   == <<cst, ctimer, cresult, cur_page, ecm_block, ecm_send, ecm_burst,
                  post_retries, ppr_count, ctc_retries, fallback, pages_tx>>
answererVars == <<ast, atimer, aresult, ecm_data, ecm_frames, acked,
                  last_pps_fcf2, reack_return, rfallback, rxbuf, pages>>
vars         == <<link, callerVars, answererVars, c2a, a2c>>

CallerSending == {"C_SEND_ECM", "C_SEND_PPS", "C_SEND_CTC", "C_SEND_EOR",
                  "C_SEND_DCN"}
CallerWaiting == {"C_WAIT_PPS_RESP", "C_WAIT_CTR", "C_WAIT_EOR"}
AnswererSending == {"A_SEND_PPR", "A_SEND_ECM_MCF", "A_SEND_CTR", "A_SEND_ERR",
                    "A_REACK"}
AnswererListening == {"A_RECV_ECM", "A_WAIT_PPS"}
AnswererWaiting == AnswererListening \cup {"A_WAIT_DCN"}
Results == {"NONE", "OK", "GENERAL", "TIMEOUT"}
PostMessages == {"NULL", "MPS", "EOP"}

FrameNo  == 0..(FRAMES - 1)
Frame    == Nat \X Nat \X FrameNo              \* page, block, frame number
NoFrame  == <<-1, -1, -1>>                     \* ecm_len[i] = -1
NotAcked == <<-1, -1>>                         \* acked_page8 = acked_block8 = -1

(***************************************************************************)
(* The document as seen from the encoder: s->enc cut into blocks.          *)
(***************************************************************************)
LastPage == Len(Doc) - 1
Blocks(p) == Len(Doc[p + 1])
FramesIn(p, b) == Doc[p + 1][b + 1]
at_page_end == ecm_block + 1 = Blocks(cur_page)
next_tx_step == IF cur_page < LastPage THEN "MPS" ELSE "EOP"

BlockData(p, b) == [i \in 1..FramesIn(p, b) |-> <<p, b, i - 1>>]
PageData(p) == [b \in 1..Blocks(p) |-> BlockData(p, b - 1)]

V34 == link = "V34"
T38 == link = "T38"

-----------------------------------------------------------------------------
(* The line: a message arrives or is lost; the queues keep order.          *)
ToAnswerer(m) == c2a' \in {c2a, Append(c2a, m)}
ToCaller(m)   == a2c' \in {a2c, Append(a2c, m)}

Quiet == c2a = <<>> /\ a2c = <<>>

(* Unless timers race, one expires only when no answer can be on its way.  *)
CallerMayExpire   == ctimer /\ (Racing \/ (Quiet /\ ast \notin AnswererSending))
AnswererMayExpire == atimer /\ (Racing \/ (Quiet /\ cst \notin CallerSending))

-----------------------------------------------------------------------------
(***************************************************************************)
(* Caller.                                                                 *)
(***************************************************************************)
(* ecm_build_block then ecm_start_burst. *)
StartBlock(p, b) ==
  /\ cur_page' = p /\ ecm_block' = b
  /\ ecm_send' = 0..(FramesIn(p, b) - 1)
  /\ ppr_count' = 0
  /\ cst' = "C_SEND_ECM"

(* finish(): a DCN queued just before it is discarded with the transmitter. *)
CallerFinish(result) ==
  /\ cst' = "ST_DONE" /\ cresult' = result

(* C_SEND_ECM step complete: the burst has been streamed by on_get_frame.   *)
(* The fast modem reports its carrier going down only if it trained; T.38   *)
(* infers both from indicators of their own, so they may be lost singly.    *)
SendBlock ==
  /\ cst = "C_SEND_ECM"
  /\ \E kept \in SUBSET ecm_send, down \in BOOLEAN :
       /\ T38 \/ (kept # {} => down)
       /\ c2a' = IF kept = {} /\ ~down THEN c2a
                 ELSE Append(c2a, [m |-> "BURST", page |-> cur_page, block |-> ecm_block,
                                   kept |-> kept, down |-> down, row |-> fallback])
  /\ ecm_burst' = Cardinality(ecm_send)
  /\ post_retries' = 0
  /\ cst' = "C_SEND_PPS"
  /\ UNCHANGED <<ctimer, cresult, cur_page, ecm_block, ecm_send, ppr_count,
                 ctc_retries, fallback, pages_tx, answererVars, a2c>>

(* C_SEND_PPS step complete: frame built by ecm_send_pps. *)
SendPps ==
  /\ cst = "C_SEND_PPS"
  /\ ToAnswerer([m |-> "PPS", fcf2 |-> IF at_page_end THEN next_tx_step ELSE "NULL",
                 page |-> cur_page % OCTET, block |-> ecm_block % OCTET,
                 frames |-> IF ecm_burst = 0 THEN 1 ELSE ecm_burst])
  /\ cst' = "C_WAIT_PPS_RESP" /\ ctimer' = TRUE
  /\ UNCHANGED <<cresult, cur_page, ecm_block, ecm_send, ecm_burst, post_retries,
                 ppr_count, ctc_retries, fallback, pages_tx, answererVars, a2c>>

(* C_SEND_CTC and C_SEND_EOR step complete. *)
SendCtc ==
  /\ cst = "C_SEND_CTC"
  /\ ToAnswerer([m |-> "CTC", dcs |-> FB[fallback].dcs])
  /\ cst' = "C_WAIT_CTR" /\ ctimer' = TRUE
  /\ UNCHANGED <<cresult, cur_page, ecm_block, ecm_send, ecm_burst, post_retries,
                 ppr_count, ctc_retries, fallback, pages_tx, answererVars, a2c>>

SendEor ==
  /\ cst = "C_SEND_EOR"
  /\ ToAnswerer([m |-> "EOR"])
  /\ cst' = "C_WAIT_EOR" /\ ctimer' = TRUE
  /\ UNCHANGED <<cresult, cur_page, ecm_block, ecm_send, ecm_burst, post_retries,
                 ppr_count, ctc_retries, fallback, pages_tx, answererVars, a2c>>

(* C_SEND_DCN step complete: the DCN has been flushed, the call is over. *)
SendDcn ==
  /\ cst = "C_SEND_DCN"
  /\ ToAnswerer([m |-> "DCN"])
  /\ CallerFinish("OK")
  /\ UNCHANGED <<ctimer, cur_page, ecm_block, ecm_send, ecm_burst, post_retries,
                 ppr_count, ctc_retries, fallback, pages_tx, answererVars, a2c>>

(* on_hdlc takes the next frame; any good frame disarms the timer. *)
CallerTakes(kind) ==
  /\ a2c # <<>> /\ Head(a2c).m = kind
  /\ a2c' = Tail(a2c)
  /\ ctimer' = FALSE
  /\ UNCHANGED <<answererVars, c2a>>

(* MCF in C_WAIT_PPS_RESP: next block, next page, or the end. *)
HearMcfNextBlock ==
  /\ cst = "C_WAIT_PPS_RESP" /\ ~at_page_end
  /\ CallerTakes("MCF")
  /\ StartBlock(cur_page, ecm_block + 1)
  /\ UNCHANGED <<cresult, ecm_burst, post_retries, ctc_retries, fallback, pages_tx>>

HearMcfNextPage ==
  /\ cst = "C_WAIT_PPS_RESP" /\ at_page_end /\ next_tx_step = "MPS"
  /\ CallerTakes("MCF")
  /\ pages_tx' = cur_page + 1
  /\ StartBlock(cur_page + 1, 0)
  /\ UNCHANGED <<cresult, ecm_burst, post_retries, ctc_retries, fallback>>

HearMcfLastPage ==
  /\ cst = "C_WAIT_PPS_RESP" /\ at_page_end /\ next_tx_step = "EOP"
  /\ CallerTakes("MCF")
  /\ pages_tx' = cur_page + 1
  /\ cst' = "C_SEND_DCN"
  /\ UNCHANGED <<cresult, cur_page, ecm_block, ecm_send, ecm_burst, post_retries,
                 ppr_count, ctc_retries, fallback>>

(* Deviation: the map read with the wrong polarity. *)
Dev_ApplyPpr(missing) ==
  ecm_send' = (0..(FramesIn(cur_page, ecm_block) - 1)) \ missing

(* ecm_apply_ppr: keep only the frames the receiver still misses. *)
ApplyPpr(missing) ==
  ecm_send' = missing \cap (0..(FramesIn(cur_page, ecm_block) - 1))

(* PPR in C_WAIT_PPS_RESP, below the limit: stream the missing frames again. *)
HearPprResend ==
  /\ cst = "C_WAIT_PPS_RESP"
  /\ CallerTakes("PPR")
  /\ ApplyPpr(Head(a2c).missing)
  /\ IF V34 THEN ppr_count + 1 <= PPR_LIMIT_V34 ELSE ppr_count + 1 < PPR_LIMIT
  /\ ppr_count' = ppr_count + 1
  /\ cst' = "C_SEND_ECM"
  /\ UNCHANGED <<cresult, cur_page, ecm_block, ecm_burst, post_retries, ctc_retries,
                 fallback, pages_tx>>

(* The limit is reached and a slower row is allowed: announce it with CTC. *)
HearPprStepDown ==
  LET row == NextAllowedFb(fallback + 1, Allowed) IN
  /\ cst = "C_WAIT_PPS_RESP" /\ ~V34
  /\ ppr_count + 1 >= PPR_LIMIT /\ row >= 0
  /\ CallerTakes("PPR")
  /\ ApplyPpr(Head(a2c).missing)
  /\ fallback' = row /\ ppr_count' = 0 /\ ctc_retries' = 0
  /\ cst' = "C_SEND_CTC"
  /\ UNCHANGED <<cresult, cur_page, ecm_block, ecm_burst, post_retries, pages_tx>>

(* The limit is reached at the slowest row: end retransmission with EOR. *)
HearPprGiveUp ==
  /\ cst = "C_WAIT_PPS_RESP" /\ ~V34
  /\ ppr_count + 1 >= PPR_LIMIT /\ NextAllowedFb(fallback + 1, Allowed) < 0
  /\ CallerTakes("PPR")
  /\ ApplyPpr(Head(a2c).missing)
  /\ ppr_count' = ppr_count + 1
  /\ cst' = "C_SEND_EOR"
  /\ UNCHANGED <<cresult, cur_page, ecm_block, ecm_burst, post_retries, ctc_retries,
                 fallback, pages_tx>>

(* One PPR too many over V.34: the call fails. *)
HearPprFailV34 ==
  /\ cst = "C_WAIT_PPS_RESP" /\ V34 /\ ppr_count + 1 > PPR_LIMIT_V34
  /\ CallerTakes("PPR")
  /\ ApplyPpr(Head(a2c).missing)
  /\ ppr_count' = ppr_count + 1
  /\ CallerFinish("GENERAL")
  /\ UNCHANGED <<cur_page, ecm_block, ecm_burst, post_retries, ctc_retries, fallback,
                 pages_tx>>

(* CTR in C_WAIT_CTR: resume the block at the new rate. *)
HearCtr ==
  /\ cst = "C_WAIT_CTR"
  /\ CallerTakes("CTR")
  /\ cst' = "C_SEND_ECM"
  /\ UNCHANGED <<cresult, cur_page, ecm_block, ecm_send, ecm_burst, post_retries,
                 ppr_count, ctc_retries, fallback, pages_tx>>

(* Deviation: the abandoned block ends the call like a delivered one. *)
Dev_HearErr ==
  /\ cst = "C_WAIT_EOR"
  /\ CallerTakes("ERR")
  /\ cst' = "C_SEND_DCN"
  /\ UNCHANGED <<cresult, cur_page, ecm_block, ecm_send, ecm_burst, post_retries,
                 ppr_count, ctc_retries, fallback, pages_tx>>

(* ERR in C_WAIT_EOR: the block is abandoned and the call fails. *)
HearErr ==
  /\ cst = "C_WAIT_EOR"
  /\ CallerTakes("ERR")
  /\ CallerFinish("GENERAL")
  /\ UNCHANGED <<cur_page, ecm_block, ecm_send, ecm_burst, post_retries, ppr_count,
                 ctc_retries, fallback, pages_tx>>

(* Every other frame disarms the timer and has no effect; once finished,   *)
(* the receiver is off.                                                    *)
CallerAnswers(st) ==
  CASE st = "C_WAIT_PPS_RESP" -> {"MCF", "PPR"}
    [] st = "C_WAIT_CTR"      -> {"CTR"}
    [] st = "C_WAIT_EOR"      -> {"ERR"}
    [] OTHER                  -> {}

CallerIgnores ==
  /\ a2c # <<>> /\ Head(a2c).m \notin CallerAnswers(cst)
  /\ CallerTakes(Head(a2c).m)
  /\ UNCHANGED <<cst, cresult, cur_page, ecm_block, ecm_send, ecm_burst, post_retries,
                 ppr_count, ctc_retries, fallback, pages_tx>>

(* Deviation: one repetition too many. *)
Dev_ExpireRepeatPps ==
  /\ CallerMayExpire
  /\ cst = "C_WAIT_PPS_RESP" /\ post_retries <= POST_RETRIES
  /\ ctimer' = FALSE
  /\ post_retries' = post_retries + 1
  /\ cst' = "C_SEND_PPS"
  /\ UNCHANGED <<cresult, cur_page, ecm_block, ecm_send, ecm_burst, ppr_count,
                 ctc_retries, fallback, pages_tx, answererVars, c2a, a2c>>

(* on_timer in the caller: repeat PPS or CTC, else disconnect. *)
ExpireRepeatPps ==
  /\ CallerMayExpire
  /\ cst = "C_WAIT_PPS_RESP" /\ post_retries < POST_RETRIES
  /\ ctimer' = FALSE
  /\ post_retries' = post_retries + 1
  /\ cst' = "C_SEND_PPS"
  /\ UNCHANGED <<cresult, cur_page, ecm_block, ecm_send, ecm_burst, ppr_count,
                 ctc_retries, fallback, pages_tx, answererVars, c2a, a2c>>

ExpireRepeatCtc ==
  /\ CallerMayExpire
  /\ cst = "C_WAIT_CTR" /\ ctc_retries < CTC_RETRIES
  /\ ctimer' = FALSE
  /\ ctc_retries' = ctc_retries + 1
  /\ cst' = "C_SEND_CTC"
  /\ UNCHANGED <<cresult, cur_page, ecm_block, ecm_send, ecm_burst, post_retries,
                 ppr_count, fallback, pages_tx, answererVars, c2a, a2c>>

ExpireCaller ==
  /\ CallerMayExpire
  /\ ~(cst = "C_WAIT_PPS_RESP" /\ post_retries < POST_RETRIES)
  /\ ~(cst = "C_WAIT_CTR" /\ ctc_retries < CTC_RETRIES)
  /\ ctimer' = FALSE
  /\ CallerFinish("TIMEOUT")
  /\ UNCHANGED <<cur_page, ecm_block, ecm_send, ecm_burst, post_retries, ppr_count,
                 ctc_retries, fallback, pages_tx, answererVars, c2a, a2c>>

-----------------------------------------------------------------------------
(***************************************************************************)
(* Answerer.                                                               *)
(***************************************************************************)
AnswererFinish(result) ==
  /\ ast' = "ST_DONE" /\ aresult' = result

(* Deviation: the block is not bounded by a timer. *)
Dev_ecm_rx_listen ==
  /\ ast' = "A_RECV_ECM"
  /\ atimer' = FALSE

(* ecm_rx_listen: arm for the fast carrier, the block bounded by a timer. *)
ecm_rx_listen ==
  /\ ast' = "A_RECV_ECM"
  /\ atimer' = TRUE

NoFrames == [i \in FrameNo |-> NoFrame]

(* ecm_rx_begin_page *)
ecm_rx_begin_page ==
  /\ ecm_data' = NoFrames
  /\ ecm_frames' = -1
  /\ rxbuf' = <<>>

AnswererTakes(kind) ==
  /\ c2a # <<>> /\ Head(c2a).m = kind
  /\ c2a' = Tail(c2a)
  /\ UNCHANGED <<callerVars, a2c>>

(* The audio modem only decodes a carrier sent at the rate it is set to. *)
Audible(burst) == T38 \/ burst.row = rfallback

(* FCD frames, then the end of the fast carrier, in A_RECV_ECM: store the  *)
(* frames by number (ecm_store_fcd) and drop to V.21 to wait for the PPS.  *)
HearBlock ==
  LET burst == Head(c2a)
      kept  == IF Audible(burst) THEN burst.kept ELSE {}
      down  == Audible(burst) /\ burst.down
  IN
  /\ ast = "A_RECV_ECM"
  /\ AnswererTakes("BURST")
  /\ ecm_data' = [i \in FrameNo |-> IF i \in kept THEN <<burst.page, burst.block, i>>
                                                 ELSE ecm_data[i]]
  /\ ast' = IF down THEN "A_WAIT_PPS" ELSE ast
  /\ atimer' = (down \/ (atimer /\ kept = {}))
  /\ UNCHANGED <<aresult, ecm_frames, acked, last_pps_fcf2, reack_return, rfallback,
                 rxbuf, pages>>

(* Outside A_RECV_ECM the frames are dropped; only T.38 still delivers them *)
(* to on_hdlc, which disarms the timer before looking at the substate.      *)
MissBlock ==
  /\ ast # "A_RECV_ECM"
  /\ AnswererTakes("BURST")
  /\ atimer' = (atimer /\ ~(T38 /\ Head(c2a).kept # {}))
  /\ UNCHANGED <<ast, aresult, ecm_data, ecm_frames, acked, last_pps_fcf2, reack_return,
                 rfallback, rxbuf, pages>>

(* reack: answer a repeated command again, then go back to `resume`. *)
Reack(resume) ==
  /\ reack_return' = resume
  /\ ast' = "A_REACK"
  /\ atimer' = FALSE

(* Deviations: the repeated PPS is processed afresh; or only the block      *)
(* number is compared.                                                      *)
Dev_RepeatedPpsMissed(pps) == FALSE
Dev_RepeatedPpsBlock(pps) == pps.block = acked[2]

(* ecm_process_pps: the PPS of the block just acknowledged. *)
RepeatedPps(pps) == <<pps.page, pps.block>> = acked

HearRepeatedPps ==
  /\ ast \in AnswererListening
  /\ AnswererTakes("PPS")
  /\ RepeatedPps(Head(c2a))
  /\ Reack("A_RECV_ECM")
  /\ UNCHANGED <<aresult, ecm_data, ecm_frames, acked, last_pps_fcf2, rfallback, rxbuf,
                 pages>>

(* Deviation: the last frame of the block is not looked at. *)
Dev_BlockComplete(n) == \A i \in 0..(n - 2) : ecm_data[i] # NoFrame

(* The block size is locked by the first PPS of the block. *)
BlockSize(pps) == IF ecm_frames < 0 THEN pps.frames ELSE ecm_frames
BlockComplete(n) == \A i \in 0..(n - 1) : ecm_data[i] # NoFrame

(* The block is complete: append it to the page and acknowledge. *)
HearPpsComplete ==
  LET pps == Head(c2a)
      n   == BlockSize(pps)
  IN
  /\ ast \in AnswererListening
  /\ AnswererTakes("PPS")
  /\ ~RepeatedPps(pps) /\ BlockComplete(n)
  /\ last_pps_fcf2' = pps.fcf2
  /\ rxbuf' = Append(rxbuf, [i \in 1..n |-> ecm_data[i - 1]])
  /\ ecm_data' = NoFrames /\ ecm_frames' = -1
  /\ acked' = <<pps.page, pps.block>>
  /\ ast' = "A_SEND_ECM_MCF" /\ atimer' = FALSE
  /\ UNCHANGED <<aresult, reack_return, rfallback, pages>>

(* Frames are missing: ask for them. *)
HearPpsIncomplete ==
  LET pps == Head(c2a)
      n   == BlockSize(pps)
  IN
  /\ ast \in AnswererListening
  /\ AnswererTakes("PPS")
  /\ ~RepeatedPps(pps) /\ ~BlockComplete(n)
  /\ last_pps_fcf2' = pps.fcf2
  /\ ecm_frames' = n
  /\ ast' = "A_SEND_PPR" /\ atimer' = FALSE
  /\ UNCHANGED <<aresult, ecm_data, acked, reack_return, rfallback, rxbuf, pages>>

(* Deviation: CTR is sent, the rate is kept. *)
Dev_HearCtc ==
  /\ ast \in AnswererListening
  /\ AnswererTakes("CTC")
  /\ ast' = "A_SEND_CTR" /\ atimer' = FALSE
  /\ UNCHANGED <<aresult, ecm_data, ecm_frames, acked, last_pps_fcf2, reack_return,
                 rfallback, rxbuf, pages>>

(* ecm_process_ctc: adopt the announced row if it is a known one. *)
HearCtc ==
  LET row == FbFromDcs(Head(c2a).dcs) IN
  /\ ast \in AnswererListening
  /\ AnswererTakes("CTC")
  /\ rfallback' = IF row >= 0 THEN row ELSE rfallback
  /\ ast' = "A_SEND_CTR" /\ atimer' = FALSE
  /\ UNCHANGED <<aresult, ecm_data, ecm_frames, acked, last_pps_fcf2, reack_return,
                 rxbuf, pages>>

(* ecm_process_eor: keep what arrived of the block, the gaps closed up. *)
HearEor ==
  /\ ast \in AnswererListening
  /\ AnswererTakes("EOR")
  /\ rxbuf' = IF ecm_frames < 1 THEN rxbuf
              ELSE Append(rxbuf, SelectSeq([i \in 1..ecm_frames |-> ecm_data[i - 1]],
                                           LAMBDA f : f # NoFrame))
  /\ ast' = "A_SEND_ERR" /\ atimer' = FALSE
  /\ UNCHANGED <<aresult, ecm_data, ecm_frames, acked, last_pps_fcf2, reack_return,
                 rfallback, pages>>

(* A PPS after the last page was acknowledged: the MCF was lost. *)
HearPpsAfterEnd ==
  /\ ast = "A_WAIT_DCN"
  /\ AnswererTakes("PPS")
  /\ Reack("A_WAIT_DCN")
  /\ UNCHANGED <<aresult, ecm_data, ecm_frames, acked, last_pps_fcf2, rfallback, rxbuf,
                 pages>>

HearDcn ==
  /\ ast \in AnswererWaiting
  /\ AnswererTakes("DCN")
  /\ AnswererFinish("OK")
  /\ atimer' = FALSE
  /\ UNCHANGED <<ecm_data, ecm_frames, acked, last_pps_fcf2, reack_return, rfallback,
                 rxbuf, pages>>

(* Every other V.21 frame disarms the timer and has no effect. *)
AnswererIgnores ==
  LET kind == Head(c2a).m IN
  /\ c2a # <<>>
  /\ kind # "BURST"
  /\ ast \in AnswererSending \cup {"ST_DONE"} \/ (ast = "A_WAIT_DCN" /\ kind \in {"CTC", "EOR"})
  /\ AnswererTakes(kind)
  /\ atimer' = FALSE
  /\ UNCHANGED <<ast, aresult, ecm_data, ecm_frames, acked, last_pps_fcf2, reack_return,
                 rfallback, rxbuf, pages>>

(* A_SEND_PPR step complete: the map marks every number not yet received. *)
SendPpr ==
  /\ ast = "A_SEND_PPR"
  /\ ToCaller([m |-> "PPR", missing |-> {i \in FrameNo : ecm_data[i] = NoFrame}])
  /\ ecm_rx_listen
  /\ UNCHANGED <<aresult, ecm_data, ecm_frames, acked, last_pps_fcf2, reack_return,
                 rfallback, rxbuf, pages, callerVars, c2a>>

(* A_SEND_ECM_MCF step complete, another block of the page to come. *)
SendMcfMidPage ==
  /\ ast = "A_SEND_ECM_MCF" /\ last_pps_fcf2 = "NULL"
  /\ ToCaller([m |-> "MCF"])
  /\ ecm_rx_listen
  /\ UNCHANGED <<aresult, ecm_data, ecm_frames, acked, last_pps_fcf2, reack_return,
                 rfallback, rxbuf, pages, callerVars, c2a>>

(* The page is complete: write it (ecm_finish_page), then the next page or  *)
(* the wait for DCN.                                                        *)
SendMcfNextPage ==
  /\ ast = "A_SEND_ECM_MCF" /\ last_pps_fcf2 = "MPS"
  /\ ToCaller([m |-> "MCF"])
  /\ pages' = Append(pages, rxbuf)
  /\ ecm_rx_begin_page
  /\ ecm_rx_listen
  /\ UNCHANGED <<aresult, acked, last_pps_fcf2, reack_return, rfallback, callerVars, c2a>>

(* Deviation: the last page is acknowledged and never written. *)
Dev_SendMcfLastPage ==
  /\ ast = "A_SEND_ECM_MCF" /\ last_pps_fcf2 = "EOP"
  /\ ToCaller([m |-> "MCF"])
  /\ ast' = "A_WAIT_DCN" /\ atimer' = TRUE
  /\ UNCHANGED <<aresult, ecm_data, ecm_frames, acked, last_pps_fcf2, reack_return,
                 rfallback, rxbuf, pages, callerVars, c2a>>

SendMcfLastPage ==
  /\ ast = "A_SEND_ECM_MCF" /\ last_pps_fcf2 = "EOP"
  /\ ToCaller([m |-> "MCF"])
  /\ pages' = Append(pages, rxbuf)
  /\ rxbuf' = <<>>
  /\ ast' = "A_WAIT_DCN" /\ atimer' = TRUE
  /\ UNCHANGED <<aresult, ecm_data, ecm_frames, acked, last_pps_fcf2, reack_return,
                 rfallback, callerVars, c2a>>

SendCtr ==
  /\ ast = "A_SEND_CTR"
  /\ ToCaller([m |-> "CTR"])
  /\ ecm_rx_listen
  /\ UNCHANGED <<aresult, ecm_data, ecm_frames, acked, last_pps_fcf2, reack_return,
                 rfallback, rxbuf, pages, callerVars, c2a>>

SendErr ==
  /\ ast = "A_SEND_ERR"
  /\ ToCaller([m |-> "ERR"])
  /\ ast' = "A_WAIT_PPS" /\ atimer' = TRUE
  /\ UNCHANGED <<aresult, ecm_data, ecm_frames, acked, last_pps_fcf2, reack_return,
                 rfallback, rxbuf, pages, callerVars, c2a>>

(* A_REACK step complete: last_resp_fcf is MCF throughout an ECM page. *)
SendReack ==
  /\ ast = "A_REACK"
  /\ ToCaller([m |-> "MCF"])
  /\ ast' = reack_return /\ atimer' = TRUE
  /\ UNCHANGED <<aresult, ecm_data, ecm_frames, acked, last_pps_fcf2, reack_return,
                 rfallback, rxbuf, pages, callerVars, c2a>>

(* on_timer in the answerer: disconnect. *)
ExpireAnswerer ==
  /\ AnswererMayExpire
  /\ atimer' = FALSE
  /\ AnswererFinish("TIMEOUT")
  /\ UNCHANGED <<ecm_data, ecm_frames, acked, last_pps_fcf2, reack_return, rfallback,
                 rxbuf, pages, callerVars, c2a, a2c>>

-----------------------------------------------------------------------------
Init ==
  /\ link \in Links
  /\ cst = "C_SEND_ECM" /\ ctimer = FALSE /\ cresult = "NONE"
  /\ cur_page = 0 /\ ecm_block = 0
  /\ ecm_send = 0..(FramesIn(0, 0) - 1)
  /\ ecm_burst = 0
  /\ post_retries = 0 /\ ppr_count = 0 /\ ctc_retries = 0
  /\ fallback = StartFb /\ pages_tx = 0
  /\ ast = "A_RECV_ECM" /\ atimer = TRUE /\ aresult = "NONE"
  /\ ecm_data = NoFrames /\ ecm_frames = -1
  /\ acked = NotAcked /\ last_pps_fcf2 = "NULL" /\ reack_return = "A_RECV_ECM"
  /\ rfallback = StartFb
  /\ rxbuf = <<>> /\ pages = <<>>
  /\ c2a = <<>> /\ a2c = <<>>

CallerSends ==
  /\ SendBlock \/ SendPps \/ SendCtc \/ SendEor \/ SendDcn
  /\ UNCHANGED link
CallerHears ==
  /\ \/ HearMcfNextBlock \/ HearMcfNextPage \/ HearMcfLastPage
     \/ HearPprResend \/ HearPprStepDown \/ HearPprGiveUp \/ HearPprFailV34
     \/ HearCtr \/ HearErr \/ CallerIgnores
  /\ UNCHANGED link
CallerExpires ==
  /\ ExpireRepeatPps \/ ExpireRepeatCtc \/ ExpireCaller
  /\ UNCHANGED link

AnswererHears ==
  /\ \/ HearBlock \/ MissBlock
     \/ HearRepeatedPps \/ HearPpsComplete \/ HearPpsIncomplete
     \/ HearCtc \/ HearEor \/ HearPpsAfterEnd \/ HearDcn \/ AnswererIgnores
  /\ UNCHANGED link
AnswererSends ==
  /\ \/ SendPpr \/ SendMcfMidPage \/ SendMcfNextPage \/ SendMcfLastPage
     \/ SendCtr \/ SendErr \/ SendReack
  /\ UNCHANGED link
AnswererExpires == ExpireAnswerer /\ UNCHANGED link

Next == CallerSends \/ CallerHears \/ CallerExpires
        \/ AnswererHears \/ AnswererSends \/ AnswererExpires

Spec == Init /\ [][Next]_vars

(* The modems always finish a burst, what arrives is handed to the engine, *)
(* and an armed timer runs out: each is driven by the sample clock.        *)
Fairness ==
  /\ WF_vars(CallerSends) /\ WF_vars(CallerHears) /\ WF_vars(CallerExpires)
  /\ WF_vars(AnswererSends) /\ WF_vars(AnswererHears) /\ WF_vars(AnswererExpires)

FairSpec == Spec /\ Fairness

-----------------------------------------------------------------------------
(* Values of the line and of the retry counters. *)
PprCountMax == IF V34 THEN PPR_LIMIT_V34 + 1 ELSE PPR_LIMIT

ToAnswererMsg ==
  [m : {"BURST"}, page : Nat, block : Nat, kept : SUBSET FrameNo, down : BOOLEAN,
   row : FbIndex]
  \cup [m : {"PPS"}, fcf2 : PostMessages, page : 0..(OCTET - 1), block : 0..(OCTET - 1),
        frames : 1..FRAMES]
  \cup [m : {"CTC"}, dcs : SUBSET {3, 4, 6}]
  \cup [m : {"EOR", "DCN"}]

ToCallerMsg ==
  [m : {"MCF", "CTR", "ERR"}] \cup [m : {"PPR"}, missing : SUBSET FrameNo]

CallerTypeOK ==                        \* a part of TypeOK
  /\ cst \in CallerSending \cup CallerWaiting \cup {"ST_DONE"}
  /\ ctimer \in BOOLEAN /\ cresult \in Results
  /\ cur_page \in 0..LastPage /\ ecm_block \in 0..(Blocks(cur_page) - 1)
  /\ ecm_send \subseteq 0..(FramesIn(cur_page, ecm_block) - 1)
  /\ ecm_burst \in 0..FRAMES
  /\ post_retries \in 0..POST_RETRIES /\ ctc_retries \in 0..CTC_RETRIES
  /\ ppr_count \in 0..PprCountMax
  /\ fallback \in FbIndex
  /\ pages_tx \in 0..Len(Doc)

AnswererTypeOK ==                      \* a part of TypeOK
  /\ ast \in AnswererSending \cup AnswererWaiting \cup {"ST_DONE"}
  /\ atimer \in BOOLEAN /\ aresult \in Results
  /\ ecm_data \in [FrameNo -> Frame \cup {NoFrame}]
  /\ ecm_frames \in {-1} \cup 1..FRAMES
  /\ acked \in {NotAcked} \cup (0..(OCTET - 1)) \X (0..(OCTET - 1))
  /\ last_pps_fcf2 \in PostMessages
  /\ reack_return \in {"A_RECV_ECM", "A_WAIT_DCN"}
  /\ rfallback \in FbIndex

LineTypeOK ==                          \* a part of TypeOK
  /\ c2a \in Seq(ToAnswererMsg)
  /\ a2c \in Seq(ToCallerMsg)

(* Type correctness, with the bounds the retry counters keep: an engine     *)
(* never repeats a PPS or CTC, nor counts a PPR, past its limit.            *)
TypeOK == link \in LinkKinds /\ CallerTypeOK /\ AnswererTypeOK /\ LineTypeOK

(* What makes TypeOK inductive: while the block may still be repeated, the  *)
(* count of its PPRs is below the limit that ends the repetition.           *)
PprBelowLimit ==
  cst \in {"C_SEND_ECM", "C_SEND_PPS", "C_WAIT_PPS_RESP", "C_SEND_CTC", "C_WAIT_CTR"} =>
    IF V34 THEN ppr_count <= PPR_LIMIT_V34 ELSE ppr_count < PPR_LIMIT

TypeInv == TypeOK /\ PprBelowLimit

(* README "Because ECM verifies every frame and retransmits losses, the     *)
(* delivered file is identical to the source": every page written is the    *)
(* page of that number in the document, each block and frame once, in       *)
(* order, whatever was lost, resent or acknowledged twice on the way.       *)
PagesIntact ==
  \A i \in 1..Len(pages) : i <= Len(Doc) /\ pages[i] = PageData(i - 1)

(* The caller counts a page in pages_tx only when the answerer has written  *)
(* it, and never runs more than that one page behind: MCF is believed for   *)
(* the block it answers although it names none (C_WAIT_PPS_RESP).           *)
PagesConfirmed == pages_tx <= Len(pages) /\ Len(pages) <= pages_tx + 1

(* The caller reports success only when the whole document is in the        *)
(* answerer's file (NF_T30_OK follows the DCN, that follows the last MCF).  *)
CallerSuccess == cresult = "OK" => Len(pages) = Len(Doc)

(* The answerer reports success, which any DCN makes it do, only if the     *)
(* caller reports success too: an aborting caller never makes the answerer  *)
(* take a truncated document for a complete one.                            *)
AnswererSuccess == aresult = "OK" => cresult = "OK" /\ pages_tx = Len(Doc)

(* What makes AnswererSuccess inductive: a DCN is sent only by a caller that *)
(* has counted every page, and nothing happens to it afterwards.             *)
DcnQueued == \E i \in 1..Len(c2a) : c2a[i].m = "DCN"

SuccessInv ==
  /\ ctimer => cst \in CallerWaiting
  /\ cst # "ST_DONE" => cresult = "NONE"
  /\ cst = "C_SEND_DCN" \/ cresult = "OK" => pages_tx = Len(Doc)
  /\ aresult = "OK" \/ DcnQueued => cresult = "OK"

(* The two ends agree on the modem and rate whenever image data is on its   *)
(* way to a listening answerer, however many CTCs and CTRs were lost.       *)
RateAgreed ==
  c2a # <<>> /\ Head(c2a).m = "BURST" /\ ast = "A_RECV_ECM"
    => Head(c2a).row = rfallback

(* The caller never leaves out of a burst a frame the answerer still lacks  *)
(* (ecm_apply_ppr, and ecm_send kept across a CTC), and the answerer never  *)
(* keeps a frame of another block than the one being sent.                  *)
BurstCoversMissing ==
  cst = "C_SEND_ECM" /\ ast = "A_RECV_ECM" =>
    \A i \in 0..(FramesIn(cur_page, ecm_block) - 1) :
      IF ecm_data[i] = NoFrame THEN i \in ecm_send
      ELSE ecm_data[i] = <<cur_page, ecm_block, i>>

(* A block is re-acknowledged (A_REACK) only when the first MCF was missed: *)
(* the comment in ecm_process_pps says a PPS for the acknowledged block     *)
(* "means the sender missed our MCF".                                       *)
RepeatMeansMissed ==
  [][ast' = "A_REACK" /\ ast # "A_REACK" =>
       /\ cst \in {"C_SEND_PPS", "C_WAIT_PPS_RESP"}
       /\ <<cur_page % OCTET, ecm_block % OCTET>> = acked
       /\ \A i \in 1..Len(a2c) : a2c[i].m # "MCF"]_vars

(* ecm_rx_listen's timer "bounds the block": the answerer ends every call,  *)
(* however the line dies.                                                   *)
AnswererEnds == <>(ast = "ST_DONE")

(* Over the audio modems both ends end every call, however many frames,     *)
(* commands and answers the line loses (nothing re-arms a disarmed timer    *)
(* but the next event, so each wait must be left by one).                   *)
CallEnds == link # "T38" => <>(cst = "ST_DONE" /\ ast = "ST_DONE")

(* The pages the ends agree on, as the abstract page transfer. *)
Transfer == INSTANCE PageTransfer WITH
  Pages     <- [p \in 1..Len(Doc) |-> PageData(p - 1)],
  written   <- pages,
  confirmed <- pages_tx

DeliversPages == Transfer!PTSpec
=============================================================================
