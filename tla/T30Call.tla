------------------------------- MODULE T30Call -------------------------------
(***************************************************************************)
(* A classic Group 3 call over the audio modems as nf_t30.c runs it: CED,  *)
(* DIS or DTC, DCS and the training check (phase B), the pages without     *)
(* error correction (phase C), MPS or EOP with MCF or RTN (phase D), DCN.  *)
(* The caller sends the document, or polls the answerer for it.            *)
(*                                                                         *)
(* A message enters a queue when its sender's modem reports                *)
(* SEND_STEP_COMPLETE and is taken out when the other engine's on_hdlc     *)
(* runs, or on_status for the end of a fast carrier.  A carrier on which   *)
(* the fast modem fails to train is a lost message.                        *)
(***************************************************************************)
EXTENDS FaxLadder, Sequences

CONSTANTS
  PAGES,          \* pages of the document
  Allowed,        \* NF_T30_MODEMS of each party
  Setups,         \* the calls to consider, among CallSetups
  Losses,         \* the sets of messages a line may lose
  Timings,        \* TRUE in it: timers may race answers; FALSE: they may not
  POST_RETRIES,   \* repeats of MPS or EOP (3)
  DIS_RETRIES,    \* repeats of DIS (10)
  RTN_LIMIT       \* times a page is sent again after RTN (2)

Parties == {"caller", "answerer"}
Peer(p) == IF p = "caller" THEN "answerer" ELSE "caller"

(* poll: the caller was told to poll (poll_receive); doc: the answerer holds *)
(* a document for polling (poll_serve); kind: the receiver can take the      *)
(* document's payload kind.                                                  *)
CallSetups == [poll : BOOLEAN, doc : BOOLEAN, kind : BOOLEAN]

IdFrames    == {"CSI", "CIG", "TSI"}
Carriers    == {"TCF", "PAGE"}
PostKinds   == {"MPS", "EOP"}
MsgKinds    == IdFrames \cup Carriers \cup PostKinds
               \cup {"DIS", "DTC", "DCS", "CFR", "FTT", "MCF", "RTN", "DCN"}

ASSUME CallAssumption ==
  /\ PAGES \in Nat \ {0}
  /\ Allowed \in [Parties -> (SUBSET Modems) \ {{}}]
  /\ Setups \subseteq CallSetups
  /\ Losses \subseteq SUBSET MsgKinds
  /\ Timings \subseteq BOOLEAN
  /\ POST_RETRIES \in Nat /\ DIS_RETRIES \in Nat /\ RTN_LIMIT \in Nat

VARIABLES
  setup, lossy, racing,     \* the call, the line and its timing, fixed
  st, timer, result,        \* each party: substate, timeout in ms or 0, result
  fallback,                 \* sender: ladder row
  cur_page,                 \* sender: page being sent
  rtn_count, post_retries,  \* sender: rejections of the page, repeats of MPS/EOP
  pages_tx,                 \* sender: pages counted as sent
  dis_retries,              \* answerer: repeats of DIS
  rfallback,                \* receiver: ladder row
  fast,                     \* receiver: the fast modem is listening
  rx_page_bad,              \* receiver: the last page failed copy quality
  last_post_fcf,            \* receiver: the post-message last answered
  pages,                    \* receiver: pages written to the file
  to                        \* the line: the queue of messages to each party

fixed        == <<setup, lossy, racing>>
engineVars   == <<st, timer, result>>
senderVars   == <<fallback, cur_page, rtn_count, post_retries, pages_tx>>
receiverVars == <<rfallback, fast, rx_page_bad, last_post_fcf, pages>>
vars         == <<fixed, engineVars, senderVars, dis_retries, receiverVars, to>>

(* Who holds the document. *)
Sender   == IF setup.poll THEN "answerer" ELSE "caller"
Receiver == Peer(Sender)

SenderSending   == {"C_SEND_DCS", "C_DCS_PAUSE", "C_SEND_TCF", "C_SEND_IMAGE",
                    "C_SEND_POST", "C_SEND_DCN"}
SenderWaiting   == {"C_WAIT_CFR", "C_WAIT_MCF"}
ReceiverSending == {"A_SEND_CFR", "A_SEND_FTT", "A_SEND_MCF", "A_SEND_RTN", "A_REACK"}
ReceiverWaiting == {"A_RECV_TCF", "A_RECV_IMAGE", "A_WAIT_POST", "A_WAIT_DCN"}
Opening         == {"A_SEND_CED", "A_SEND_DIS", "A_WAIT_DCS", "C_WAIT_DIS", "C_SEND_DTC"}
Sending         == SenderSending \cup ReceiverSending
                   \cup {"A_SEND_CED", "A_SEND_DIS", "C_SEND_DTC"}
Substates       == Sending \cup SenderWaiting \cup ReceiverWaiting \cup Opening
                   \cup {"ST_DONE"}
CallResults     == {"NONE", "OK", "INCOMPAT", "GENERAL", "TIMEOUT"}

-----------------------------------------------------------------------------
(* build_dis: the modem bits; V.17 is advertised with V.29 and V.27ter.     *)
DisBits(allowed) ==
  IF "V17" \in allowed THEN {6, 4, 3}
  ELSE (IF "V29" \in allowed THEN {3} ELSE {})
       \cup (IF "V27TER" \in allowed THEN {4} ELSE {})

(* What such a DIS offers, by the names T.30 gives the combinations. *)
Advertised(bits) ==
  CASE bits = {6, 4, 3} -> Modems
    [] bits = {4, 3}    -> {"V29", "V27TER"}
    [] bits = {3}       -> {"V29"}
    [] OTHER            -> {"V27TER"}

(* parse_dis_pick_fallback *)
PickFallback(bits) ==
  CASE bits = {6, 4, 3}        -> 0
    [] bits \in {{4, 3}, {3}}  -> 3
    [] bits = {4}              -> 6
    [] bits = {}               -> 7
    [] OTHER                   -> NoFb

(* parse_dcs: an unknown speed is taken for 2400. *)
ParseDcs(bits) == IF FbFromDcs(bits) = NoFb THEN 7 ELSE FbFromDcs(bits)

PostMessage == IF cur_page + 1 < PAGES THEN "MPS" ELSE "EOP"

-----------------------------------------------------------------------------
(* The line: what is sent arrives at the end of the queue, or is lost.      *)
Arrivals(q, msg) == {Append(q, msg)} \cup (IF msg.m \in lossy THEN {q} ELSE {})

Puts(p, msg) ==
  \E q \in Arrivals(to[Peer(p)], msg) : to' = [to EXCEPT ![Peer(p)] = q]

(* send_ctrl_burst: a station identifier, then the frame, in one carrier. *)
PutsBurst(p, id, msg) ==
  \E q \in Arrivals(to[Peer(p)], [m |-> id]) : \E r \in Arrivals(q, msg) :
    to' = [to EXCEPT ![Peer(p)] = r]

Hears(p, kinds) == to[p] # <<>> /\ Head(to[p]).m \in kinds
Takes(p) == to' = [to EXCEPT ![p] = Tail(@)]

Go(p, substate, ms) ==
  /\ st' = [st EXCEPT ![p] = substate]
  /\ timer' = [timer EXCEPT ![p] = ms]
  /\ UNCHANGED result

(* finish(): a DCN queued just before it is discarded with the transmitter. *)
Finish(p, res) ==
  /\ st' = [st EXCEPT ![p] = "ST_DONE"]
  /\ timer' = [timer EXCEPT ![p] = 0]
  /\ result' = [result EXCEPT ![p] = res]

(* Unless timers race, one expires only when no answer can be on its way:   *)
(* the 3 s between two DIS may end during a training check, and the 35 s    *)
(* after FTT, RTN or DTC outlast the 6 or 7 s of a peer that waits.         *)
MayExpire(p) ==
  /\ timer[p] > 0
  /\ \/ racing
     \/ /\ \A q \in Parties : to[q] = <<>>
        /\ \/ st[Peer(p)] \notin Sending
           \/ timer[p] = 3000 /\ st[Peer(p)] \in {"C_DCS_PAUSE", "C_SEND_TCF"}
        /\ timer[p] = 35000 => timer[Peer(p)] \notin {6000, 7000}

-----------------------------------------------------------------------------
(***************************************************************************)
(* Phase A and B: who is there, and what it can do.                        *)
(***************************************************************************)
(* A_SEND_CED step complete. *)
SendCed ==
  /\ st["answerer"] = "A_SEND_CED"
  /\ Go("answerer", "A_SEND_DIS", 0)
  /\ UNCHANGED <<senderVars, dis_retries, receiverVars, to>>

(* A_SEND_DIS step complete. *)
SendDis ==
  /\ st["answerer"] = "A_SEND_DIS"
  /\ PutsBurst("answerer", "CSI",
               [m |-> "DIS", bits |-> DisBits(Allowed["answerer"]), doc |-> setup.doc])
  /\ Go("answerer", "A_WAIT_DCS", 3000)
  /\ UNCHANGED <<senderVars, dis_retries, receiverVars>>

(* C_SEND_DTC step complete. *)
SendDtc ==
  /\ st["caller"] = "C_SEND_DTC"
  /\ PutsBurst("caller", "CIG", [m |-> "DTC", bits |-> DisBits(Allowed["caller"])])
  /\ Go("caller", "A_WAIT_DCS", 35000)
  /\ UNCHANGED <<senderVars, dis_retries, receiverVars>>

(* The ladder row to start with, or NoFb when no modem is common. *)
StartFallback(p, bits) == NextAllowedFb(PickFallback(bits), Allowed[p])

(* recv_caps_begin_tx, in a caller that hears DIS and in an answerer that is *)
(* polled: start with the row the far end's modems and ours allow.           *)
HearsCaps(p) ==
  \/ p = "caller" /\ st[p] = "C_WAIT_DIS" /\ ~setup.poll /\ Hears(p, {"DIS"})
  \/ p = "answerer" /\ st[p] = "A_WAIT_DCS" /\ setup.doc /\ Hears(p, {"DTC"})

HearCaps(p) ==
  LET row == StartFallback(p, Head(to[p]).bits) IN
  /\ HearsCaps(p) /\ Takes(p)
  /\ row # NoFb /\ setup.kind
  /\ fallback' = row
  /\ Go(p, "C_SEND_DCS", 0)
  /\ UNCHANGED <<cur_page, rtn_count, post_retries, pages_tx, dis_retries, receiverVars>>

(* abort_dcn: no common modem, or a payload kind the far end cannot take. *)
HearCapsAbort(p) ==
  LET row == StartFallback(p, Head(to[p]).bits) IN
  /\ HearsCaps(p) /\ Takes(p)
  /\ row = NoFb \/ ~setup.kind
  /\ fallback' = IF row = NoFb THEN fallback ELSE row
  /\ Finish(p, "INCOMPAT")
  /\ UNCHANGED <<cur_page, rtn_count, post_retries, pages_tx, dis_retries, receiverVars>>

(* A polling caller hears DIS: ask for the document, if there is one. *)
HearDisPoll ==
  LET p == "caller" IN
  /\ st[p] = "C_WAIT_DIS" /\ setup.poll /\ Hears(p, {"DIS"}) /\ Takes(p)
  /\ Head(to[p]).doc
  /\ Go(p, "C_SEND_DTC", 0)
  /\ UNCHANGED <<senderVars, dis_retries, receiverVars>>

HearDisNoDoc ==
  LET p == "caller" IN
  /\ st[p] = "C_WAIT_DIS" /\ setup.poll /\ Hears(p, {"DIS"}) /\ Takes(p)
  /\ ~Head(to[p]).doc
  /\ Finish(p, "INCOMPAT")
  /\ UNCHANGED <<senderVars, dis_retries, receiverVars>>

-----------------------------------------------------------------------------
(***************************************************************************)
(* The sender.                                                             *)
(***************************************************************************)
(* C_SEND_DCS step complete. *)
SendDcs(p) ==
  /\ st[p] = "C_SEND_DCS"
  /\ PutsBurst(p, "TSI", [m |-> "DCS", bits |-> FB[fallback].dcs])
  /\ Go(p, "C_DCS_PAUSE", 0)
  /\ UNCHANGED <<senderVars, dis_retries, receiverVars>>

(* C_DCS_PAUSE step complete. *)
PauseAfterDcs(p) ==
  /\ st[p] = "C_DCS_PAUSE"
  /\ Go(p, "C_SEND_TCF", 0)
  /\ UNCHANGED <<senderVars, dis_retries, receiverVars, to>>

(* C_SEND_TCF step complete: on_get_bit has streamed 1.5 s of zeros. *)
SendTcf(p) ==
  /\ st[p] = "C_SEND_TCF"
  /\ Puts(p, [m |-> "TCF", row |-> fallback])
  /\ Go(p, "C_WAIT_CFR", 7000)
  /\ UNCHANGED <<senderVars, dis_retries, receiverVars>>

HearCfr(p) ==
  /\ st[p] = "C_WAIT_CFR" /\ Hears(p, {"CFR"}) /\ Takes(p)
  /\ Go(p, "C_SEND_IMAGE", 0)
  /\ UNCHANGED <<senderVars, dis_retries, receiverVars>>

(* FTT: try the next row, or give up below the last. *)
HearFtt(p) ==
  LET row == NextAllowedFb(fallback + 1, Allowed[p]) IN
  /\ st[p] = "C_WAIT_CFR" /\ Hears(p, {"FTT"}) /\ Takes(p)
  /\ row # NoFb
  /\ fallback' = row
  /\ Go(p, "C_SEND_DCS", 0)
  /\ UNCHANGED <<cur_page, rtn_count, post_retries, pages_tx, dis_retries, receiverVars>>

HearFttGiveUp(p) ==
  /\ st[p] = "C_WAIT_CFR" /\ Hears(p, {"FTT"}) /\ Takes(p)
  /\ NextAllowedFb(fallback + 1, Allowed[p]) = NoFb
  /\ Finish(p, "GENERAL")
  /\ UNCHANGED <<senderVars, dis_retries, receiverVars>>

(* C_SEND_IMAGE step complete: on_get_bit has streamed the page. *)
SendImage(p) ==
  /\ st[p] = "C_SEND_IMAGE"
  /\ Puts(p, [m |-> "PAGE", row |-> fallback, page |-> cur_page])
  /\ post_retries' = 0
  /\ Go(p, "C_SEND_POST", 0)
  /\ UNCHANGED <<fallback, cur_page, rtn_count, pages_tx, dis_retries, receiverVars>>

(* C_SEND_POST step complete. *)
SendPost(p) ==
  /\ st[p] = "C_SEND_POST"
  /\ Puts(p, [m |-> PostMessage])
  /\ Go(p, "C_WAIT_MCF", 6000)
  /\ UNCHANGED <<senderVars, dis_retries, receiverVars>>

(* MCF: the next page, or DCN after the last. *)
HearMcfNext(p) ==
  /\ st[p] = "C_WAIT_MCF" /\ Hears(p, {"MCF"}) /\ Takes(p)
  /\ PostMessage = "MPS"
  /\ cur_page' = cur_page + 1 /\ rtn_count' = 0
  /\ Go(p, "C_SEND_IMAGE", 0)
  /\ UNCHANGED <<fallback, post_retries, pages_tx, dis_retries, receiverVars>>

HearMcfLast(p) ==
  /\ st[p] = "C_WAIT_MCF" /\ Hears(p, {"MCF"}) /\ Takes(p)
  /\ PostMessage = "EOP"
  /\ pages_tx' = cur_page + 1 /\ rtn_count' = 0
  /\ Go(p, "C_SEND_DCN", 0)
  /\ UNCHANGED <<fallback, cur_page, post_retries, dis_retries, receiverVars>>

(* RTN: train again at the next row and send the page again, up to the limit. *)
HearRtn(p) ==
  LET row == NextAllowedFb(fallback + 1, Allowed[p]) IN
  /\ st[p] = "C_WAIT_MCF" /\ Hears(p, {"RTN"}) /\ Takes(p)
  /\ rtn_count < RTN_LIMIT /\ row # NoFb
  /\ rtn_count' = rtn_count + 1 /\ fallback' = row
  /\ Go(p, "C_SEND_DCS", 0)
  /\ UNCHANGED <<cur_page, post_retries, pages_tx, dis_retries, receiverVars>>

(* Deviation: the failed call is closed like a finished one. *)
Dev_HearRtnGiveUp(p) ==
  /\ st[p] = "C_WAIT_MCF" /\ Hears(p, {"RTN"}) /\ Takes(p)
  /\ rtn_count = RTN_LIMIT \/ NextAllowedFb(fallback + 1, Allowed[p]) = NoFb
  /\ rtn_count' = rtn_count + 1
  /\ Go(p, "C_SEND_DCN", 0)
  /\ UNCHANGED <<fallback, cur_page, post_retries, pages_tx, dis_retries, receiverVars>>

HearRtnGiveUp(p) ==
  /\ st[p] = "C_WAIT_MCF" /\ Hears(p, {"RTN"}) /\ Takes(p)
  /\ rtn_count = RTN_LIMIT \/ NextAllowedFb(fallback + 1, Allowed[p]) = NoFb
  /\ rtn_count' = rtn_count + 1
  /\ Finish(p, "GENERAL")
  /\ UNCHANGED <<fallback, cur_page, post_retries, pages_tx, dis_retries, receiverVars>>

(* C_SEND_DCN step complete. *)
SendDcn(p) ==
  /\ st[p] = "C_SEND_DCN"
  /\ Puts(p, [m |-> "DCN"])
  /\ Finish(p, "OK")
  /\ UNCHANGED <<senderVars, dis_retries, receiverVars>>

-----------------------------------------------------------------------------
(***************************************************************************)
(* The receiver.                                                           *)
(***************************************************************************)
(* Deviation: the row is kept when a page is to be sent again. *)
Dev_HearDcs(p) ==
  /\ st[p] \in {"A_WAIT_DCS", "A_RECV_TCF"} /\ Hears(p, {"DCS"}) /\ Takes(p)
  /\ rfallback' = IF rx_page_bad THEN rfallback ELSE ParseDcs(Head(to[p]).bits)
  /\ fast' = TRUE
  /\ Go(p, "A_RECV_TCF", 7000)
  /\ UNCHANGED <<senderVars, dis_retries, rx_page_bad, last_post_fcf, pages>>

(* DCS, also one repeated while the training check is awaited: adopt the   *)
(* announced row and listen for the check.                                 *)
HearDcs(p) ==
  /\ st[p] \in {"A_WAIT_DCS", "A_RECV_TCF"} /\ Hears(p, {"DCS"}) /\ Takes(p)
  /\ rfallback' = ParseDcs(Head(to[p]).bits)
  /\ fast' = TRUE
  /\ Go(p, "A_RECV_TCF", 7000)
  /\ UNCHANGED <<senderVars, dis_retries, rx_page_bad, last_post_fcf, pages>>

(* The fast modem decodes the carrier at the head of the queue. *)
HearsCarrier(p) ==
  Hears(p, Carriers) /\ fast /\ Head(to[p]).row = rfallback

(* The carrier ends: eval_tcf judges the zeros it carried. *)
HearTcf(p) ==
  /\ st[p] = "A_RECV_TCF" /\ HearsCarrier(p) /\ Takes(p)
  /\ fast' = FALSE
  /\ \/ Hears(p, {"TCF"}) /\ Go(p, "A_SEND_CFR", 0)
     \/ Go(p, "A_SEND_FTT", 0)
  /\ UNCHANGED <<senderVars, dis_retries, rfallback, rx_page_bad, last_post_fcf, pages>>

(* Deviation: the page is written before its quality is looked at. *)
Dev_finish_rx_page(bad, msg) ==
  /\ rx_page_bad' = bad
  /\ pages' = Append(pages, msg.page)

(* finish_rx_page: only a page of good copy quality is written. *)
finish_rx_page(bad, msg) ==
  /\ rx_page_bad' = bad
  /\ pages' = IF bad THEN pages ELSE Append(pages, msg.page)

(* The page's carrier ends; how many of its lines are bad is up to the line. *)
HearPage(p) ==
  /\ st[p] = "A_RECV_IMAGE" /\ HearsCarrier(p) /\ Takes(p)
  /\ \E bad \in BOOLEAN :
       /\ bad \/ Hears(p, {"PAGE"})
       /\ finish_rx_page(bad, Head(to[p]))
  /\ fast' = FALSE
  /\ Go(p, "A_WAIT_POST", 7000)
  /\ UNCHANGED <<senderVars, dis_retries, rfallback, last_post_fcf>>

(* MPS or EOP: accept the page or reject it. *)
HearPost(p) ==
  /\ st[p] = "A_WAIT_POST" /\ Hears(p, PostKinds) /\ Takes(p)
  /\ last_post_fcf' = Head(to[p]).m
  /\ Go(p, IF rx_page_bad THEN "A_SEND_RTN" ELSE "A_SEND_MCF", 0)
  /\ UNCHANGED <<senderVars, dis_retries, rfallback, fast, rx_page_bad, pages>>

(* Deviation: after RTN too, a repeated post-message is answered by MCF. *)
Dev_HearPostAgain(p) ==
  /\ st[p] \in {"A_WAIT_DCN", "A_WAIT_DCS"} /\ Hears(p, PostKinds) /\ Takes(p)
  /\ Go(p, "A_REACK", 0)
  /\ UNCHANGED <<senderVars, dis_retries, receiverVars>>

(* EOP after the last page was accepted: the MCF was lost, send it again. *)
HearPostAgain(p) ==
  /\ st[p] = "A_WAIT_DCN" /\ Hears(p, PostKinds) /\ Takes(p)
  /\ Go(p, "A_REACK", 0)
  /\ UNCHANGED <<senderVars, dis_retries, receiverVars>>

HearDcn(p) ==
  /\ st[p] \in {"A_WAIT_DCS", "A_RECV_TCF", "A_WAIT_POST", "A_WAIT_DCN"}
  /\ Hears(p, {"DCN"}) /\ Takes(p)
  /\ Finish(p, "OK")
  /\ UNCHANGED <<senderVars, dis_retries, receiverVars>>

(* A_SEND_CFR step complete: listen for the page. *)
SendCfr(p) ==
  /\ st[p] = "A_SEND_CFR"
  /\ Puts(p, [m |-> "CFR"])
  /\ fast' = TRUE
  /\ Go(p, "A_RECV_IMAGE", 0)
  /\ UNCHANGED <<senderVars, dis_retries, rfallback, rx_page_bad, last_post_fcf, pages>>

(* Deviation: the wait for the next DCS has no timer. *)
Dev_SendFttOrRtn(p) ==
  /\ st[p] \in {"A_SEND_FTT", "A_SEND_RTN"}
  /\ Puts(p, [m |-> IF st[p] = "A_SEND_FTT" THEN "FTT" ELSE "RTN"])
  /\ Go(p, "A_WAIT_DCS", 0)
  /\ UNCHANGED <<senderVars, dis_retries, receiverVars>>

(* A_SEND_FTT and A_SEND_RTN step complete. *)
SendFttOrRtn(p) ==
  /\ st[p] \in {"A_SEND_FTT", "A_SEND_RTN"}
  /\ Puts(p, [m |-> IF st[p] = "A_SEND_FTT" THEN "FTT" ELSE "RTN"])
  /\ Go(p, "A_WAIT_DCS", 35000)
  /\ UNCHANGED <<senderVars, dis_retries, receiverVars>>

(* A_SEND_MCF step complete: the next page, or the wait for DCN. *)
SendMcfNext(p) ==
  /\ st[p] = "A_SEND_MCF" /\ last_post_fcf = "MPS"
  /\ Puts(p, [m |-> "MCF"])
  /\ fast' = TRUE
  /\ Go(p, "A_RECV_IMAGE", 0)
  /\ UNCHANGED <<senderVars, dis_retries, rfallback, rx_page_bad, last_post_fcf, pages>>

SendMcfLast(p) ==
  /\ \/ st[p] = "A_SEND_MCF" /\ last_post_fcf = "EOP"
     \/ st[p] = "A_REACK"
  /\ Puts(p, [m |-> "MCF"])
  /\ Go(p, "A_WAIT_DCN", 7000)
  /\ UNCHANGED <<senderVars, dis_retries, receiverVars>>

-----------------------------------------------------------------------------
(***************************************************************************)
(* Frames without effect, and timers.                                      *)
(***************************************************************************)
(* The frames an engine acts on in each substate. *)
Accepts(p) ==
  CASE st[p] = "C_WAIT_DIS"  -> {"DIS"}
    [] st[p] = "A_WAIT_DCS"  -> {"DCS", "DCN"} \cup (IF p = "answerer" /\ setup.doc
                                                     THEN {"DTC"} ELSE {})
    [] st[p] = "A_RECV_TCF"  -> {"DCS", "DCN"}
    [] st[p] = "C_WAIT_CFR"  -> {"CFR", "FTT"}
    [] st[p] = "C_WAIT_MCF"  -> {"MCF", "RTN"}
    [] st[p] = "A_WAIT_POST" -> PostKinds \cup {"DCN"}
    [] st[p] = "A_WAIT_DCN"  -> PostKinds \cup {"DCN"}
    [] OTHER                 -> {}

(* Any other V.21 frame: on_hdlc disarms the timer, and nf_fax.c leaves the *)
(* fast modem for V.21.                                                     *)
IgnoreFrame(p) ==
  /\ Hears(p, MsgKinds \ (Carriers \cup Accepts(p))) /\ Takes(p)
  /\ Go(p, st[p], 0)
  /\ fast' = (fast /\ p # Receiver)
  /\ UNCHANGED <<senderVars, dis_retries, rfallback, rx_page_bad, last_post_fcf, pages>>

(* A fast carrier nobody is tuned to. *)
IgnoreCarrier(p) ==
  /\ Hears(p, Carriers) /\ Takes(p)
  /\ ~(st[p] \in {"A_RECV_TCF", "A_RECV_IMAGE"} /\ HearsCarrier(p))
  /\ UNCHANGED <<engineVars, senderVars, dis_retries, receiverVars>>

(* on_timer: the training check never came, or could not be decoded. *)
ExpireTcf(p) ==
  /\ MayExpire(p) /\ st[p] = "A_RECV_TCF"
  /\ Go(p, "A_SEND_FTT", 0)
  /\ fast' = FALSE
  /\ UNCHANGED <<senderVars, dis_retries, rfallback, rx_page_bad, last_post_fcf, pages, to>>

(* on_timer: repeat MPS or EOP. *)
ExpirePost(p) ==
  /\ MayExpire(p) /\ st[p] = "C_WAIT_MCF" /\ post_retries < POST_RETRIES
  /\ post_retries' = post_retries + 1
  /\ Go(p, "C_SEND_POST", 0)
  /\ UNCHANGED <<fallback, cur_page, rtn_count, pages_tx, dis_retries, receiverVars, to>>

(* Deviation: DIS is repeated without limit. *)
Dev_MayRepeatDis(p) == st[p] = "A_WAIT_DCS" /\ ~(p = "caller" /\ setup.poll)

MayRepeatDis(p) ==
  /\ st[p] = "A_WAIT_DCS" /\ ~(p = "caller" /\ setup.poll)
  /\ dis_retries < DIS_RETRIES

(* on_timer: repeat DIS, unless this is a poll waiting for the DCS. *)
ExpireDis(p) ==
  /\ MayExpire(p) /\ MayRepeatDis(p)
  /\ dis_retries' = dis_retries + 1
  /\ Go(p, "A_SEND_DIS", 0)
  /\ UNCHANGED <<senderVars, receiverVars, to>>

(* on_timer: nothing left to repeat. *)
ExpireFinish(p) ==
  /\ MayExpire(p) /\ st[p] # "A_RECV_TCF" /\ ~MayRepeatDis(p)
  /\ ~(st[p] = "C_WAIT_MCF" /\ post_retries < POST_RETRIES)
  /\ Finish(p, "TIMEOUT")
  /\ UNCHANGED <<senderVars, dis_retries, receiverVars, to>>

-----------------------------------------------------------------------------
Init ==
  /\ setup \in Setups /\ lossy \in Losses /\ racing \in Timings
  /\ st = [p \in Parties |-> IF p = "caller" THEN "C_WAIT_DIS" ELSE "A_SEND_CED"]
  /\ timer = [p \in Parties |-> IF p = "caller" THEN 35000 ELSE 0]
  /\ result = [p \in Parties |-> "NONE"]
  /\ fallback = 0 /\ cur_page = 0 /\ rtn_count = 0 /\ post_retries = 0 /\ pages_tx = 0
  /\ dis_retries = 0
  /\ rfallback = 0 /\ fast = FALSE /\ rx_page_bad = FALSE /\ last_post_fcf = "EOP"
  /\ pages = <<>>
  /\ to = [p \in Parties |-> <<>>]

(* The modem of p finishes what it transmits. *)
StepComplete(p) ==
  /\ \/ SendDcs(p) \/ PauseAfterDcs(p) \/ SendTcf(p) \/ SendImage(p) \/ SendPost(p)
     \/ SendDcn(p) \/ SendCfr(p) \/ SendFttOrRtn(p) \/ SendMcfNext(p) \/ SendMcfLast(p)
     \/ p = "answerer" /\ (SendCed \/ SendDis)
     \/ p = "caller" /\ SendDtc
  /\ UNCHANGED fixed

(* The engine of p takes the next message. *)
Hear(p) ==
  /\ \/ HearCaps(p) \/ HearCapsAbort(p)
     \/ p = "caller" /\ (HearDisPoll \/ HearDisNoDoc)
     \/ HearCfr(p) \/ HearFtt(p) \/ HearFttGiveUp(p)
     \/ HearMcfNext(p) \/ HearMcfLast(p) \/ HearRtn(p) \/ HearRtnGiveUp(p)
     \/ HearDcs(p) \/ HearTcf(p) \/ HearPage(p) \/ HearPost(p) \/ HearPostAgain(p)
     \/ HearDcn(p) \/ IgnoreFrame(p) \/ IgnoreCarrier(p)
  /\ UNCHANGED fixed

(* The timer of p runs out. *)
Expire(p) ==
  /\ ExpireTcf(p) \/ ExpirePost(p) \/ ExpireDis(p) \/ ExpireFinish(p)
  /\ UNCHANGED fixed

Next == \E p \in Parties : StepComplete(p) \/ Hear(p) \/ Expire(p)

Spec == Init /\ [][Next]_vars

(* The sample clock drives each modem, each receiver and each timer. *)
Fairness == \A p \in Parties : WF_vars(StepComplete(p)) /\ WF_vars(Hear(p)) /\ WF_vars(Expire(p))

FairSpec == Spec /\ Fairness

-----------------------------------------------------------------------------
Messages ==
  [m : IdFrames \cup PostKinds \cup {"CFR", "FTT", "MCF", "RTN", "DCN"}]
  \cup [m : {"DIS"}, bits : SUBSET {3, 4, 6}, doc : BOOLEAN]
  \cup [m : {"DTC", "DCS"}, bits : SUBSET {3, 4, 6}]
  \cup [m : {"TCF"}, row : FbIndex]
  \cup [m : {"PAGE"}, row : FbIndex, page : 0..(PAGES - 1)]

(* Type correctness, with the limits of the repeats: DIS, the post-message, *)
(* and a rejected page are not sent more often than the code's limits.      *)
TypeOK ==
  /\ setup \in CallSetups /\ lossy \in SUBSET MsgKinds /\ racing \in BOOLEAN
  /\ st \in [Parties -> Substates]
  /\ timer \in [Parties -> {0, 3000, 6000, 7000, 35000}]
  /\ result \in [Parties -> CallResults]
  /\ fallback \in FbIndex /\ rfallback \in FbIndex
  /\ cur_page \in 0..(PAGES - 1) /\ pages_tx \in {0, PAGES}
  /\ rtn_count \in 0..(RTN_LIMIT + 1) /\ post_retries \in 0..POST_RETRIES
  /\ dis_retries \in 0..DIS_RETRIES
  /\ fast \in BOOLEAN /\ rx_page_bad \in BOOLEAN /\ last_post_fcf \in PostKinds
  /\ pages \in Seq(0..(PAGES - 1))
  /\ to \in [Parties -> Seq(Messages)]

(* The pages the ends agree on, as the abstract page transfer: the receiver  *)
(* writes the pages in order, each once, a rejected one not at all; the      *)
(* sender goes on to a page only when the one before it has been written     *)
(* (MCF names no page, and pages are sent again after RTN).                  *)
confirmed == IF pages_tx > 0 THEN pages_tx ELSE cur_page

Transfer == INSTANCE PageTransfer WITH
  Pages     <- [p \in 1..PAGES |-> p - 1],
  written   <- pages,
  confirmed <- confirmed

DeliversPages == Transfer!PTSpec

(* The ends never disagree about success: the receiver, which reports OK on  *)
(* any DCN, does so only if the sender does, and the sender only when the    *)
(* whole document is in the receiver's file.                                 *)
SuccessAgreed ==
  /\ result[Receiver] = "OK" => result[Sender] = "OK"
  /\ result[Sender] = "OK" => pages = [p \in 1..PAGES |-> p - 1]

(* A carrier reaches a receiver that listens for it at the rate DCS          *)
(* announced last, and a page is sent at the rate its training check passed. *)
RateAgreed ==
  /\ fast /\ Hears(Receiver, Carriers) => Head(to[Receiver]).row = rfallback
  /\ st[Sender] = "C_SEND_IMAGE" /\ st[Receiver] = "A_RECV_IMAGE" => fallback = rfallback

(* Both ends end every call over a line that loses nothing worse than the   *)
(* messages in Tolerated (and damages any page or training check): nothing  *)
(* re-arms a disarmed timer but the next event.                             *)
Tolerated == {"CSI", "CIG", "TSI", "TCF", "FTT", "MPS", "EOP", "DCN"}

CallEnds ==
  ~racing /\ lossy \subseteq Tolerated => <>(\A p \in Parties : st[p] = "ST_DONE")

(* docs/MODEM_MODES.md has the ladder "restricted to the modems both ends     *)
(* allow": DCS announces only a modem that the far end's DIS advertised.     *)
DcsWithinCaps ==
  st[Sender] = "C_SEND_DCS" =>
    FB[fallback].modem \in Advertised(DisBits(Allowed[Receiver]))

(* The comment before reack says that "the receiver answers a repeated      *)
(* command": an MPS or EOP sent again because its MCF or RTN was missed is   *)
(* answered again.                                                           *)
RepeatAnswered ==
  [][Hears(Receiver, PostKinds) /\ to'[Receiver] = Tail(to[Receiver])
       /\ st[Sender] = "C_WAIT_MCF" /\ post_retries > 0
     => st'[Receiver] \in ReceiverSending]_vars

-----------------------------------------------------------------------------
(***************************************************************************)
(* Why DeliversPages and SuccessAgreed hold, however the timers race: the   *)
(* turn to act on a training check or on a page is in one place only.       *)
(***************************************************************************)
Has(q, kinds) == \E i \in 1..Len(q) : q[i].m \in kinds
One(q, kinds) ==
  \A i, j \in 1..Len(q) : q[i].m \in kinds /\ q[j].m \in kinds => i = j
PagesAre(q, page)  == \A i \in 1..Len(q) : q[i].m = "PAGE" => q[i].page = page
DcsAre(q, row)     == \A i \in 1..Len(q) : q[i].m = "DCS" => q[i].bits = FB[row].dcs
RowsUpTo(q, row)   == \A i \in 1..Len(q) : q[i].m = "TCF" => q[i].row <= row
RowsBelow(q, row)  == \A i \in 1..Len(q) : q[i].m = "TCF" => q[i].row < row
OneAtRow(q, row) ==
  \A i, j \in 1..Len(q) :
    q[i].m = "TCF" /\ q[j].m = "TCF" /\ q[i].row = row /\ q[j].row = row => i = j

toR  == to[Receiver]
toS  == to[Sender]
sst  == st[Sender]
rst  == st[Receiver]
sres == result[Sender]
rres == result[Receiver]

Answers     == {"CFR", "FTT", "MCF", "RTN"}
Begins      == {"DCS", "PAGE"}                     \* hand the turn to the receiver
Training    == {"C_SEND_DCS", "C_DCS_PAUSE", "C_SEND_TCF", "C_WAIT_CFR"}
Posting     == {"C_SEND_POST", "C_WAIT_MCF"}
Checking    == {"A_RECV_TCF", "A_SEND_FTT", "A_SEND_CFR"}
Judging     == {"A_WAIT_POST", "A_SEND_MCF", "A_SEND_RTN"}
Ending      == {"A_WAIT_DCN", "A_REACK"}

(* Who is in which substate and sends what. *)
RolesInv ==
  /\ sst \in SenderSending \cup SenderWaiting \cup (Opening \ {"C_SEND_DTC"}) \cup {"ST_DONE"}
  /\ rst \in ReceiverSending \cup ReceiverWaiting \cup Opening \cup {"ST_DONE"}
  /\ ~Has(toS, MsgKinds \ (Answers \cup {"CSI", "DIS", "CIG", "DTC"}))
  /\ ~Has(toR, Answers \cup {"CIG", "DTC"})
  /\ sst # "ST_DONE" => rtn_count <= RTN_LIMIT

(* A timer runs only in a substate that waits. *)
TimerInv ==
  \A p \in Parties :
    /\ result[p] # "NONE" => st[p] = "ST_DONE"
    /\ st[p] \in Sending \cup {"ST_DONE"} => timer[p] = 0

(* The pages written are the first ones, and the page on the line is next.  *)
InOrder == pages = [i \in 1..Len(pages) |-> i - 1]

PagesInv ==
  /\ InOrder
  /\ Len(pages) \in {cur_page, cur_page + 1}
  /\ PagesAre(toR, cur_page) /\ One(toR, {"PAGE"})
  /\ Has(toR, {"PAGE"}) => Len(pages) = cur_page /\ sst \in Posting \cup {"ST_DONE"}
  /\ sst \in Opening \cup Training \cup {"C_SEND_IMAGE"} => Len(pages) = cur_page
  /\ sst = "C_SEND_DCN" \/ sres = "OK" => Len(pages) = PAGES /\ ~Has(toR, {"PAGE"})
  /\ pages_tx = (IF sst = "C_SEND_DCN" \/ sres = "OK" THEN PAGES ELSE 0)

(* One turn: on its way to the receiver, taken up by it, or answered.       *)
TurnInv ==
  /\ Has(toR, Begins) => rst \notin Checking \cup Judging \cup Ending /\ ~Has(toS, Answers)
  /\ rst \in Checking \cup Judging => ~Has(toS, Answers)
  /\ One(toR, Begins)
  /\ One(toS, Answers) \/ Len(pages) = PAGES
  /\ sst \in Opening \cup {"C_SEND_DCS", "C_SEND_IMAGE"} =>
       ~Has(toR, Begins) /\ rst \notin Checking \cup Judging /\ ~Has(toS, Answers)

(* What the answer on its way will say. *)
AnswerInv ==
  /\ sst \in Opening \cup Training \cup {"C_SEND_IMAGE"} =>
       ~Has(toS, {"MCF", "RTN"}) /\ rst \notin Judging \cup Ending
  /\ sst \in Posting \cup {"C_SEND_IMAGE"} =>
       ~Has(toS, {"CFR", "FTT"}) /\ rst \notin Checking /\ ~Has(toR, {"DCS"})
  /\ sst \in Posting =>
       /\ rst = "A_WAIT_POST" => Len(pages) = (IF rx_page_bad THEN cur_page ELSE cur_page + 1)
       /\ rst \in Ending \cup {"A_SEND_MCF"} \/ Has(toS, {"MCF"}) => Len(pages) = cur_page + 1
       /\ rst = "A_SEND_RTN" \/ Has(toS, {"RTN"}) => Len(pages) = cur_page
  /\ (\/ rst \in Ending \/ Has(toR, {"EOP"})
      \/ rst = "A_SEND_MCF" /\ last_post_fcf = "EOP") => cur_page + 1 = PAGES

(* Rows tell one training check from the next. *)
RowInv ==
  /\ RowsUpTo(toR, fallback) /\ OneAtRow(toR, fallback) /\ DcsAre(toR, fallback)
  /\ (\/ sst \in Training \ {"C_WAIT_CFR"}
      \/ rst \in Judging \cup {"A_SEND_CFR", "A_RECV_IMAGE"}) => RowsBelow(toR, fallback)
  /\ rst \in Checking \cup Judging \cup {"A_RECV_IMAGE"} => rfallback = fallback
  /\ sst \in Opening => ~Has(toR, {"TCF"}) /\ rst # "A_RECV_IMAGE"
  /\ sst \in Training \ {"C_WAIT_CFR"} \/ Has(toS, {"FTT", "RTN"}) \/ Has(toR, {"DCS"})
       => rst \notin {"A_SEND_CFR", "A_RECV_IMAGE"}

(* What a receiver that hears DCN may conclude. *)
DcnInv == Has(toR, {"DCN"}) \/ rres = "OK" => sres = "OK"

(* The turn is in one place: a training check or page on its way to the      *)
(* receiver, taken up by it, or answered; and each end's record of the page  *)
(* fits that place.  It is what makes a late or repeated answer harmless.    *)
CallInv ==
  /\ TypeOK /\ TimerInv /\ RolesInv /\ PagesInv /\ DcnInv
  /\ sst # "ST_DONE" => TurnInv /\ AnswerInv /\ RowInv
=============================================================================
