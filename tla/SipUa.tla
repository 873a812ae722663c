-------------------------------- MODULE SipUa --------------------------------
(***************************************************************************)
(* The one-shot SIP program (sip.c, and the SIP part of sip_fax.c): a      *)
(* dialer places a call and offers T.38 in it; an answerer takes one call. *)
(* Once in a call both run the same loop, sip_media_poll_sip beside the    *)
(* media. The network may reorder and lose any datagram: what is lost is   *)
(* what never arrives. Any wait may time out before its answer.            *)
(***************************************************************************)
EXTENDS Integers, FiniteSets

CONSTANTS
  Dialers,      \* the dialing processes
  T38Dialers    \* those run with --t38

ASSUME SipUaAssumption ==
  /\ Dialers # {} /\ T38Dialers \subseteq Dialers
  /\ Dialers \cap {"answerer", "daemon", "gateway", "none"} = {}

Uas == Dialers \cup {"answerer"}

VARIABLES
  net,    \* datagrams on their way
  ua,     \* the one-shot processes
  callee, \* whom the dialers call: "daemon", "answerer" or "gateway"
  callee_t38,   \* it runs with --t38
  copies, \* bound: an unanswered INVITE and its 200 are sent again, once
  byes    \* history: <<call, who, method>>, the BYEs and CANCELs sent; a call is
          \* named by its dialer

setup == <<callee, callee_t38, copies>>   \* these never change

NoCall == "none"

(* A fresh process: st is where it is in its program, cseq the last CSeq used, *)
(* prov a provisional response seen, sends transmissions of what it repeats,   *)
(* auths challenges met, hung the BYE taken, answered a 2xx taken, unusable    *)
(* that it had no audio SDP.                                                   *)
NewUa(state) ==
  [st |-> state, call |-> NoCall, cseq |-> 0, prov |-> FALSE, sends |-> 0,
   auths |-> 0, hung |-> FALSE, answered |-> FALSE, unusable |-> FALSE]

(* A process that has left: nothing else of it is read again. *)
Gone(u) == [NewUa("exit") EXCEPT !.call = ua[u].call, !.hung = ua[u].hung,
                                 !.answered = ua[u].answered, !.unusable = ua[u].unusable]
Exit(u) == ua' = [ua EXCEPT ![u] = Gone(u)]

(* Whether a datagram can still have an effect. The daemon does nothing with  *)
(* an ACK or a response, and the gateway's part of a call ends with a BYE;    *)
(* nobody reads a closed socket; and a dialer in a call with someone who      *)
(* ignores ACKs does nothing with a response.                                 *)
Matters(m) ==
  /\ m.to = "daemon" => m.code = 0
  /\ m.to \in {"daemon", "gateway"} => m.method # "ACK"
  /\ m.to = "gateway" => m.method # "BYE" /\ m.code = 0
  /\ m.to \in Uas => ua[m.to].st # "exit"
  /\ m.to \in Dialers /\ m.code # 0 /\ callee # "answerer" =>
       ua[m.to].st \notin {"audio", "t38", "bye"}

(* Take a datagram, send others. *)
Exchange(used, sent) ==
  net' = {m \in (net \ used) \cup sent : Matters(m)'}
Keep == Exchange({}, {})

Request(method, call, from, to, cseq, sdp, copy) ==
  [to |-> to, from |-> from, call |-> call, method |-> method, code |-> 0,
   cseq |-> cseq, sdp |-> sdp, copy |-> copy]
Response(req, code, sdp) ==
  [req EXCEPT !.to = req.from, !.from = req.to, !.code = code, !.sdp = sdp]

Answers(req) == {Response(req, 180, "none"), Response(req, 200, "audio")}

Copies == IF copies THEN 2 ELSE 1
Peer(u) == IF u = "answerer" THEN ua[u].call ELSE callee
Acks(u, cseq) ==
  IF u \in Dialers THEN {Request("ACK", ua[u].call, u, callee, cseq, "none", 0)} ELSE {}
InCallRequest(u, method, cseq, sdp, copy) ==
  Request(method, ua[u].call, u, Peer(u), cseq, sdp, copy)

IsResponse(m) == m.code # 0
InCall(u) == ua[u].st \in {"audio", "t38"}
Says(u, method) == byes' = byes \cup {<<ua[u].call, u, method>>}

-----------------------------------------------------------------------------
(* uac_establish *)

Dial(u) ==
  /\ u \in Dialers /\ ua[u].st = "idle"
  /\ ua' = [ua EXCEPT ![u] = [NewUa("calling") EXCEPT !.call = u, !.cseq = 1, !.sends = 1]]
  /\ Exchange({}, {Request("INVITE", u, u, callee, 1, "audio", 1)})
  /\ UNCHANGED byes

RetransmitInvite(u) ==
  /\ ua[u].st = "calling" /\ ~ua[u].prov /\ copies /\ ua[u].sends = 1
  /\ ua' = [ua EXCEPT ![u].sends = @ + 1]
  /\ Exchange({}, {InCallRequest(u, "INVITE", ua[u].cseq, "audio", ua[u].sends + 1)})
  /\ UNCHANGED byes

(* Timer B, Timer C or a stop signal: cancel a ringing call, else just leave. *)
GiveUp(u) ==
  /\ ua[u].st = "calling"
  /\ IF ua[u].prov
     THEN /\ ua' = [ua EXCEPT ![u].st = "cancelling"] /\ Says(u, "CANCEL")
          /\ Exchange({}, {InCallRequest(u, "CANCEL", ua[u].cseq, "none", 0)})
     ELSE Exit(u) /\ Keep /\ UNCHANGED byes

HearProvisional(u, m) ==
  /\ ua[u].st = "calling" /\ m.code \in 100..199
  /\ ua' = [ua EXCEPT ![u].prov = TRUE]
  /\ Exchange({m}, {}) /\ UNCHANGED byes

Dev_HearChallenge(u, m) ==
  /\ ua[u].st = "calling" /\ m.code = 407 /\ UNCHANGED byes
  /\ ua' = [ua EXCEPT ![u] = [ua[u] EXCEPT !.auths = @ + 1, !.cseq = @ + 1, !.prov = FALSE, !.sends = 1]]
  /\ Exchange({m}, Acks(u, ua[u].cseq) \cup {InCallRequest(u, "INVITE", ua[u].cseq + 1, "audio", 1)})

(* A challenge is acknowledged and answered with credentials, twice at most;  *)
(* a dialer without a password leaves at the first.                           *)
HearChallenge(u, m) ==
  /\ ua[u].st = "calling" /\ m.code = 407 /\ UNCHANGED byes
  /\ \/ /\ ua[u].auths # 1
        /\ Exit(u) /\ Exchange({m}, Acks(u, ua[u].cseq))
     \/ /\ ua[u].auths # 2
        /\ ua' = [ua EXCEPT ![u] = [ua[u] EXCEPT !.auths = @ + 1, !.cseq = @ + 1,
                                                   !.prov = FALSE, !.sends = 1]]
        /\ Exchange({m}, Acks(u, ua[u].cseq)
                         \cup {InCallRequest(u, "INVITE", ua[u].cseq + 1, "audio", 1)})

(* A 2xx, whatever it answers. Without a usable audio SDP it is acknowledged  *)
(* and the dialer leaves, with no BYE for the call that came up.              *)
HearOk(u, m) ==
  /\ ua[u].st = "calling" /\ m.code = 200
  /\ ua' = [ua EXCEPT ![u] = IF m.sdp = "audio"
                             THEN [NewUa(IF u \in T38Dialers THEN "connected" ELSE "audio")
                                     EXCEPT !.call = ua[u].call, !.cseq = ua[u].cseq, !.answered = TRUE]
                             ELSE [Gone(u) EXCEPT !.answered = TRUE, !.unusable = TRUE]]
  /\ Exchange({m}, Acks(u, ua[u].cseq)) /\ UNCHANGED byes

HearRefusal(u, m) ==
  /\ ua[u].st = "calling" /\ m.code > 299 /\ m.code # 407
  /\ Exit(u)
  /\ Exchange({m}, Acks(u, ua[u].cseq)) /\ UNCHANGED byes

(* await_cancel_final: a 2xx means the call came up all the same. *)
Dev_HearAfterCancel(u, m) ==
  /\ ua[u].st = "cancelling" /\ m.code >= 200 /\ m.method # "CANCEL"
  /\ ua' = [ua EXCEPT ![u] = [Gone(u) EXCEPT !.answered = m.code < 300]]
  /\ Exchange({m}, Acks(u, ua[u].cseq)) /\ UNCHANGED byes

HearAfterCancel(u, m) ==
  /\ ua[u].st = "cancelling" /\ m.code >= 200 /\ m.method # "CANCEL"
  /\ ua' = [ua EXCEPT ![u] = [Gone(u) EXCEPT !.answered = m.code < 300]]
  /\ Exchange({m}, Acks(u, ua[u].cseq) \cup
       (IF m.code < 300 THEN {InCallRequest(u, "BYE", ua[u].cseq + 1, "none", 0)} ELSE {}))
  /\ IF m.code < 300 THEN Says(u, "BYE") ELSE UNCHANGED byes

CancelTimeout(u) ==
  /\ ua[u].st = "cancelling"
  /\ Exit(u) /\ Keep /\ UNCHANGED byes

-----------------------------------------------------------------------------
(* sip_offer_t38, for a dialer run with --t38: the re-INVITE is not repeated, *)
(* but the network may deliver it twice.                                      *)

OfferT38(u) ==
  /\ ua[u].st = "connected"
  /\ ua' = [ua EXCEPT ![u] = [ua[u] EXCEPT !.st = "offering", !.cseq = @ + 1, !.auths = 0]]
  /\ Exchange({}, {InCallRequest(u, "INVITE", ua[u].cseq + 1, "t38", copy) : copy \in 1..Copies})
  /\ UNCHANGED byes

OfferTimeout(u) ==
  /\ ua[u].st = "offering"   \* no answer in 6 s
  /\ ua' = [ua EXCEPT ![u].st = "audio"]
  /\ Keep /\ UNCHANGED byes

(* The first final response counts as the answer, but for one challenge that  *)
(* a dialer with a password meets.                                            *)
HearOffered(u, m) ==
  /\ ua[u].st = "offering" /\ m.code >= 200 /\ UNCHANGED byes
  /\ \/ /\ m.code = 407 /\ ua[u].auths = 0
        /\ ua' = [ua EXCEPT ![u] = [ua[u] EXCEPT !.cseq = @ + 1, !.auths = 1]]
        /\ Exchange({m}, Acks(u, ua[u].cseq)
                         \cup {InCallRequest(u, "INVITE", ua[u].cseq + 1, "t38", 1)})
     \/ /\ ua' = [ua EXCEPT ![u].st = IF m.code = 200 /\ m.sdp = "t38" THEN "t38" ELSE "audio"]
        /\ Exchange({m}, Acks(u, ua[u].cseq))

(* A BYE meanwhile is answered; the audio engine then starts all the same. *)
HearByeOffering(u, m) ==
  /\ ua[u].st = "offering" /\ m.method = "BYE" /\ ~IsResponse(m) /\ m.call = ua[u].call
  /\ ua' = [ua EXCEPT ![u] = [@ EXCEPT !.st = "audio", !.hung = TRUE]]
  /\ Exchange({m}, {Response(m, 200, "none")}) /\ UNCHANGED byes

(* A process waiting for a response throws requests away, and the rest. *)
HearIgnored(u, m) ==
  /\ \/ ua[u].st \in {"calling", "cancelling"} /\ ~IsResponse(m)
     \/ ua[u].st = "cancelling" /\ (m.code < 200 \/ m.method = "CANCEL")
     \/ ua[u].st = "offering" /\ m.code < 200 /\ ~(m.method = "BYE" /\ ~IsResponse(m)
                                                    /\ m.call = ua[u].call)
  /\ UNCHANGED <<ua, byes>> /\ Exchange({m}, {})

-----------------------------------------------------------------------------
(* sip_media_establish and uas_answer, for the answerer. *)

AnswerInvite(m) ==
  /\ ua["answerer"].st = "waiting" /\ m.method = "INVITE"
  /\ IF m.sdp = "audio"
     THEN /\ ua' = [ua EXCEPT !["answerer"] = [NewUa("acking") EXCEPT !.call = m.call, !.sends = 1]]
          /\ Exchange({m}, Answers(m))
     ELSE UNCHANGED ua /\ Exchange({m}, {})
  /\ UNCHANGED byes

ResendOk ==
  /\ ua["answerer"].st = "acking" /\ copies /\ ua["answerer"].sends = 1
  /\ ua' = [ua EXCEPT !["answerer"].sends = @ + 1]
  /\ Exchange({}, {Response(Request("INVITE", ua["answerer"].call, Peer("answerer"), "answerer",
                                    1, "audio", 1), 200, "audio")})
  /\ UNCHANGED byes

(* No ACK in 32 s: back to waiting, with nothing said to the caller. *)
NoAck ==
  /\ ua["answerer"].st = "acking"
  /\ ua' = [ua EXCEPT !["answerer"].st = "waiting"] /\ Keep /\ UNCHANGED byes

HearAck(m) ==
  /\ ua["answerer"].st = "acking" /\ m.method = "ACK"
  /\ ua' = [ua EXCEPT !["answerer"].st = "audio"]
  /\ Exchange({m}, {}) /\ UNCHANGED byes

(* Before the ACK an INVITE gets the stored 200 again; the rest is dropped. *)
HearAcking(m) ==
  /\ ua["answerer"].st = "acking" /\ m.method # "ACK"
  /\ UNCHANGED <<ua, byes>>
  /\ Exchange({m}, IF m.method = "INVITE" /\ ~IsResponse(m)
                   THEN {Response([m EXCEPT !.call = ua["answerer"].call, !.cseq = 1], 200, "audio")}
                   ELSE {})

HearWaiting(m) ==
  /\ ua["answerer"].st = "waiting" /\ m.method # "INVITE"
  /\ UNCHANGED <<ua, byes>> /\ Exchange({m}, {})

-----------------------------------------------------------------------------
(* sip_media_poll_sip *)

(* A 2xx: a dialer takes it for a repeated one and sends its last ACK again. *)
PollResponse(u, m) ==
  /\ InCall(u) /\ IsResponse(m)
  /\ UNCHANGED <<ua, byes>>
  /\ Exchange({m}, IF m.code = 200 THEN Acks(u, ua[u].cseq) ELSE {})

PollBye(u, m) ==
  /\ InCall(u) /\ ~IsResponse(m) /\ m.method = "BYE" /\ m.call = ua[u].call
  /\ ua' = [ua EXCEPT ![u].hung = TRUE]
  /\ Exchange({m}, {Response(m, 200, "none")}) /\ UNCHANGED byes

PollReinvite(u, m) ==
  /\ InCall(u) /\ ~IsResponse(m) /\ m.method = "INVITE" /\ m.call = ua[u].call
  /\ IF m.sdp = "t38" /\ (u \in T38Dialers \/ (u = "answerer" /\ callee_t38))
     THEN ua' = [ua EXCEPT ![u].st = "t38"] /\ Exchange({m}, {Response(m, 200, "t38")})
     ELSE UNCHANGED ua /\ Exchange({m}, {Response(m, 488, "none")})
  /\ UNCHANGED byes

PollIgnored(u, m) ==
  /\ InCall(u) /\ ~IsResponse(m)
  /\ m.method \notin {"BYE", "INVITE"} \/ m.call # ua[u].call
  /\ UNCHANGED <<ua, byes>> /\ Exchange({m}, {})

(* run_fax_sip and run_fax_t38 end when the engine has, when the peer hung up *)
(* or on a signal; then sip_media_hangup.                                     *)
Leave(u) ==
  /\ InCall(u)
  /\ IF ua[u].hung
     THEN /\ Exit(u)
          /\ Keep /\ UNCHANGED byes
     ELSE /\ ua' = [ua EXCEPT ![u].st = "bye"] /\ Says(u, "BYE")
          /\ Exchange({}, {InCallRequest(u, "BYE", ua[u].cseq + 1, "none", 0)})

(* One datagram, or a second, ends the wait. *)
HungUp(u, m) ==
  /\ ua[u].st = "bye"
  /\ Exit(u)
  /\ Exchange(m, {}) /\ UNCHANGED byes

-----------------------------------------------------------------------------
UaInit ==
  /\ net = {} /\ byes = {}
  /\ callee \in {"daemon", "answerer", "gateway"} /\ callee_t38 \in BOOLEAN
  /\ copies \in BOOLEAN /\ (copies \/ callee_t38)   \* bound
  /\ ua = [u \in Uas |-> NewUa(IF u \in Dialers THEN "idle" ELSE "waiting")]

(* What a process does by itself. *)
UaStep(u) ==
  \/ Dial(u) \/ RetransmitInvite(u) \/ GiveUp(u) \/ CancelTimeout(u)
  \/ OfferT38(u) \/ OfferTimeout(u) \/ Leave(u) \/ HungUp(u, {})

(* Of these what it is sure to do: each wait for a response has its end, and   *)
(* a media loop that reads a BYE leaves within a second. One that starts after *)
(* a BYE does not know of it (run_fax_sip begins with ended = 0), but its new  *)
(* engine hears nothing and gives up after 35 s or ten DIS (T30Call). How long *)
(* an engine takes over a call that nobody has ended is not bounded.           *)
UaMust(u) ==
  \/ GiveUp(u) \/ CancelTimeout(u) \/ OfferT38(u) \/ OfferTimeout(u) \/ HungUp(u, {})
  \/ ua[u].hung /\ Leave(u)

AnswererStep == ResendOk \/ NoAck

(* What it does with a datagram. *)
UaHears(u, m) ==
  /\ m.to = u
  /\ \/ HearProvisional(u, m) \/ HearChallenge(u, m) \/ HearOk(u, m) \/ HearRefusal(u, m)
     \/ HearAfterCancel(u, m) \/ HearOffered(u, m) \/ HearByeOffering(u, m) \/ HearIgnored(u, m)
     \/ PollResponse(u, m) \/ PollBye(u, m) \/ PollReinvite(u, m) \/ PollIgnored(u, m)
     \/ HungUp(u, {m})

AnswererHears(m) ==
  /\ m.to = "answerer"
  /\ AnswerInvite(m) \/ HearAck(m) \/ HearAcking(m) \/ HearWaiting(m)
==============================================================================
