------------------------------- MODULE SipCall -------------------------------
(***************************************************************************)
(* Dialers and whom they call: the daemon, the answering program, or a     *)
(* gateway that asks for credentials and offers T.38 itself (external).    *)
(***************************************************************************)
EXTENDS SipDaemon

VARIABLE gateway   \* the requests it has answered and, with CSeq 0, those it has made

vars == <<net, ua, setup, byes, daemonVars, gateway>>

-----------------------------------------------------------------------------
(* The gateway answers each request once, asks for credentials if it likes,  *)
(* and may offer T.38 itself and hang up.                                    *)

GatewayAnswers(m) ==
  CASE m.method = "INVITE" /\ m.sdp = "t38" ->
         {{<<407, "none">>}, {<<488, "none">>}, {<<200, "t38">>}, {<<200, "audio">>}}
    [] m.method = "INVITE" /\ m.sdp = "audio" ->
         {{<<407, "none">>}, {<<486, "none">>}, {<<180, "none">>, <<200, "audio">>},
          {<<180, "none">>, <<200, "none">>}}
    [] OTHER -> {{<<200, "none">>, <<487, "none">>}}

GatewayStep(m) ==
  /\ m.to = "gateway" /\ <<m.method, m.cseq>> \notin gateway
  /\ gateway' = gateway \cup {<<m.method, m.cseq>>}
  /\ \E answer \in GatewayAnswers(m) :
       Exchange({m}, {Response([m EXCEPT !.method = IF a[1] = 487 THEN "INVITE" ELSE @], a[1], a[2])
                        : a \in answer})
  /\ UNCHANGED byes

GatewayAsks(d) ==
  /\ ua[d].answered
  /\ \E ask \in {"INVITE", "BYE"} :
       /\ <<ask, 0>> \notin gateway /\ gateway' = gateway \cup {<<ask, 0>>}
       /\ Exchange({}, {Request(ask, ua[d].call, "gateway", d, 1,
                                IF ask = "BYE" THEN "none" ELSE "t38", 0)})
       /\ IF ask = "BYE" THEN byes' = byes \cup {<<ua[d].call, "gateway", "BYE">>} ELSE UNCHANGED byes

-----------------------------------------------------------------------------
Init == UaInit /\ DaemonInit /\ gateway = {}

(* Several dialers only towards the daemon, and when nothing is sent twice. *)
Dialling == IF callee = "daemon" /\ ~copies THEN Dialers ELSE {CHOOSE d \in Dialers : T38Dialers = {} \/ d \in T38Dialers}

UaActs == UNCHANGED <<setup, daemonVars, gateway>> /\
  \/ \E u \in Dialling \cup {"answerer"} : UaStep(u)
  \/ \E m \in net : (\E u \in Uas : UaHears(u, m)) \/ AnswererHears(m)
  \/ AnswererStep

DaemonActs == UNCHANGED <<setup, gateway>> /\ DaemonNext

GatewayActs == UNCHANGED <<ua, setup, daemonVars>> /\
  \/ \E m \in net : GatewayStep(m)
  \/ \E d \in Dialling : callee = "gateway" /\ GatewayAsks(d)

Next == UaActs \/ DaemonActs \/ GatewayActs

Spec == Init /\ [][Next]_vars

(* A process of the signalling goes on, the parent wakes every two seconds,   *)
(* and a child that is told to stop does. No engine is assumed to end its     *)
(* call, and nothing of the network.                                          *)
Fairness ==
  /\ \A u \in Uas : WF_vars(UNCHANGED <<setup, daemonVars, gateway>> /\ UaMust(u))
  /\ WF_vars(UNCHANGED <<setup, gateway>> /\ ParentStep)
  /\ \A s \in 1..Slots : WF_vars(UNCHANGED <<setup, gateway>> /\ ChildMust(s))

FairSpec == Spec /\ Fairness

-----------------------------------------------------------------------------
States == {"idle", "calling", "cancelling", "connected", "offering", "audio", "t38", "bye", "exit"}

TypeOK ==
  /\ \A u \in Uas :
       /\ ua[u].st \in (IF u \in Dialers THEN States
                        ELSE {"waiting", "acking", "audio", "t38", "bye", "exit"})
       /\ ua[u].call \in Dialers \cup {NoCall}
       /\ ua[u].cseq \in 0..5 /\ ua[u].auths \in 0..2 /\ ua[u].sends \in 0..2
       /\ {ua[u].prov, ua[u].hung, ua[u].answered, ua[u].unusable} \subseteq BOOLEAN
  /\ \A s \in 1..Slots :
       /\ child[s].st \in {"none", "runs", "zombie"} /\ child[s].medium \in {"audio", "t38"}
       /\ Len(child[s].ctrl) <= 3
  /\ pc \in {"loop", "reap", "shutdown"} /\ g_sigchld \in BOOLEAN

(* A call has one slot, and an active slot one child of that call, however   *)
(* often its INVITE arrives (dcall_find before daemon_accept).               *)
OneSlotPerCall ==
  /\ \A r, s \in Active : calls[r].call = calls[s].call => r = s
  /\ \A s \in 1..Slots : (s \in Active) = (child[s].st # "none")
  /\ \A s \in Active : child[s].call = calls[s].call

(* An exited child is not forgotten: SIGCHLDs merge into one flag, but while *)
(* a child waits to be collected the flag is up or the parent is collecting  *)
(* (daemon_reap collects all, run_daemon lowers the flag first).             *)
NoLostChild ==
  \A s \in 1..Slots : child[s].st = "zombie" => g_sigchld \/ pc \in {"reap", "shutdown"}

(* A child is told to stop only because its caller hung up or the daemon is  *)
(* shutting down: not by another call's messages, nor by a second copy of a  *)
(* re-INVITE, which over T.38 would be taken for a stop.                     *)
StoppedByItsPeer ==
  \A s \in Active : child[s].ended =>
    \/ pc = "shutdown"
    \/ \E method \in {"BYE", "CANCEL"} : <<calls[s].call, calls[s].call, method>> \in byes

(* A dialer that is in a call with the daemon is served by a slot, or a BYE  *)
(* to it is on its way: also after a failed fork, a child that ended by      *)
(* itself, and a shutdown.                                                   *)
NobodyAbandoned ==
  \A d \in Dialers :
    (callee = "daemon" /\ (InCall(d) \/ ua[d].st \in {"connected", "offering"})) =>
      dcall_find(ua[d].call) # {} \/ <<ua[d].call, "daemon", "BYE">> \in byes

(* A dialer whose call came up does not leave before one of the two has sent *)
(* a BYE, also when the 2xx overtook its CANCEL (await_cancel_final: "so we   *)
(* don't leave a dangling dialog"). The one exception is in the code: a 2xx   *)
(* without a usable audio SDP is acknowledged and then left (uac_establish).  *)
LeavesWithBye ==
  \A d \in Dialers :
    ua[d].answered /\ ~ua[d].unusable /\ ua[d].st = "exit" =>
      ua[d].hung \/ <<ua[d].call, d, "BYE">> \in byes

(* A call that was ended clears, whatever datagrams are lost: in the end no   *)
(* slot is held by a caller that hung up, by a child that has exited or       *)
(* through a shutdown, and no dialer waits for a response or, having seen the *)
(* BYE, stays in its media loop. Only calls that nobody has ended may last.   *)
EndedCallsClear ==
  <>[](/\ \A s \in Active : ~calls[s].peer_hung_up /\ child[s].st = "runs" /\ pc # "shutdown"
       /\ \A d \in Dialling : ua[d].st \in {"idle", "exit"} \/ (InCall(d) /\ ~ua[d].hung))

(* A dialer told that the daemon takes its call over T.38 is served by a      *)
(* child that has, or is about to be handed, the T.38 socket (sip.h: "1 if   *)
(* the peer accepted (media now T.38)"), unless the daemon has hung up.      *)
MediaAgree ==
  \A d \in Dialers, s \in 1..Slots :
    (/\ ua[d].st = "t38" /\ s \in dcall_find(d) /\ child[s].st = "runs"
     /\ <<d, "daemon", "BYE">> \notin byes) =>
      child[s].medium = "t38" \/ \E i \in 1..Len(child[s].ctrl) : child[s].ctrl[i] = "T38"
==============================================================================
