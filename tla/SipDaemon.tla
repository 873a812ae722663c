------------------------------ MODULE SipDaemon ------------------------------
(***************************************************************************)
(* The fax daemon (sip_fax.c): a parent that owns the listening socket and *)
(* a table of calls, and a forked child for the media of each call. They   *)
(* meet over a control socket, which the child reads in order, and over    *)
(* SIGCHLD, which only sets a flag.                                        *)
(***************************************************************************)
EXTENDS SipUa, Sequences

CONSTANT Slots   \* MAX_DCALLS of them

ASSUME SlotsAssumption == Slots \in Nat \ {0}

VARIABLES
  calls,       \* the call table: struct dcall
  child,       \* the child of each slot; its pid is the slot's
  pc,          \* the parent: in its loop, reaping, shutting down, gone
  g_sigchld

daemonVars == <<calls, child, pc, g_sigchld>>

NoChild == [st |-> "none", call |-> NoCall, medium |-> "audio", ended |-> FALSE, ctrl |-> <<>>]
NewChild(call) == [NoChild EXCEPT !.st = "runs", !.call = call]

(* Of a freed slot only the T.38 fields are read before they are written. *)
FreedSlot == [active |-> FALSE, call |-> NoCall, invite_cseq |-> 0, peer_hung_up |-> FALSE,
              t38 |-> FALSE, reinvite_cseq |-> 0]

Active == {s \in 1..Slots : calls[s].active}

Dev_dcall_find(call) == {s \in Active : calls[s].call = call /\ ~calls[s].peer_hung_up}
dcall_find(call) == {s \in Active : calls[s].call = call}

(* The first free slot, if any. *)
dcall_free_slot == {s \in (1..Slots) \ Active : \A r \in (1..Slots) \ Active : s <= r}

DaemonBye(call) == Request("BYE", call, "daemon", call, 1, "none", 0)
DaemonSays(gone) == byes' = byes \cup {<<call, "daemon", "BYE">> : call \in gone}
ByeOwed(s) == IF calls[s].peer_hung_up THEN {} ELSE {calls[s].call}

(* dctl_send: it fails when the child has exited. *)
Tell(s, msg) ==
  child' = [child EXCEPT ![s].ctrl = IF child[s].st = "runs" THEN Append(@, msg) ELSE @]

-----------------------------------------------------------------------------
(* daemon_dispatch, one action per branch. *)

(* daemon_accept: the slot's T.38 fields are those of the call before. *)
AcceptInvite(m, s) ==
  /\ m.method = "INVITE" /\ dcall_find(m.call) = {} /\ m.sdp = "audio"
  /\ s \in dcall_free_slot
  /\ calls' = [calls EXCEPT ![s] = [@ EXCEPT !.active = TRUE, !.call = m.call,
                                    !.invite_cseq = m.cseq, !.peer_hung_up = FALSE]]
  /\ child' = [child EXCEPT ![s] = NewChild(m.call)]
  /\ Exchange({m}, Answers(m)) /\ UNCHANGED byes

Dev_AcceptFails(m) ==
  /\ m.method = "INVITE" /\ dcall_find(m.call) = {} /\ m.sdp = "audio"
  /\ dcall_free_slot # {}
  /\ UNCHANGED <<calls, child, byes>>
  /\ Exchange({m}, Answers(m))

(* The call is answered before the fork: when that fails it gets a BYE. *)
AcceptFails(m) ==
  /\ m.method = "INVITE" /\ dcall_find(m.call) = {} /\ m.sdp = "audio"
  /\ dcall_free_slot # {}
  /\ UNCHANGED <<calls, child>> /\ DaemonSays({m.call})
  /\ Exchange({m}, Answers(m) \cup {DaemonBye(m.call)})

(* All slots taken; or a re-INVITE of a call that is over, not answered. *)
RefuseInvite(m) ==
  /\ m.method = "INVITE" /\ dcall_find(m.call) = {}
  /\ m.sdp = "t38" \/ dcall_free_slot = {}
  /\ UNCHANGED <<calls, child, byes>>
  /\ Exchange({m}, IF dcall_free_slot = {} THEN {Response(m, 486, "none")} ELSE {})

RepeatedInvite(m, s) ==
  /\ m.method = "INVITE" /\ s \in dcall_find(m.call) /\ m.cseq = calls[s].invite_cseq
  /\ UNCHANGED <<calls, child, byes>>
  /\ Exchange({m}, {Response(m, 200, "audio")})

RepeatedReinvite(m, s) ==
  /\ m.method = "INVITE" /\ s \in dcall_find(m.call) /\ m.cseq # calls[s].invite_cseq
  /\ calls[s].t38 /\ m.cseq = calls[s].reinvite_cseq
  /\ UNCHANGED <<calls, child, byes>>
  /\ Exchange({m}, {Response(m, 200, "t38")})

Dev_SwitchToT38(m, s) ==
  /\ m.method = "INVITE" /\ s \in dcall_find(m.call) /\ m.cseq # calls[s].invite_cseq
  /\ m.sdp = "t38" /\ callee_t38
  /\ Tell(s, "T38")
  /\ calls' = [calls EXCEPT ![s] = IF child[s].st = "runs"
                                   THEN [@ EXCEPT !.t38 = TRUE, !.reinvite_cseq = m.cseq] ELSE @]
  /\ Exchange({m}, {Response(m, 200, "t38")}) /\ UNCHANGED byes

(* The 200 goes out first, then the socket to the child, if there is one. *)
SwitchToT38(m, s) ==
  /\ m.method = "INVITE" /\ s \in dcall_find(m.call) /\ m.cseq # calls[s].invite_cseq
  /\ m.sdp = "t38" /\ callee_t38 /\ ~calls[s].t38
  /\ Tell(s, "T38")
  /\ calls' = [calls EXCEPT ![s] = IF child[s].st = "runs"
                                   THEN [@ EXCEPT !.t38 = TRUE, !.reinvite_cseq = m.cseq] ELSE @]
  /\ Exchange({m}, {Response(m, 200, "t38")}) /\ UNCHANGED byes

DeclineReinvite(m, s) ==
  /\ m.method = "INVITE" /\ s \in dcall_find(m.call) /\ m.cseq # calls[s].invite_cseq
  /\ ~(calls[s].t38 /\ m.cseq = calls[s].reinvite_cseq)
  /\ calls[s].t38 \/ ~callee_t38 \/ m.sdp # "t38"
  /\ UNCHANGED <<calls, child, byes>>
  /\ Exchange({m}, {Response(m, 488, "none")})

Dev_HearHangup(m, s) ==
  /\ m.method \in {"BYE", "CANCEL"} /\ s \in dcall_find(m.call)
  /\ calls' = [calls EXCEPT ![s].peer_hung_up = TRUE]
  /\ Exchange({m}, {Response(m, 200, "none")}) /\ UNCHANGED <<child, byes>>

HearHangup(m, s) ==
  /\ m.method \in {"BYE", "CANCEL"} /\ s \in dcall_find(m.call)
  /\ calls' = [calls EXCEPT ![s].peer_hung_up = TRUE]
  /\ IF calls[s].peer_hung_up THEN UNCHANGED child ELSE Tell(s, "STOP")
  /\ Exchange({m}, {Response(m, 200, "none")}) /\ UNCHANGED byes

(* Responses, and requests of calls that are over, get nothing. *)
IgnoreMessage(m) ==
  /\ IsResponse(m) \/ (m.method # "INVITE" /\ dcall_find(m.call) = {})
  /\ UNCHANGED <<calls, child, byes>> /\ Exchange({m}, {})

daemon_dispatch(m) ==
  /\ m.to = "daemon" /\ pc = "loop"
  /\ UNCHANGED <<ua, pc, g_sigchld>>
  /\ \/ IgnoreMessage(m)
     \/ /\ ~IsResponse(m)
        /\ \/ AcceptFails(m) \/ RefuseInvite(m)
           \/ \E s \in 1..Slots :
                \/ AcceptInvite(m, s) \/ RepeatedInvite(m, s) \/ RepeatedReinvite(m, s)
                \/ SwitchToT38(m, s) \/ DeclineReinvite(m, s) \/ HearHangup(m, s)

-----------------------------------------------------------------------------
(* run_daemon: the flag is lowered before daemon_reap collects the exited. *)

StartReaping ==
  /\ pc = "loop" /\ g_sigchld
  /\ g_sigchld' = FALSE /\ pc' = "reap"
  /\ UNCHANGED <<ua, net, byes, calls, child>>

Free(s) ==
  /\ calls' = [calls EXCEPT ![s] = [FreedSlot EXCEPT !.t38 = calls[s].t38,
                                                     !.reinvite_cseq = calls[s].reinvite_cseq]]
  /\ child' = [child EXCEPT ![s] = NoChild]
  /\ UNCHANGED ua
  /\ DaemonSays(ByeOwed(s)) /\ Exchange({}, {DaemonBye(call) : call \in ByeOwed(s)})

Dev_ReapOne(s) ==
  /\ pc = "reap" /\ child[s].st = "zombie" /\ Free(s)
  /\ pc' = "loop" /\ UNCHANGED g_sigchld

ReapOne(s) ==
  /\ pc = "reap" /\ child[s].st = "zombie" /\ Free(s)
  /\ UNCHANGED <<pc, g_sigchld>>

ReapingDone ==
  /\ pc = "reap" /\ \A s \in 1..Slots : child[s].st # "zombie"
  /\ pc' = "loop"
  /\ UNCHANGED <<ua, net, byes, calls, child, g_sigchld>>

(* daemon_shutdown: tell every child to stop, then wait for each in turn. *)
StartShutdown ==
  /\ pc = "loop" /\ callee = "daemon"
  /\ pc' = "shutdown"
  /\ child' = [s \in 1..Slots |-> [child[s] EXCEPT !.ctrl =
                 IF child[s].st = "runs" THEN Append(@, "STOP") ELSE @]]
  /\ net' = {m \in net : m.to # "daemon"}   \* nobody reads them any more
  /\ UNCHANGED <<ua, byes, calls, g_sigchld>>

WaitForChild(s) ==
  /\ pc = "shutdown" /\ child[s].st = "zombie"
  /\ s \in Active /\ \A r \in Active : s <= r
  /\ Free(s)
  /\ UNCHANGED <<pc, g_sigchld>>

-----------------------------------------------------------------------------
(* run_fax_media and run_fax_t38_child. A new medium is a new engine; over     *)
(* T.38 any message means stop.                                                *)
ReadControl(s) ==
  /\ child[s].st = "runs" /\ child[s].ctrl # <<>>
  /\ LET c == [child[s] EXCEPT !.ctrl = Tail(@)] IN
       child' = [child EXCEPT ![s] =
                   IF c.medium = "audio" /\ Head(child[s].ctrl) = "T38"
                   THEN [c EXCEPT !.medium = "t38", !.ended = FALSE]
                   ELSE [c EXCEPT !.ended = TRUE]]
  /\ UNCHANGED <<ua, net, byes, calls, pc, g_sigchld>>

(* The engine has finished, or a second has passed since it was told to stop. *)
ChildExits(s) ==
  /\ child[s].st = "runs"
  /\ child' = [child EXCEPT ![s].st = "zombie"]
  /\ g_sigchld' = TRUE
  /\ UNCHANGED <<ua, net, byes, calls, pc>>

(* What a child is sure to do: read its control socket, and exit a second      *)
(* after it was told to stop. If it went over to T.38 after that it has        *)
(* forgotten the stop (run_fax_t38_child begins with ended = 0), but its new   *)
(* engine hears nothing from a caller that has hung up, and gives up after ten *)
(* DIS (T30Call). An engine in a call need not end.                            *)
Deaf(s) ==
  child[s].medium = "t38" /\ child[s].ctrl = <<>> /\ calls[s].peer_hung_up

ChildMust(s) ==
  ReadControl(s) \/ ((child[s].ended \/ Deaf(s)) /\ ChildExits(s))

DaemonInit ==
  /\ calls = [s \in 1..Slots |-> FreedSlot]
  /\ child = [s \in 1..Slots |-> NoChild]
  /\ pc = "loop" /\ g_sigchld = FALSE

ParentStep ==
  \/ StartReaping \/ ReapingDone
  \/ \E s \in 1..Slots : ReapOne(s) \/ WaitForChild(s)

DaemonNext ==
  \/ ParentStep \/ StartShutdown
  \/ \E m \in net : daemon_dispatch(m)
  \/ \E s \in 1..Slots : ReadControl(s) \/ ChildExits(s)
==============================================================================
