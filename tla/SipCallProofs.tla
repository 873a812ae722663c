----------------------------- MODULE SipCallProofs -----------------------------
(***************************************************************************)
(* The invariants of SipCall, for any number of dialers and of call slots. *)
(* OneSlotPerCall and NoLostChild are inductive together with the domains  *)
(* of the call table and of the children. The others follow from CallsInv, *)
(* which relates the dialers, the datagrams on their way and the slots.    *)
(***************************************************************************)
EXTENDS SipCall, SequenceTheorems, TLAPS

Shape ==
  /\ DOMAIN calls = 1..Slots /\ DOMAIN child = 1..Slots
  /\ \A s \in 1..Slots :
       /\ DOMAIN calls[s] = {"active", "call", "invite_cseq", "peer_hung_up", "t38", "reinvite_cseq"}
       /\ DOMAIN child[s] = {"st", "call", "medium", "ended", "ctrl"}

SlotInv == Shape /\ OneSlotPerCall /\ NoLostChild

(* What the invariant reads of the table and the children has not changed.  *)
SameSlots ==
  \A s \in 1..Slots :
    /\ calls'[s].active = calls[s].active /\ calls'[s].call = calls[s].call
    /\ child'[s].st = child[s].st /\ child'[s].call = child[s].call

(* A step that changes nothing the invariant reads keeps it. *)
LEMMA Kept ==
  ASSUME SlotInv, Shape', SameSlots, UNCHANGED g_sigchld,
         pc' = pc \/ pc' \in {"reap", "shutdown"}
  PROVE  SlotInv'
<1>1. Active' = Active
  BY DEF Active, SameSlots
<1>2. Active \subseteq 1..Slots
  BY DEF Active
<1>3. OneSlotPerCall'
  BY <1>1, <1>2 DEF SlotInv, OneSlotPerCall, SameSlots
<1>4. NoLostChild'
  BY DEF SlotInv, NoLostChild, SameSlots
<1>. QED BY <1>3, <1>4 DEF SlotInv

(* dctl_send changes nothing the invariant reads. *)
LEMMA TellKeeps ==
  ASSUME Shape, NEW s \in 1..Slots, NEW msg, Tell(s, msg)
  PROVE  /\ DOMAIN child' = 1..Slots
         /\ \A r \in 1..Slots :
              /\ DOMAIN child'[r] = {"st", "call", "medium", "ended", "ctrl"}
              /\ child'[r].st = child[r].st /\ child'[r].call = child[r].call
  BY DEF Shape, Tell

-----------------------------------------------------------------------------
(* daemon_accept: a free slot is taken for a call that has none. *)
LEMMA AcceptStep ==
  ASSUME SlotInv, NEW m, NEW s \in 1..Slots, AcceptInvite(m, s), pc' = pc, g_sigchld' = g_sigchld
  PROVE  SlotInv'
<1>1. /\ calls' = [calls EXCEPT ![s] = [@ EXCEPT !.active = TRUE, !.call = m.call,
                                          !.invite_cseq = m.cseq, !.peer_hung_up = FALSE]]
      /\ child' = [child EXCEPT ![s] = NewChild(m.call)]
      /\ dcall_find(m.call) = {} /\ s \in dcall_free_slot
  BY DEF AcceptInvite
<1>2. /\ DOMAIN NewChild(m.call) = {"st", "call", "medium", "ended", "ctrl"}
      /\ NewChild(m.call).st = "runs" /\ NewChild(m.call).call = m.call
  BY DEF NewChild, NoChild
<1>3. /\ calls'[s].active /\ calls'[s].call = m.call
      /\ DOMAIN calls'[s] = {"active", "call", "invite_cseq", "peer_hung_up", "t38", "reinvite_cseq"}
      /\ child'[s] = NewChild(m.call)
      /\ \A r \in 1..Slots : r # s => calls'[r] = calls[r] /\ child'[r] = child[r]
      /\ DOMAIN calls' = 1..Slots /\ DOMAIN child' = 1..Slots
  BY <1>1 DEF SlotInv, Shape
<1>4. Shape'
  BY <1>2, <1>3 DEF SlotInv, Shape
<1>5. s \notin Active /\ Active' = Active \cup {s}
  BY <1>1, <1>3 DEF Active, dcall_free_slot
<1>6. \A r \in Active : calls[r].call # m.call /\ r \in 1..Slots /\ r # s
  BY <1>1, <1>5 DEF dcall_find, Active
<1>7. OneSlotPerCall'
  BY <1>2, <1>3, <1>5, <1>6 DEF SlotInv, OneSlotPerCall
<1>8. NoLostChild'
  BY <1>2, <1>3 DEF SlotInv, NoLostChild
<1>. QED BY <1>4, <1>7, <1>8 DEF SlotInv

(* dcall_free, after its child was collected. *)
LEMMA FreeStep ==
  ASSUME SlotInv, NEW s \in 1..Slots, Free(s), pc' = pc, g_sigchld' = g_sigchld
  PROVE  SlotInv'
<1>1. /\ calls' = [calls EXCEPT ![s] = [FreedSlot EXCEPT !.t38 = calls[s].t38,
                                            !.reinvite_cseq = calls[s].reinvite_cseq]]
      /\ child' = [child EXCEPT ![s] = NoChild]
  BY DEF Free
<1>2. /\ ~calls'[s].active
      /\ DOMAIN calls'[s] = {"active", "call", "invite_cseq", "peer_hung_up", "t38", "reinvite_cseq"}
      /\ DOMAIN child'[s] = {"st", "call", "medium", "ended", "ctrl"} /\ child'[s].st = "none"
      /\ \A r \in 1..Slots : r # s => calls'[r] = calls[r] /\ child'[r] = child[r]
      /\ DOMAIN calls' = 1..Slots /\ DOMAIN child' = 1..Slots
  BY <1>1 DEF SlotInv, Shape, FreedSlot, NoChild
<1>3. Shape'
  BY <1>2 DEF SlotInv, Shape
<1>4. Active' = Active \ {s}
  BY <1>2 DEF Active
<1>5. \A r \in Active : r \in 1..Slots
  BY DEF Active
<1>6. OneSlotPerCall'
  BY <1>2, <1>4, <1>5 DEF SlotInv, OneSlotPerCall
<1>7. NoLostChild'
  BY <1>2 DEF SlotInv, NoLostChild
<1>. QED BY <1>3, <1>6, <1>7 DEF SlotInv

(* Every branch of daemon_dispatch keeps the invariant. *)
LEMMA DispatchStep ==
  ASSUME SlotInv, NEW m, daemon_dispatch(m)
  PROVE  SlotInv'
<1>0. pc' = pc /\ g_sigchld' = g_sigchld
  BY DEF daemon_dispatch
<1>1. ASSUME calls' = calls, child' = child PROVE SlotInv'
  <2>1. Shape' /\ SameSlots
    BY <1>1 DEF SlotInv, Shape, SameSlots
  <2>. QED BY <2>1, <1>0, Kept
<1>2. CASE IgnoreMessage(m) \/ AcceptFails(m) \/ RefuseInvite(m)
  BY <1>1, <1>2 DEF IgnoreMessage, AcceptFails, RefuseInvite
<1>3. ASSUME NEW s \in 1..Slots, AcceptInvite(m, s) PROVE SlotInv'
  BY <1>0, <1>3, AcceptStep
<1>4. ASSUME NEW s \in 1..Slots,
             RepeatedInvite(m, s) \/ RepeatedReinvite(m, s) \/ DeclineReinvite(m, s)
      PROVE  SlotInv'
  BY <1>1, <1>4 DEF RepeatedInvite, RepeatedReinvite, DeclineReinvite
<1>5. ASSUME NEW s \in 1..Slots, SwitchToT38(m, s) PROVE SlotInv'
  <2>1. /\ DOMAIN child' = 1..Slots
        /\ \A r \in 1..Slots :
             /\ DOMAIN child'[r] = {"st", "call", "medium", "ended", "ctrl"}
             /\ child'[r].st = child[r].st /\ child'[r].call = child[r].call
    BY <1>5, TellKeeps DEF SwitchToT38, SlotInv
  <2>2. calls' = [calls EXCEPT ![s] = IF child[s].st = "runs"
                                   THEN [@ EXCEPT !.t38 = TRUE, !.reinvite_cseq = m.cseq] ELSE @]
    BY <1>5 DEF SwitchToT38
  <2>3. Shape'
    BY <2>1, <2>2 DEF SlotInv, Shape
  <2>4. SameSlots
    BY <2>1, <2>2 DEF SlotInv, Shape, SameSlots
  <2>. QED BY <2>3, <2>4, <1>0, Kept
<1>6. ASSUME NEW s \in 1..Slots, HearHangup(m, s) PROVE SlotInv'
  <2>1. /\ DOMAIN child' = 1..Slots
        /\ \A r \in 1..Slots :
             /\ DOMAIN child'[r] = {"st", "call", "medium", "ended", "ctrl"}
             /\ child'[r].st = child[r].st /\ child'[r].call = child[r].call
    <3>1. CASE calls[s].peer_hung_up
      BY <1>6, <3>1 DEF HearHangup, SlotInv, Shape
    <3>2. CASE ~calls[s].peer_hung_up
      BY <1>6, <3>2, TellKeeps DEF HearHangup, SlotInv
    <3>. QED BY <3>1, <3>2
  <2>2. calls' = [calls EXCEPT ![s].peer_hung_up = TRUE]
    BY <1>6 DEF HearHangup
  <2>3. Shape'
    BY <2>1, <2>2 DEF SlotInv, Shape
  <2>4. SameSlots
    BY <2>1, <2>2 DEF SlotInv, Shape, SameSlots
  <2>. QED BY <2>3, <2>4, <1>0, Kept
<1>. QED BY <1>2, <1>3, <1>4, <1>5, <1>6 DEF daemon_dispatch

(* So does every step of the parent and of a child. *)
LEMMA DaemonStep ==
  ASSUME SlotInv, DaemonNext
  PROVE  SlotInv'
<1>1. ASSUME calls' = calls, child' = child, g_sigchld' = g_sigchld,
             pc' = pc \/ pc' \in {"reap", "shutdown"}
      PROVE  SlotInv'
  <2>1. Shape' /\ SameSlots
    BY <1>1 DEF SlotInv, Shape, SameSlots
  <2>. QED BY <2>1, <1>1, Kept
<1>2. CASE StartReaping
  <2>1. calls' = calls /\ child' = child /\ pc' = "reap"
    BY <1>2 DEF StartReaping
  <2>2. OneSlotPerCall' /\ Shape'
    BY <2>1 DEF SlotInv, OneSlotPerCall, Active, Shape
  <2>3. NoLostChild'
    BY <2>1 DEF NoLostChild
  <2>. QED BY <2>2, <2>3 DEF SlotInv
<1>3. CASE ReapingDone
  <2>1. calls' = calls /\ child' = child /\ \A s \in 1..Slots : child[s].st # "zombie"
    BY <1>3 DEF ReapingDone
  <2>2. OneSlotPerCall' /\ Shape'
    BY <2>1 DEF SlotInv, OneSlotPerCall, Active, Shape
  <2>3. NoLostChild'
    BY <2>1 DEF NoLostChild
  <2>. QED BY <2>2, <2>3 DEF SlotInv
<1>4. ASSUME NEW s \in 1..Slots, ReapOne(s) \/ WaitForChild(s) PROVE SlotInv'
  BY <1>4, FreeStep DEF ReapOne, WaitForChild
<1>5. CASE StartShutdown
  <2>1. /\ calls' = calls /\ pc' = "shutdown" /\ g_sigchld' = g_sigchld
        /\ child' = [s \in 1..Slots |-> [child[s] EXCEPT !.ctrl =
                 IF child[s].st = "runs" THEN Append(@, "STOP") ELSE @]]
    BY <1>5 DEF StartShutdown
  <2>2. Shape'
    BY <2>1 DEF SlotInv, Shape
  <2>3. SameSlots
    BY <2>1 DEF SlotInv, Shape, SameSlots
  <2>. QED BY <2>1, <2>2, <2>3, Kept
<1>6. ASSUME NEW m \in net, daemon_dispatch(m) PROVE SlotInv'
  BY <1>6, DispatchStep
<1>7. ASSUME NEW s \in 1..Slots, ReadControl(s) PROVE SlotInv'
  <2>1. calls' = calls /\ pc' = pc /\ g_sigchld' = g_sigchld
    BY <1>7 DEF ReadControl
  <2>2. \A r \in 1..Slots : r # s => child'[r] = child[r]
    BY <1>7 DEF ReadControl, SlotInv, Shape
  <2>3. /\ DOMAIN child' = 1..Slots
        /\ DOMAIN child'[s] = {"st", "call", "medium", "ended", "ctrl"}
        /\ child'[s].st = child[s].st /\ child'[s].call = child[s].call
    BY <1>7 DEF ReadControl, SlotInv, Shape
  <2>4. Shape' /\ SameSlots
    BY <2>1, <2>2, <2>3 DEF SlotInv, Shape, SameSlots
  <2>. QED BY <2>1, <2>4, Kept
<1>8. ASSUME NEW s \in 1..Slots, ChildExits(s) PROVE SlotInv'
  <2>1. calls' = calls /\ g_sigchld' = TRUE /\ child[s].st = "runs"
        /\ child' = [child EXCEPT ![s].st = "zombie"]
    BY <1>8 DEF ChildExits
  <2>2. /\ Shape' /\ Active' = Active
        /\ child'[s].st = "zombie" /\ child'[s].call = child[s].call
        /\ \A r \in 1..Slots : r # s => child'[r] = child[r]
    BY <2>1 DEF SlotInv, Shape, Active
  <2>3. \A r \in Active : r \in 1..Slots
    BY DEF Active
  <2>4. OneSlotPerCall'
    BY <2>1, <2>2, <2>3 DEF SlotInv, OneSlotPerCall
  <2>5. NoLostChild'
    BY <2>1 DEF NoLostChild
  <2>. QED BY <2>2, <2>4, <2>5 DEF SlotInv
<1>. QED BY <1>2, <1>3, <1>4, <1>5, <1>6, <1>7, <1>8 DEF DaemonNext, ParentStep

(* The invariant holds before the first call. *)
LEMMA SlotInit ==
  ASSUME Init PROVE SlotInv
<1>1. /\ calls = [s \in 1..Slots |-> FreedSlot] /\ child = [s \in 1..Slots |-> NoChild]
  BY DEF Init, DaemonInit
<1>2. Active = {} /\ \A s \in 1..Slots : child[s].st = "none"
  BY <1>1 DEF Active, FreedSlot, NoChild
<1>3. Shape
  BY <1>1 DEF Shape, FreedSlot, NoChild
<1>. QED BY <1>2, <1>3 DEF SlotInv, OneSlotPerCall, NoLostChild

(* The dialers and the gateway touch neither table nor children. *)
LEMMA SlotStep == SlotInv /\ [Next]_vars => SlotInv'
<1>1. ASSUME SlotInv, UNCHANGED daemonVars PROVE SlotInv'
  BY <1>1 DEF SlotInv, Shape, OneSlotPerCall, NoLostChild, Active, daemonVars
<1>2. ASSUME SlotInv, UaActs PROVE SlotInv'
  BY <1>1, <1>2 DEF UaActs
<1>3. ASSUME SlotInv, DaemonActs PROVE SlotInv'
  BY <1>3, DaemonStep DEF DaemonActs
<1>4. ASSUME SlotInv, GatewayActs PROVE SlotInv'
  BY <1>1, <1>4 DEF GatewayActs
<1>5. ASSUME SlotInv, UNCHANGED vars PROVE SlotInv'
  BY <1>1, <1>5 DEF vars
<1>. QED BY <1>2, <1>3, <1>4, <1>5 DEF Next

(* OneSlotPerCall: a call of the daemon has one slot, and a taken slot one  *)
(* child, of that call (dcall_find before daemon_accept, dcall_free), with  *)
(* any number of slots and callers and any repetition of their requests.    *)
THEOREM OneSlotPerCallCorrect == Spec => []OneSlotPerCall
<1>1. Init => SlotInv
  BY SlotInit
<1>2. SlotInv => OneSlotPerCall
  BY DEF SlotInv
<1>. QED BY <1>1, <1>2, SlotStep, PTL DEF Spec

(* NoLostChild: while a child waits to be collected, the flag its SIGCHLD   *)
(* raised is up or the parent is collecting (on_sigchld, run_daemon,        *)
(* daemon_reap), however the exits fall between the parent's steps.         *)
THEOREM NoLostChildCorrect == Spec => []NoLostChild
<1>1. Init => SlotInv
  BY SlotInit
<1>2. SlotInv => NoLostChild
  BY DEF SlotInv
<1>. QED BY <1>1, <1>2, SlotStep, PTL DEF Spec

-----------------------------------------------------------------------------
(***************************************************************************)
(* CallsInv: what a process of each state knows, what a datagram on its    *)
(* way means, and what a child can have been told.                         *)
(***************************************************************************)
Hangups == {"BYE", "CANCEL"}
Ends == Uas \cup {"daemon", "gateway"}

UaRecords ==
  [st : States \cup {"waiting", "acking"}, call : Dialers \cup {NoCall}, cseq : 0..5,
   prov : BOOLEAN, sends : 0..2, auths : 0..2, hung : BOOLEAN, answered : BOOLEAN,
   unusable : BOOLEAN]

Datagrams ==
  [to : Ends, from : Ends, call : Dialers, method : {"INVITE", "ACK"} \cup Hangups,
   code : {0, 180, 200, 407, 486, 487, 488}, cseq : Nat, sdp : {"none", "audio", "t38"},
   copy : Nat]

SlotRecords ==
  [active : BOOLEAN, call : Dialers \cup {NoCall}, invite_cseq : Nat, peer_hung_up : BOOLEAN,
   t38 : BOOLEAN, reinvite_cseq : Nat]

ChildRecords ==
  [st : {"none", "runs", "zombie"}, call : Dialers \cup {NoCall}, medium : {"audio", "t38"},
   ended : BOOLEAN, ctrl : Seq({"T38", "STOP"})]

(* The dialer of the call has hung up, or cancelled, among what was said. *)
HungUpBy(call, said) == \E method \in Hangups : <<call, call, method>> \in said

(* What holds of dialer d in state u. *)
DialerOK(d, u, said) ==
  /\ u \in UaRecords /\ u.st \in States
  /\ u.st # "idle" => u.call = d
  /\ u.st = "calling" => u.cseq = u.auths + 1
  /\ u.st \in {"cancelling", "connected"} => u.cseq <= 3
  /\ u.st = "offering" => u.auths <= 1 /\ u.cseq <= 4 + u.auths
  /\ u.st \in {"idle", "calling", "cancelling"} => ~u.answered
  /\ u.answered /\ ~u.unusable /\ u.st \in {"bye", "exit"} => u.hung \/ <<d, d, "BYE">> \in said
  /\ HungUpBy(d, said) => u.st \in {"cancelling", "bye", "exit"}

AnswererOK(u) ==
  /\ u \in UaRecords /\ u.st \in {"waiting", "acking", "audio", "t38", "bye", "exit"}
  /\ u.st \in {"acking", "audio", "t38", "bye"} => u.call \in Dialers
  /\ callee = "daemon" => u.st = "waiting"

UasInv ==
  /\ DOMAIN ua = Uas /\ AnswererOK(ua["answerer"])
  /\ \A d \in Dialers : DialerOK(d, ua[d], byes)

(* A call that came up has a slot, was told BYE, or its dialer is leaving.  *)
Served(d) ==
  \/ ua[d].st \in {"cancelling", "bye", "exit"}
  \/ dcall_find(d) # {}
  \/ <<d, "daemon", "BYE">> \in byes

Talks(st) == st \in {"connected", "offering", "audio", "t38"}

ServedInv == callee = "daemon" => \A d \in Dialers : Talks(ua[d].st) => Served(d)

MailOK(m) ==
  /\ m.to = "daemon" /\ m.code = 0 /\ m.method \in Hangups =>
       <<m.call, m.call, m.method>> \in byes
  /\ callee = "daemon" =>
       /\ m.to \notin {"answerer", "gateway"}
       /\ m.to = "daemon" => m.from = m.call
       /\ m.to \in Dialers => m.call = m.to /\ m.from = "daemon"
       /\ m.to \in Dialers /\ m.code = 200 /\ m.sdp = "audio" => Served(m.to)

MailInv == net \subseteq Datagrams /\ \A m \in net : MailOK(m)

(* What a slot and its child, c and k, hold when said has been said.        *)
StopFor(c, said, p) == p = "shutdown" \/ HungUpBy(c.call, said)

One(b) == IF b THEN 1 ELSE 0

SlotOK(c, k, said, p) ==
  /\ c \in SlotRecords /\ k \in ChildRecords
  /\ c.active => c.call \in Dialers
  /\ c.peer_hung_up => HungUpBy(c.call, said)
  /\ k.medium = "t38" => c.t38
  /\ k.ended => StopFor(c, said, p)
  /\ \A i \in 1..Len(k.ctrl) : k.ctrl[i] = "STOP" => StopFor(c, said, p)
  /\ \A i \in 1..Len(k.ctrl) : k.ctrl[i] = "T38" =>
       /\ c.t38 /\ k.medium = "audio"
       /\ \A j \in 1..Len(k.ctrl) : k.ctrl[j] = "T38" => j = i
  /\ Len(k.ctrl) <= One(c.t38) + One(c.peer_hung_up) + One(p = "shutdown")

SlotsInv ==
  /\ DOMAIN calls = 1..Slots /\ DOMAIN child = 1..Slots
  /\ \A s \in 1..Slots : SlotOK(calls[s], child[s], byes, pc)
  /\ pc \in {"loop", "reap", "shutdown"} /\ g_sigchld \in BOOLEAN

SetupInv == callee \in {"daemon", "answerer", "gateway"} /\ callee_t38 \in BOOLEAN

CallsInv == SetupInv /\ UasInv /\ ServedInv /\ MailInv /\ SlotsInv

-----------------------------------------------------------------------------
(* Who is who. *)
LEMMA Names ==
  /\ "answerer" \notin Dialers /\ "daemon" \notin Dialers /\ "gateway" \notin Dialers
  /\ NoCall \notin Dialers /\ Dialers \subseteq Uas /\ "answerer" \in Uas
  /\ Uas \subseteq Ends /\ {"daemon", "gateway"} \subseteq Ends
  /\ Dialling \subseteq Dialers
<1>1. /\ "answerer" \notin Dialers /\ "daemon" \notin Dialers /\ "gateway" \notin Dialers
      /\ NoCall \notin Dialers
  BY SipUaAssumption DEF NoCall
<1>2. Dialling \subseteq Dialers
  BY SipUaAssumption DEF Dialling
<1>. QED BY <1>1, <1>2 DEF Uas, Ends

(* A request, and the response to one. *)
LEMMA RequestFields ==
  ASSUME NEW method \in {"INVITE", "ACK"} \cup Hangups, NEW call \in Dialers,
         NEW from \in Ends, NEW to \in Ends, NEW cseq \in Nat,
         NEW sdp \in {"none", "audio", "t38"}, NEW copy \in Nat
  PROVE  LET m == Request(method, call, from, to, cseq, sdp, copy) IN
         /\ m \in Datagrams /\ m.to = to /\ m.from = from /\ m.call = call
         /\ m.method = method /\ m.code = 0 /\ m.sdp = sdp
BY DEF Request, Datagrams

LEMMA ResponseFields ==
  ASSUME NEW req \in Datagrams, NEW code \in {180, 200, 407, 486, 487, 488},
         NEW sdp \in {"none", "audio", "t38"}
  PROVE  LET m == Response(req, code, sdp) IN
         /\ m \in Datagrams /\ m.to = req.from /\ m.from = req.to /\ m.call = req.call
         /\ m.method = req.method /\ m.code = code /\ m.sdp = sdp
<1>. DEFINE r1 == [req EXCEPT !.to = req.from]
            r2 == [r1 EXCEPT !.from = req.to]
            r3 == [r2 EXCEPT !.code = code]
            r4 == [r3 EXCEPT !.sdp = sdp]
<1>1. /\ r1 \in Datagrams /\ r1.to = req.from /\ r1.call = req.call /\ r1.method = req.method
  BY DEF Datagrams
<1>2. req.to \in Ends
  BY DEF Datagrams
<1>. HIDE DEF r1
<1>3. /\ r2 \in Datagrams /\ r2.to = req.from /\ r2.call = req.call /\ r2.method = req.method
      /\ r2.from = req.to
  BY <1>1, <1>2 DEF Datagrams
<1>. HIDE DEF r2
<1>4. /\ r3 \in Datagrams /\ r3.to = req.from /\ r3.call = req.call /\ r3.method = req.method
      /\ r3.from = req.to /\ r3.code = code
  BY <1>3 DEF Datagrams
<1>. HIDE DEF r3
<1>5. /\ r4 \in Datagrams /\ r4.to = req.from /\ r4.call = req.call /\ r4.method = req.method
      /\ r4.from = req.to /\ r4.code = code /\ r4.sdp = sdp
  BY <1>4 DEF Datagrams
<1>6. Response(req, code, sdp) = r4
  BY DEF Response, r1, r2, r3
<1>. HIDE DEF r4
<1>. QED BY <1>5, <1>6

(* A new process has the fields a fresh one has, one that has left keeps     *)
(* four.                                                                     *)
LEMMA FreshFields ==
  ASSUME NEW state \in States \cup {"waiting", "acking"}
  PROVE  LET u == NewUa(state) IN
         /\ u \in UaRecords /\ u.st = state /\ u.call = NoCall /\ u.cseq = 0 /\ u.auths = 0
         /\ u.sends = 0 /\ u.prov = FALSE /\ u.hung = FALSE /\ u.answered = FALSE
         /\ u.unusable = FALSE
<1>1. NewUa(state) \in UaRecords
  BY DEF NewUa, UaRecords
<1>. QED BY <1>1 DEF NewUa

LEMMA GoneFields ==
  ASSUME NEW u, ua[u] \in UaRecords
  PROVE  /\ Gone(u) \in UaRecords /\ Gone(u).st = "exit" /\ Gone(u).call = ua[u].call
         /\ Gone(u).hung = ua[u].hung /\ Gone(u).answered = ua[u].answered
         /\ Gone(u).unusable = ua[u].unusable /\ Gone(u).cseq = 0 /\ Gone(u).auths = 0
<1>1. /\ ua[u].call \in Dialers \cup {NoCall} /\ ua[u].hung \in BOOLEAN
      /\ ua[u].answered \in BOOLEAN /\ ua[u].unusable \in BOOLEAN
  BY DEF UaRecords
<1>. DEFINE g0 == NewUa("exit")
            g1 == [g0 EXCEPT !.call = ua[u].call]
            g2 == [g1 EXCEPT !.hung = ua[u].hung]
            g3 == [g2 EXCEPT !.answered = ua[u].answered]
            g4 == [g3 EXCEPT !.unusable = ua[u].unusable]
<1>2. g0 \in UaRecords /\ g0.st = "exit" /\ g0.cseq = 0 /\ g0.auths = 0
  BY FreshFields DEF States
<1>. HIDE DEF g0
<1>3. g1 \in UaRecords /\ g1.st = "exit" /\ g1.cseq = 0 /\ g1.auths = 0 /\ g1.call = ua[u].call
  BY <1>1, <1>2 DEF UaRecords
<1>. HIDE DEF g1
<1>4. /\ g2 \in UaRecords /\ g2.st = "exit" /\ g2.cseq = 0 /\ g2.auths = 0 /\ g2.call = ua[u].call
      /\ g2.hung = ua[u].hung
  BY <1>1, <1>3 DEF UaRecords
<1>. HIDE DEF g2
<1>5. /\ g3 \in UaRecords /\ g3.st = "exit" /\ g3.cseq = 0 /\ g3.auths = 0 /\ g3.call = ua[u].call
      /\ g3.hung = ua[u].hung /\ g3.answered = ua[u].answered
  BY <1>1, <1>4 DEF UaRecords
<1>. HIDE DEF g3
<1>6. /\ g4 \in UaRecords /\ g4.st = "exit" /\ g4.cseq = 0 /\ g4.auths = 0 /\ g4.call = ua[u].call
      /\ g4.hung = ua[u].hung /\ g4.answered = ua[u].answered /\ g4.unusable = ua[u].unusable
  BY <1>1, <1>5 DEF UaRecords
<1>7. Gone(u) = g4
  BY DEF Gone, g0, g1, g2, g3
<1>. HIDE DEF g4
<1>. QED BY <1>6, <1>7

(* Only what was on its way or is sent can arrive. *)
LEMMA Exchanged ==
  ASSUME NEW used, NEW sent, Exchange(used, sent)
  PROVE  net' \subseteq net \cup sent
BY DEF Exchange

-----------------------------------------------------------------------------
(* More is said, and the setup stays: what was known of datagrams is still   *)
(* true unless a call loses its slot.                                        *)
LEMMA MailKept ==
  ASSUME UNCHANGED setup, byes \subseteq byes', NEW sent, net' \subseteq net \cup sent,
         callee = "daemon" => \A d \in Dialers : Served(d) => Served(d)',
         MailInv, sent \subseteq Datagrams, \A m \in sent : MailOK(m)'
  PROVE  MailInv'
<1>1. ASSUME NEW m, MailOK(m) PROVE MailOK(m)'
  <2>1. callee' = callee
    BY DEF setup
  <2>2. (m.to = "daemon" /\ m.code = 0 /\ m.method \in Hangups) =>
           <<m.call, m.call, m.method>> \in byes'
    BY <1>1 DEF MailOK
  <2>. QED BY <1>1, <2>1, <2>2 DEF MailOK
<1>. QED BY <1>1 DEF MailInv

(* One process acts, and says what it may. *)
UaFrame == UNCHANGED <<setup, daemonVars>>

Leaving(st) == st \in {"cancelling", "bye", "exit"}

SaidBy(d) == byes' = byes \/ \E method \in Hangups : byes' = byes \cup {<<d, d, method>>}

Sends(sent) ==
  net' \subseteq net \cup sent /\ sent \subseteq Datagrams /\ \A m \in sent : MailOK(m)'

(* A dialer that changes as DialerOK allows. *)
LEMMA DialerChanges ==
  ASSUME CallsInv, NEW d \in Dialers, NEW u, ua' = [ua EXCEPT ![d] = u],
         UaFrame, SaidBy(d), DialerOK(d, u, byes'),
         Leaving(ua[d].st) => Leaving(u.st), callee = "daemon" /\ Talks(u.st) => Served(d),
         NEW sent, Sends(sent)
  PROVE  CallsInv'
<1>1. /\ callee' = callee /\ callee_t38' = callee_t38 /\ calls' = calls /\ child' = child
      /\ pc' = pc /\ g_sigchld' = g_sigchld /\ byes \subseteq byes'
      /\ Dialers \subseteq Uas /\ "answerer" \in Uas /\ "answerer" # d
  BY Names DEF UaFrame, setup, daemonVars, SaidBy
<1>2. /\ DOMAIN ua = Uas /\ DOMAIN ua' = Uas /\ ua'[d] = u
      /\ \A e \in Uas : e # d => ua'[e] = ua[e]
  BY <1>1 DEF CallsInv, UasInv
<1>3. SetupInv'
  BY <1>1 DEF CallsInv, SetupInv
<1>4. UasInv'
  <2>1. AnswererOK(ua["answerer"])'
    BY <1>1, <1>2 DEF CallsInv, UasInv, AnswererOK
  <2>2. ASSUME NEW e \in Dialers PROVE DialerOK(e, ua'[e], byes')
    <3>1. CASE e = d
      BY <1>2, <3>1
    <3>2. CASE e # d
      <4>1. ua'[e] = ua[e] /\ DialerOK(e, ua[e], byes)
        BY <1>1, <1>2, <3>2 DEF CallsInv, UasInv
      <4>2. HungUpBy(e, byes') => HungUpBy(e, byes)
        BY <3>2 DEF HungUpBy, SaidBy
      <4>. QED BY <1>1, <4>1, <4>2 DEF DialerOK
    <3>. QED BY <3>1, <3>2
  <2>. QED BY <1>2, <2>1, <2>2 DEF UasInv
<1>5. ASSUME NEW e \in Dialers, Served(e) PROVE Served(e)'
  <2>1. dcall_find(e)' = dcall_find(e)
    BY <1>1 DEF dcall_find, Active
  <2>. QED BY <1>1, <1>2, <1>5, <2>1 DEF Served, Leaving
<1>6. ServedInv'
  BY <1>1, <1>2, <1>5 DEF CallsInv, ServedInv
<1>7. MailInv'
  BY <1>1, <1>5, MailKept DEF CallsInv, Sends, UaFrame
<1>8. SlotsInv'
  <2>1. ASSUME NEW s \in 1..Slots PROVE SlotOK(calls[s], child[s], byes', pc)
    <3>1. SlotOK(calls[s], child[s], byes, pc)
      BY DEF CallsInv, SlotsInv
    <3>2. HungUpBy(calls[s].call, byes) => HungUpBy(calls[s].call, byes')
      BY <1>1 DEF HungUpBy
    <3>. QED BY <3>1, <3>2 DEF SlotOK, StopFor
  <2>. QED BY <1>1, <2>1 DEF CallsInv, SlotsInv
<1>. QED BY <1>3, <1>4, <1>6, <1>7, <1>8 DEF CallsInv

(* The answerer changes as AnswererOK allows. *)
LEMMA AnswererChanges ==
  ASSUME CallsInv, NEW u, ua' = [ua EXCEPT !["answerer"] = u],
         UaFrame, byes' = byes \/ \E call, method : byes' = byes \cup {<<call, "answerer", method>>},
         AnswererOK(u), NEW sent, Sends(sent)
  PROVE  CallsInv'
<1>1. /\ callee' = callee /\ callee_t38' = callee_t38 /\ calls' = calls /\ child' = child
      /\ pc' = pc /\ g_sigchld' = g_sigchld /\ byes \subseteq byes'
      /\ Dialers \subseteq Uas /\ "answerer" \in Uas /\ "answerer" \notin Dialers
  BY Names DEF UaFrame, setup, daemonVars
<1>2. /\ DOMAIN ua = Uas /\ DOMAIN ua' = Uas /\ ua'["answerer"] = u
      /\ \A e \in Dialers : ua'[e] = ua[e]
  BY <1>1 DEF CallsInv, UasInv
<1>3. SetupInv'
  BY <1>1 DEF CallsInv, SetupInv
<1>4. \A d : HungUpBy(d, byes) => HungUpBy(d, byes')
  BY <1>1 DEF HungUpBy
<1>5. UasInv'
  <2>1. AnswererOK(ua["answerer"])'
    BY <1>1, <1>2 DEF AnswererOK
  <2>2. ASSUME NEW e \in Dialers PROVE DialerOK(e, ua'[e], byes')
    <3>1. ua'[e] = ua[e] /\ DialerOK(e, ua[e], byes)
      BY <1>2 DEF CallsInv, UasInv
    <3>2. HungUpBy(e, byes') => HungUpBy(e, byes)
      BY <1>1 DEF HungUpBy
    <3>. QED BY <1>1, <3>1, <3>2 DEF DialerOK
  <2>. QED BY <1>2, <2>1, <2>2 DEF UasInv
<1>6. ASSUME NEW e \in Dialers, Served(e) PROVE Served(e)'
  <2>1. dcall_find(e)' = dcall_find(e)
    BY <1>1 DEF dcall_find, Active
  <2>. QED BY <1>1, <1>2, <1>6, <2>1 DEF Served
<1>7. ServedInv'
  BY <1>1, <1>2, <1>6 DEF CallsInv, ServedInv
<1>8. MailInv'
  BY <1>1, <1>6, MailKept DEF CallsInv, Sends, UaFrame
<1>9. SlotsInv'
  <2>1. ASSUME NEW s \in 1..Slots PROVE SlotOK(calls[s], child[s], byes', pc)
    BY <1>4 DEF CallsInv, SlotsInv, SlotOK, StopFor
  <2>. QED BY <1>1, <2>1 DEF CallsInv, SlotsInv
<1>. QED BY <1>3, <1>5, <1>7, <1>8, <1>9 DEF CallsInv

-----------------------------------------------------------------------------
(* A slot stays right when more is said and when a shutdown begins. *)
LEMMA SlotLater ==
  ASSUME NEW c, NEW k, NEW said, NEW later, NEW p, NEW q, SlotOK(c, k, said, p),
         said \subseteq later, p = "shutdown" => q = "shutdown"
  PROVE  SlotOK(c, k, later, q)
<1>1. HungUpBy(c.call, said) => HungUpBy(c.call, later)
  BY DEF HungUpBy
<1>2. StopFor(c, said, p) => StopFor(c, later, q)
  BY <1>1 DEF StopFor
<1>3. /\ One(c.t38) \in {0, 1} /\ One(c.peer_hung_up) \in {0, 1}
      /\ One(p = "shutdown") \in {0, 1} /\ One(q = "shutdown") \in {0, 1}
      /\ One(p = "shutdown") <= One(q = "shutdown")
  BY DEF One
<1>4. Len(k.ctrl) \in Nat
  BY DEF SlotOK, ChildRecords
<1>5. Len(k.ctrl) <= One(c.t38) + One(c.peer_hung_up) + One(p = "shutdown")
  BY DEF SlotOK
<1>6. Len(k.ctrl) <= One(c.t38) + One(c.peer_hung_up) + One(q = "shutdown")
  BY <1>3, <1>4, <1>5
<1>. QED BY <1>1, <1>2, <1>6 DEF SlotOK

(* One more word for the child. *)
LEMMA CtrlAppended ==
  ASSUME NEW q \in Seq({"T38", "STOP"}), NEW w \in {"T38", "STOP"}
  PROVE  /\ Append(q, w) \in Seq({"T38", "STOP"}) /\ Len(Append(q, w)) = Len(q) + 1
         /\ Append(q, w)[Len(q) + 1] = w /\ Len(q) \in Nat
         /\ \A i \in 1..Len(q) : Append(q, w)[i] = q[i]
         /\ \A i \in 1..Len(Append(q, w)) : i \in 1..Len(q) \/ i = Len(q) + 1
  OBVIOUS

(* The processes stay as they are, and no dialer hangs up. *)
LEMMA OthersChange ==
  ASSUME CallsInv, UNCHANGED <<ua, setup>>, byes \subseteq byes',
         \A d \in Dialers : HungUpBy(d, byes') => HungUpBy(d, byes),
         DOMAIN calls' = 1..Slots, DOMAIN child' = 1..Slots,
         pc' \in {"loop", "reap", "shutdown"}, g_sigchld' \in BOOLEAN,
         \A s \in 1..Slots : SlotOK(calls'[s], child'[s], byes', pc'),
         \A d \in Dialers : Served(d) => Served(d)',
         NEW sent, net' \subseteq net \cup sent,
         sent \subseteq Datagrams, \A m \in sent : MailOK(m)'
  PROVE  CallsInv'
<1>1. callee' = callee /\ callee_t38' = callee_t38 /\ ua' = ua
  BY DEF setup
<1>2. SetupInv'
  BY <1>1 DEF CallsInv, SetupInv
<1>3. UasInv'
  <2>1. AnswererOK(ua["answerer"])'
    BY <1>1 DEF CallsInv, UasInv, AnswererOK
  <2>2. \A d \in Dialers : DialerOK(d, ua[d], byes')
    BY DEF CallsInv, UasInv, DialerOK
  <2>. QED BY <1>1, <2>1, <2>2 DEF CallsInv, UasInv
<1>4. ServedInv'
  BY <1>1 DEF CallsInv, ServedInv
<1>5. MailInv'
  BY <1>1, MailKept DEF CallsInv
<1>6. SlotsInv'
  BY DEF SlotsInv
<1>. QED BY <1>2, <1>3, <1>4, <1>5, <1>6 DEF CallsInv

(* ... as when the daemon and its children act. *)
LEMMA DaemonChanges ==
  ASSUME CallsInv, UNCHANGED <<ua, setup>>, NEW gone \in SUBSET Dialers, DaemonSays(gone),
         DOMAIN calls' = 1..Slots, DOMAIN child' = 1..Slots,
         pc' \in {"loop", "reap", "shutdown"}, g_sigchld' \in BOOLEAN,
         \A s \in 1..Slots : SlotOK(calls'[s], child'[s], byes', pc'),
         \A d \in Dialers : Served(d) => Served(d)',
         NEW sent, net' \subseteq net \cup sent,
         sent \subseteq Datagrams, \A m \in sent : MailOK(m)'
  PROVE  CallsInv'
<1>1. byes \subseteq byes' /\ "daemon" \notin Dialers
  BY Names DEF DaemonSays
<1>2. \A d \in Dialers : HungUpBy(d, byes') => HungUpBy(d, byes)
  BY <1>1 DEF HungUpBy, DaemonSays
<1>. QED BY <1>1, <1>2, OthersChange

(* No call loses its slot: a dialer served so far still is. *)
LEMMA ServedStays ==
  ASSUME UNCHANGED ua, byes \subseteq byes', NEW d, Served(d),
         \A s \in Active : s \in Active' /\ calls'[s].call = calls[s].call
  PROVE  Served(d)'
<1>1. dcall_find(d) \subseteq dcall_find(d)'
  BY DEF dcall_find
<1>. QED BY <1>1 DEF Served

(* What a datagram to the daemon is, and what the daemon may answer it. *)
LEMMA DaemonReplies ==
  ASSUME CallsInv, NEW m \in net, m.to = "daemon", UNCHANGED setup,
         NEW code \in {180, 200, 407, 486, 487, 488}, NEW sdp \in {"none", "audio", "t38"},
         code = 200 /\ sdp = "audio" => Served(m.call)'
  PROVE  Response(m, code, sdp) \in Datagrams /\ MailOK(Response(m, code, sdp))'
<1>1. m \in Datagrams /\ MailOK(m) /\ m.call \in Dialers /\ callee' = callee
  BY DEF CallsInv, MailInv, Datagrams, setup
<1>. DEFINE r == Response(m, code, sdp)
<1>2. /\ r \in Datagrams /\ r.to = m.from /\ r.from = m.to /\ r.call = m.call
      /\ r.code = code /\ r.sdp = sdp
  BY <1>1, ResponseFields
<1>. HIDE DEF r
<1>3. callee = "daemon" => m.from = m.call
  BY <1>1 DEF MailOK
<1>4. MailOK(r)'
  <2>1. r.code # 0
    BY <1>2
  <2>2. callee = "daemon" => r.to \in Dialers /\ r.to = m.call
    BY <1>1, <1>2, <1>3
  <2>. QED BY <1>1, <1>2, <2>1, <2>2, Names DEF MailOK
<1>. QED BY <1>2, <1>4 DEF r

LEMMA DaemonByes ==
  ASSUME NEW call \in Dialers, UNCHANGED setup
  PROVE  DaemonBye(call) \in Datagrams /\ MailOK(DaemonBye(call))'
<1>. DEFINE b == DaemonBye(call)
<1>1. /\ b \in Datagrams /\ b.to = call /\ b.from = "daemon" /\ b.call = call /\ b.code = 0
  BY Names, RequestFields DEF DaemonBye, Hangups
<1>. HIDE DEF b
<1>2. MailOK(b)'
  BY <1>1, Names DEF MailOK
<1>. QED BY <1>1, <1>2 DEF b

-----------------------------------------------------------------------------
(* daemon_dispatch: the branches that leave table and children alone. *)
LEMMA OnlyReplies ==
  ASSUME CallsInv, NEW m \in net, m.to = "daemon",
         UNCHANGED <<ua, setup, calls, child, pc, g_sigchld>>,
         NEW gone \in SUBSET Dialers, DaemonSays(gone),
         NEW sent, Exchange({m}, sent), sent \subseteq Datagrams, \A r \in sent : MailOK(r)'
  PROVE  CallsInv'
<1>1. byes \subseteq byes' /\ net' \subseteq net \cup sent
  BY Exchanged DEF DaemonSays
<1>2. \A s \in 1..Slots : SlotOK(calls'[s], child'[s], byes', pc')
  BY <1>1, SlotLater DEF CallsInv, SlotsInv
<1>3. /\ DOMAIN calls' = 1..Slots /\ DOMAIN child' = 1..Slots
      /\ pc' \in {"loop", "reap", "shutdown"} /\ g_sigchld' \in BOOLEAN
  BY DEF CallsInv, SlotsInv
<1>4. \A d \in Dialers : Served(d) => Served(d)'
  BY <1>1, ServedStays DEF Active
<1>. QED BY <1>1, <1>2, <1>3, <1>4, DaemonChanges

LEMMA NothingSaid ==
  ASSUME UNCHANGED byes PROVE DaemonSays({})
BY DEF DaemonSays

(* A table changes at one slot. *)
SetsAt(new, old, s, x) ==
  /\ DOMAIN new = 1..Slots /\ new[s] = x
  /\ \A r \in 1..Slots : r # s => new[r] = old[r]

LEMMA ExceptSets ==
  ASSUME NEW old, NEW new, NEW x, NEW s \in 1..Slots, DOMAIN old = 1..Slots,
         new = [old EXCEPT ![s] = x]
  PROVE  SetsAt(new, old, s, x)
BY DEF SetsAt

(* ... and those that change one slot. *)
LEMMA OneSlotChanges ==
  ASSUME CallsInv, NEW m \in net, m.to = "daemon",
         UNCHANGED <<ua, setup, pc, g_sigchld, byes>>, NEW s \in 1..Slots,
         NEW c, NEW k, SetsAt(calls', calls, s, c), SetsAt(child', child, s, k),
         SlotOK(c, k, byes, pc), calls[s].active => c.active /\ c.call = calls[s].call,
         NEW sent, Exchange({m}, sent), sent \subseteq Datagrams, \A r \in sent : MailOK(r)'
  PROVE  CallsInv'
<1>1. DaemonSays({}) /\ {} \in SUBSET Dialers /\ byes \subseteq byes' /\ net' \subseteq net \cup sent
  BY NothingSaid, Exchanged
<1>2. /\ DOMAIN calls' = 1..Slots /\ DOMAIN child' = 1..Slots
      /\ calls'[s] = c /\ child'[s] = k
      /\ \A r \in 1..Slots : r # s => calls'[r] = calls[r] /\ child'[r] = child[r]
      /\ pc' \in {"loop", "reap", "shutdown"} /\ g_sigchld' \in BOOLEAN
  BY DEF CallsInv, SlotsInv, SetsAt
<1>3. \A r \in 1..Slots : SlotOK(calls'[r], child'[r], byes', pc')
  BY <1>2 DEF CallsInv, SlotsInv
<1>4. \A r \in Active : r \in Active' /\ calls'[r].call = calls[r].call
  BY <1>2 DEF Active
<1>5. \A d \in Dialers : Served(d) => Served(d)'
  BY <1>1, <1>4, ServedStays
<1>. QED BY <1>1, <1>2, <1>3, <1>5, DaemonChanges

(* A call that was found has a slot. *)
LEMMA FoundServed ==
  ASSUME UNCHANGED ua, NEW d, dcall_find(d)' # {} PROVE Served(d)'
BY DEF Served

(* What a child starts with. *)
LEMMA NoChildFields ==
  /\ NoChild \in ChildRecords /\ NoChild.medium = "audio" /\ NoChild.ended = FALSE
  /\ NoChild.ctrl = <<>> /\ NoChild.st = "none"
BY DEF NoChild, ChildRecords

LEMMA NewChildFields ==
  ASSUME NEW call \in Dialers
  PROVE  /\ NewChild(call) \in ChildRecords /\ NewChild(call).medium = "audio"
         /\ NewChild(call).ended = FALSE /\ NewChild(call).ctrl = <<>>
<1>. DEFINE k0 == NoChild
            k1 == [k0 EXCEPT !.st = "runs"]
            k2 == [k1 EXCEPT !.call = call]
<1>1. k0 \in ChildRecords /\ k0.medium = "audio" /\ k0.ended = FALSE /\ k0.ctrl = <<>>
  BY NoChildFields
<1>. HIDE DEF k0
<1>2. k1 \in ChildRecords /\ k1.medium = "audio" /\ k1.ended = FALSE /\ k1.ctrl = <<>>
  BY <1>1 DEF ChildRecords
<1>. HIDE DEF k1
<1>3. k2 \in ChildRecords /\ k2.medium = "audio" /\ k2.ended = FALSE /\ k2.ctrl = <<>>
  BY <1>2 DEF ChildRecords
<1>4. NewChild(call) = k2
  BY DEF NewChild, k0, k1
<1>. HIDE DEF k2
<1>. QED BY <1>3, <1>4

(* daemon_accept *)
LEMMA AcceptInviteCalls ==
  ASSUME CallsInv, NEW m \in net, m.to = "daemon", UNCHANGED <<ua, setup, pc, g_sigchld>>,
         NEW s \in 1..Slots, AcceptInvite(m, s)
  PROVE  CallsInv'
<1>. DEFINE c == [calls[s] EXCEPT !.active = TRUE, !.call = m.call,
                                  !.invite_cseq = m.cseq, !.peer_hung_up = FALSE]
            k == NewChild(m.call)
<1>1. /\ calls' = [calls EXCEPT ![s] = c] /\ child' = [child EXCEPT ![s] = k]
      /\ s \in dcall_free_slot /\ byes' = byes /\ Exchange({m}, Answers(m))
  BY DEF AcceptInvite
<1>2. m.call \in Dialers /\ m.cseq \in Nat /\ calls[s] \in SlotRecords
  BY DEF CallsInv, MailInv, Datagrams, SlotsInv, SlotOK
<1>3. /\ c \in SlotRecords /\ c.active = TRUE /\ c.call = m.call /\ c.peer_hung_up = FALSE
      /\ c.t38 \in BOOLEAN
  <2>. DEFINE c1 == [calls[s] EXCEPT !.active = TRUE]
              c2 == [c1 EXCEPT !.call = m.call]
              c3 == [c2 EXCEPT !.invite_cseq = m.cseq]
  <2>1. c1 \in SlotRecords /\ c1.active = TRUE
    BY <1>2 DEF SlotRecords
  <2>. HIDE DEF c1
  <2>2. c2 \in SlotRecords /\ c2.active = TRUE /\ c2.call = m.call
    BY <1>2, <2>1 DEF SlotRecords
  <2>. HIDE DEF c2
  <2>3. c3 \in SlotRecords /\ c3.active = TRUE /\ c3.call = m.call
    BY <1>2, <2>2 DEF SlotRecords
  <2>. HIDE DEF c3
  <2>4. /\ [c3 EXCEPT !.peer_hung_up = FALSE] \in SlotRecords
        /\ [c3 EXCEPT !.peer_hung_up = FALSE].active = TRUE
        /\ [c3 EXCEPT !.peer_hung_up = FALSE].call = m.call
        /\ [c3 EXCEPT !.peer_hung_up = FALSE].peer_hung_up = FALSE
        /\ [c3 EXCEPT !.peer_hung_up = FALSE].t38 \in BOOLEAN
    BY <2>3 DEF SlotRecords
  <2>. QED BY <2>4 DEF c1, c2, c3
<1>5. k \in ChildRecords /\ k.medium = "audio" /\ k.ended = FALSE /\ k.ctrl = <<>>
  BY <1>2, NewChildFields
<1>. HIDE DEF c, k
<1>6. SlotOK(c, k, byes, pc)
  <2>1. Len(k.ctrl) = 0 /\ \A i \in 1..Len(k.ctrl) : FALSE
    BY <1>5
  <2>2. /\ One(c.t38) \in {0, 1} /\ One(c.peer_hung_up) \in {0, 1}
        /\ One(pc = "shutdown") \in {0, 1}
    BY DEF One
  <2>3. Len(k.ctrl) <= One(c.t38) + One(c.peer_hung_up) + One(pc = "shutdown")
    BY <2>1, <2>2
  <2>. QED BY <1>2, <1>3, <1>5, <2>1, <2>3 DEF SlotOK
<1>7. ~calls[s].active
  BY <1>1 DEF dcall_free_slot, Active
<1>8. Served(m.call)'
  <2>1. DOMAIN calls = 1..Slots
    BY DEF CallsInv, SlotsInv
  <2>2. calls'[s] = c
    BY <1>1, <2>1
  <2>3. s \in dcall_find(m.call)'
    BY <1>3, <2>2 DEF dcall_find, Active
  <2>. QED BY <2>3, FoundServed
<1>9. Answers(m) \subseteq Datagrams /\ \A r \in Answers(m) : MailOK(r)'
  BY <1>8, DaemonReplies DEF Answers
<1>10. SetsAt(calls', calls, s, c) /\ SetsAt(child', child, s, k)
  BY <1>1, ExceptSets DEF CallsInv, SlotsInv
<1>. QED BY <1>1, <1>6, <1>7, <1>9, <1>10, OneSlotChanges

LEMMA AcceptFailsCalls ==
  ASSUME CallsInv, NEW m \in net, m.to = "daemon", UNCHANGED <<ua, setup, pc, g_sigchld>>,
         AcceptFails(m)
  PROVE  CallsInv'
<1>1. /\ UNCHANGED <<calls, child>> /\ DaemonSays({m.call})
      /\ Exchange({m}, Answers(m) \cup {DaemonBye(m.call)})
  BY DEF AcceptFails
<1>2. m.call \in Dialers
  BY DEF CallsInv, MailInv, Datagrams
<1>3. Served(m.call)'
  BY <1>1 DEF DaemonSays, Served
<1>4. Answers(m) \subseteq Datagrams /\ \A r \in Answers(m) : MailOK(r)'
  BY <1>3, DaemonReplies DEF Answers
<1>5. DaemonBye(m.call) \in Datagrams /\ MailOK(DaemonBye(m.call))'
  BY <1>2, DaemonByes
<1>. QED BY <1>1, <1>2, <1>4, <1>5, OnlyReplies

(* The branches that answer only. *)
LEMMA RepliesCalls ==
  ASSUME CallsInv, NEW m \in net, m.to = "daemon", UNCHANGED <<ua, setup, pc, g_sigchld>>,
         \/ IgnoreMessage(m) \/ RefuseInvite(m)
         \/ \E s \in 1..Slots :
              RepeatedInvite(m, s) \/ RepeatedReinvite(m, s) \/ DeclineReinvite(m, s)
  PROVE  CallsInv'
<1>1. UNCHANGED <<calls, child, byes>>
  BY DEF IgnoreMessage, RefuseInvite, RepeatedInvite, RepeatedReinvite, DeclineReinvite
<1>2. DaemonSays({}) /\ {} \in SUBSET Dialers
  BY <1>1, NothingSaid
<1>3. ASSUME NEW code \in {486, 488, 200}, NEW sdp \in {"none", "audio", "t38"},
             code = 200 /\ sdp = "audio" => Served(m.call)',
             Exchange({m}, {Response(m, code, sdp)})
      PROVE  CallsInv'
  <2>1. Response(m, code, sdp) \in Datagrams /\ MailOK(Response(m, code, sdp))'
    BY <1>3, DaemonReplies
  <2>. QED BY <1>1, <1>2, <1>3, <2>1, OnlyReplies
<1>4. ASSUME Exchange({m}, {}) PROVE CallsInv'
  BY <1>1, <1>2, <1>4, OnlyReplies
<1>5. CASE IgnoreMessage(m)
  BY <1>4, <1>5 DEF IgnoreMessage
<1>6. CASE RefuseInvite(m)
  BY <1>3, <1>4, <1>6 DEF RefuseInvite
<1>7. ASSUME NEW s \in 1..Slots, RepeatedInvite(m, s) PROVE CallsInv'
  <2>1. s \in dcall_find(m.call)'
    BY <1>1, <1>7 DEF RepeatedInvite, dcall_find, Active
  <2>2. Served(m.call)'
    BY <2>1, FoundServed
  <2>. QED BY <1>3, <1>7, <2>2 DEF RepeatedInvite
<1>8. ASSUME NEW s \in 1..Slots, RepeatedReinvite(m, s) PROVE CallsInv'
  BY <1>3, <1>8 DEF RepeatedReinvite
<1>9. ASSUME NEW s \in 1..Slots, DeclineReinvite(m, s) PROVE CallsInv'
  BY <1>3, <1>9 DEF DeclineReinvite
<1>. QED BY <1>5, <1>6, <1>7, <1>8, <1>9

(* dctl_send: the child's queue is one word longer, if there is a child. *)
LEMMA Told ==
  ASSUME SlotsInv, NEW s \in 1..Slots, NEW w \in {"T38", "STOP"}, Tell(s, w)
  PROVE  \E k \in ChildRecords :
           /\ child' = [child EXCEPT ![s] = k]
           /\ k.st = child[s].st /\ k.medium = child[s].medium /\ k.ended = child[s].ended
           /\ \/ k.ctrl = child[s].ctrl /\ child[s].st # "runs"
              \/ k.ctrl = Append(child[s].ctrl, w) /\ child[s].st = "runs"
<1>. DEFINE q == IF child[s].st = "runs" THEN Append(child[s].ctrl, w) ELSE child[s].ctrl
            k == [child[s] EXCEPT !.ctrl = q]
<1>1. child' = [child EXCEPT ![s] = k]
  BY DEF Tell
<1>2. child[s] \in ChildRecords
  BY DEF SlotsInv, SlotOK
<1>3. child[s].ctrl \in Seq({"T38", "STOP"})
  BY <1>2 DEF ChildRecords
<1>4. q \in Seq({"T38", "STOP"})
  BY <1>3, CtrlAppended
<1>5. /\ child[s].st = "runs" => q = Append(child[s].ctrl, w)
      /\ child[s].st # "runs" => q = child[s].ctrl
  OBVIOUS
<1>. HIDE DEF q
<1>6. /\ k \in ChildRecords /\ k.st = child[s].st /\ k.medium = child[s].medium
      /\ k.ended = child[s].ended /\ k.ctrl = q
  BY <1>2, <1>4 DEF ChildRecords
<1>. HIDE DEF k
<1>. QED BY <1>1, <1>5, <1>6

(* The first T38 a call gets: its queue holds none yet. *)
LEMMA SwitchToT38Calls ==
  ASSUME CallsInv, NEW m \in net, m.to = "daemon", UNCHANGED <<ua, setup, pc, g_sigchld>>,
         NEW s \in 1..Slots, SwitchToT38(m, s)
  PROVE  CallsInv'
<1>. DEFINE c == IF child[s].st = "runs"
                 THEN [calls[s] EXCEPT !.t38 = TRUE, !.reinvite_cseq = m.cseq] ELSE calls[s]
<1>1. /\ calls' = [calls EXCEPT ![s] = c] /\ Tell(s, "T38") /\ calls[s].t38 = FALSE
      /\ byes' = byes /\ Exchange({m}, {Response(m, 200, "t38")})
  BY DEF SwitchToT38, CallsInv, SlotsInv, SlotOK, SlotRecords
<1>2. SlotOK(calls[s], child[s], byes, pc) /\ m.cseq \in Nat
  BY DEF CallsInv, MailInv, Datagrams, SlotsInv
<1>3. PICK k \in ChildRecords :
           /\ child' = [child EXCEPT ![s] = k]
           /\ k.st = child[s].st /\ k.medium = child[s].medium /\ k.ended = child[s].ended
           /\ \/ k.ctrl = child[s].ctrl /\ child[s].st # "runs"
              \/ k.ctrl = Append(child[s].ctrl, "T38") /\ child[s].st = "runs"
  BY <1>1, Told DEF CallsInv
<1>4. /\ c \in SlotRecords /\ c.active = calls[s].active /\ c.call = calls[s].call
      /\ c.peer_hung_up = calls[s].peer_hung_up
      /\ child[s].st = "runs" => c.t38 = TRUE
      /\ child[s].st # "runs" => c = calls[s]
  <2>1. CASE child[s].st # "runs"
    BY <1>2, <2>1 DEF SlotOK
  <2>2. CASE child[s].st = "runs"
    <3>. DEFINE c1 == [calls[s] EXCEPT !.t38 = TRUE]
                c2 == [c1 EXCEPT !.reinvite_cseq = m.cseq]
    <3>1. /\ c1 \in SlotRecords /\ c1.active = calls[s].active /\ c1.call = calls[s].call
          /\ c1.peer_hung_up = calls[s].peer_hung_up /\ c1.t38 = TRUE
      BY <1>2 DEF SlotOK, SlotRecords
    <3>. HIDE DEF c1
    <3>2. /\ c2 \in SlotRecords /\ c2.active = calls[s].active /\ c2.call = calls[s].call
          /\ c2.peer_hung_up = calls[s].peer_hung_up /\ c2.t38 = TRUE
      BY <1>2, <3>1 DEF SlotRecords
    <3>3. c = c2
      BY <2>2 DEF c1
    <3>. HIDE DEF c2, c
    <3>. QED BY <2>2, <3>2, <3>3
  <2>. QED BY <2>1, <2>2
<1>. HIDE DEF c
<1>5. SlotOK(c, k, byes, pc)
  <2>1. CASE child[s].st # "runs"
    BY <1>2, <1>3, <1>4, <2>1 DEF SlotOK
  <2>2. CASE child[s].st = "runs"
    <3>1. k.ctrl = Append(child[s].ctrl, "T38") /\ c.t38 = TRUE
      BY <1>3, <1>4, <2>2
    <3>2. child[s].ctrl \in Seq({"T38", "STOP"})
      BY <1>2 DEF SlotOK, ChildRecords
    <3>3. /\ Len(k.ctrl) = Len(child[s].ctrl) + 1 /\ Len(child[s].ctrl) \in Nat
          /\ k.ctrl[Len(child[s].ctrl) + 1] = "T38"
          /\ \A i \in 1..Len(child[s].ctrl) : k.ctrl[i] = child[s].ctrl[i]
          /\ \A i \in 1..Len(k.ctrl) : i \in 1..Len(child[s].ctrl) \/ i = Len(child[s].ctrl) + 1
      BY <3>1, <3>2, CtrlAppended
    <3>4. child[s].medium = "audio" /\ \A i \in 1..Len(child[s].ctrl) : child[s].ctrl[i] # "T38"
      BY <1>1, <1>2 DEF SlotOK, ChildRecords
    <3>5. \A i \in 1..Len(k.ctrl) : k.ctrl[i] = "T38" => i = Len(child[s].ctrl) + 1
      BY <3>3, <3>4
    <3>6. \A i \in 1..Len(k.ctrl) : k.ctrl[i] = "STOP" => StopFor(calls[s], byes, pc)
      BY <1>2, <3>3 DEF SlotOK
    <3>7. Len(k.ctrl) <= One(c.t38) + One(c.peer_hung_up) + One(pc = "shutdown")
      <4>1. /\ One(calls[s].t38) = 0 /\ One(c.t38) = 1
            /\ One(c.peer_hung_up) = One(calls[s].peer_hung_up)
            /\ One(c.peer_hung_up) \in {0, 1} /\ One(pc = "shutdown") \in {0, 1}
        BY <1>1, <1>4, <3>1 DEF One
      <4>2. Len(child[s].ctrl) <= One(calls[s].t38) + One(calls[s].peer_hung_up) + One(pc = "shutdown")
        BY <1>2 DEF SlotOK
      <4>. QED BY <3>3, <4>1, <4>2
    <3>. QED BY <1>2, <1>3, <1>4, <3>1, <3>4, <3>5, <3>6, <3>7 DEF SlotOK, StopFor
  <2>. QED BY <2>1, <2>2
<1>6. Response(m, 200, "t38") \in Datagrams /\ MailOK(Response(m, 200, "t38"))'
  BY DaemonReplies
<1>7. SetsAt(calls', calls, s, c) /\ SetsAt(child', child, s, k)
  BY <1>1, <1>3, ExceptSets DEF CallsInv, SlotsInv
<1>8. calls[s].active => c.active /\ c.call = calls[s].call
  BY <1>4
<1>. QED BY <1>1, <1>5, <1>6, <1>7, <1>8, OneSlotChanges

(* A BYE or CANCEL of the call's own dialer: no other reaches its slot. *)
LEMMA HearHangupCalls ==
  ASSUME CallsInv, NEW m \in net, m.to = "daemon", ~IsResponse(m),
         UNCHANGED <<ua, setup, pc, g_sigchld>>, NEW s \in 1..Slots, HearHangup(m, s)
  PROVE  CallsInv'
<1>. DEFINE c == [calls[s] EXCEPT !.peer_hung_up = TRUE]
<1>1. /\ calls' = [calls EXCEPT ![s] = c] /\ s \in Active /\ calls[s].call = m.call
      /\ byes' = byes /\ Exchange({m}, {Response(m, 200, "none")}) /\ m.method \in Hangups
  BY DEF HearHangup, dcall_find, Hangups
<1>2. SlotOK(calls[s], child[s], byes, pc) /\ MailOK(m)
  BY DEF CallsInv, MailInv, SlotsInv
<1>3. HungUpBy(calls[s].call, byes)
  BY <1>1, <1>2 DEF MailOK, HungUpBy, IsResponse
<1>4. /\ c \in SlotRecords /\ c.active = calls[s].active /\ c.call = calls[s].call
      /\ c.peer_hung_up = TRUE /\ c.t38 = calls[s].t38
  BY <1>2 DEF SlotOK, SlotRecords
<1>. HIDE DEF c
<1>5. Response(m, 200, "none") \in Datagrams /\ MailOK(Response(m, 200, "none"))'
  BY DaemonReplies
<1>6. DOMAIN child = 1..Slots /\ SetsAt(calls', calls, s, c)
  BY <1>1, ExceptSets DEF CallsInv, SlotsInv
<1>7. CASE calls[s].peer_hung_up = TRUE
  <2>1. SetsAt(child', child, s, child[s])
    BY <1>6, <1>7 DEF HearHangup, SetsAt
  <2>2. SlotOK(c, child[s], byes, pc)
    BY <1>2, <1>3, <1>4, <1>7 DEF SlotOK, StopFor
  <2>. QED BY <1>1, <1>4, <1>5, <1>6, <2>1, <2>2, OneSlotChanges
<1>8. CASE calls[s].peer_hung_up = FALSE
  <2>1. PICK k \in ChildRecords :
             /\ child' = [child EXCEPT ![s] = k]
             /\ k.st = child[s].st /\ k.medium = child[s].medium /\ k.ended = child[s].ended
             /\ \/ k.ctrl = child[s].ctrl /\ child[s].st # "runs"
                \/ k.ctrl = Append(child[s].ctrl, "STOP") /\ child[s].st = "runs"
    BY <1>8, Told DEF CallsInv, HearHangup
  <2>2. /\ One(calls[s].peer_hung_up) = 0 /\ One(c.peer_hung_up) = 1
        /\ One(c.t38) = One(calls[s].t38)
        /\ One(c.t38) \in {0, 1} /\ One(pc = "shutdown") \in {0, 1}
    BY <1>4, <1>8 DEF One
  <2>3. /\ Len(child[s].ctrl) <= One(calls[s].t38) + One(calls[s].peer_hung_up) + One(pc = "shutdown")
        /\ child[s].ctrl \in Seq({"T38", "STOP"})
    BY <1>2 DEF SlotOK, ChildRecords
  <2>4. StopFor(c, byes, pc)
    BY <1>3, <1>4 DEF StopFor
  <2>5. Len(child[s].ctrl) \in Nat
    BY <2>3
  <2>6. SlotOK(c, k, byes, pc)
    <3>1. CASE k.ctrl = child[s].ctrl
      <4>1. Len(k.ctrl) <= One(c.t38) + One(c.peer_hung_up) + One(pc = "shutdown")
        BY <2>2, <2>3, <2>5, <3>1
      <4>. QED BY <1>2, <1>3, <1>4, <2>1, <2>4, <3>1, <4>1 DEF SlotOK
    <3>2. CASE k.ctrl = Append(child[s].ctrl, "STOP")
      <4>1. /\ Len(k.ctrl) = Len(child[s].ctrl) + 1
            /\ k.ctrl[Len(child[s].ctrl) + 1] = "STOP"
            /\ \A i \in 1..Len(child[s].ctrl) : k.ctrl[i] = child[s].ctrl[i]
            /\ \A i \in 1..Len(k.ctrl) : i \in 1..Len(child[s].ctrl) \/ i = Len(child[s].ctrl) + 1
        BY <2>3, <3>2, CtrlAppended
      <4>2. Len(k.ctrl) <= One(c.t38) + One(c.peer_hung_up) + One(pc = "shutdown")
        BY <2>2, <2>3, <2>5, <4>1
      <4>3. \A i \in 1..Len(k.ctrl) : k.ctrl[i] = "T38" => i \in 1..Len(child[s].ctrl)
        BY <4>1
      <4>4. \A i \in 1..Len(k.ctrl) : k.ctrl[i] = "T38" =>
              /\ c.t38 /\ k.medium = "audio"
              /\ \A j \in 1..Len(k.ctrl) : k.ctrl[j] = "T38" => j = i
        <5>1. ASSUME NEW i \in 1..Len(child[s].ctrl), child[s].ctrl[i] = "T38"
              PROVE  /\ c.t38 /\ k.medium = "audio"
                     /\ \A j \in 1..Len(child[s].ctrl) : child[s].ctrl[j] = "T38" => j = i
          BY <1>2, <1>4, <2>1, <5>1 DEF SlotOK
        <5>. QED BY <4>1, <4>3, <5>1
      <4>. QED BY <1>2, <1>3, <1>4, <2>1, <2>4, <4>2, <4>4 DEF SlotOK
    <3>. QED BY <2>1, <3>1, <3>2
  <2>7. SetsAt(child', child, s, k)
    BY <1>6, <2>1, ExceptSets
  <2>. QED BY <1>1, <1>4, <1>5, <1>6, <2>6, <2>7, OneSlotChanges
<1>. QED BY <1>2, <1>7, <1>8 DEF SlotOK, SlotRecords

LEMMA DispatchCalls ==
  ASSUME CallsInv, NEW m \in net, UNCHANGED setup, daemon_dispatch(m)
  PROVE  CallsInv'
<1>1. m.to = "daemon" /\ UNCHANGED <<ua, setup, pc, g_sigchld>>
  BY DEF daemon_dispatch
<1>2. ASSUME NEW s \in 1..Slots, AcceptInvite(m, s) PROVE CallsInv'
  BY <1>1, <1>2, AcceptInviteCalls
<1>3. CASE AcceptFails(m)
  BY <1>1, <1>3, AcceptFailsCalls
<1>4. CASE IgnoreMessage(m) \/ RefuseInvite(m) \/ \E s \in 1..Slots :
              RepeatedInvite(m, s) \/ RepeatedReinvite(m, s) \/ DeclineReinvite(m, s)
  BY <1>1, <1>4, RepliesCalls
<1>5. ASSUME NEW s \in 1..Slots, SwitchToT38(m, s) PROVE CallsInv'
  BY <1>1, <1>5, SwitchToT38Calls
<1>6. ASSUME NEW s \in 1..Slots, HearHangup(m, s), ~IsResponse(m) PROVE CallsInv'
  BY <1>1, <1>6, HearHangupCalls
<1>. QED BY <1>2, <1>3, <1>4, <1>5, <1>6 DEF daemon_dispatch

-----------------------------------------------------------------------------
(* run_daemon: the words for the children and the flag change nothing that   *)
(* is known of the dialers.                                                  *)
LEMMA QuietDaemon ==
  ASSUME CallsInv, UNCHANGED <<ua, setup, byes, calls>>, net' \subseteq net,
         DOMAIN child' = 1..Slots, pc' \in {"loop", "reap", "shutdown"}, g_sigchld' \in BOOLEAN,
         \A s \in 1..Slots : SlotOK(calls[s], child'[s], byes, pc')
  PROVE  CallsInv'
<1>1. DaemonSays({}) /\ {} \in SUBSET Dialers
  BY NothingSaid
<1>2. \A d \in Dialers : Served(d) => Served(d)'
  BY ServedStays DEF Active
<1>3. DOMAIN calls' = 1..Slots
  BY DEF CallsInv, SlotsInv
<1>4. net' \subseteq net \cup {}
  OBVIOUS
<1>5. \A s \in 1..Slots : SlotOK(calls'[s], child'[s], byes', pc')
  OBVIOUS
<1>6. {} \subseteq Datagrams /\ \A r \in {} : MailOK(r)'
  OBVIOUS
<1>. QED BY <1>1, <1>2, <1>3, <1>4, <1>5, <1>6, DaemonChanges

(* ... nor does a child that changes by itself. *)
LEMMA QuietSlot ==
  ASSUME CallsInv, UNCHANGED <<ua, setup, net, byes, calls, pc>>, g_sigchld' \in BOOLEAN,
         NEW s \in 1..Slots, NEW k, child' = [child EXCEPT ![s] = k],
         SlotOK(calls[s], k, byes, pc)
  PROVE  CallsInv'
<1>1. SetsAt(child', child, s, k)
  BY ExceptSets DEF CallsInv, SlotsInv
<1>2. \A r \in 1..Slots : SlotOK(calls[r], child'[r], byes, pc')
  BY <1>1 DEF CallsInv, SlotsInv, SetsAt
<1>3. DOMAIN child' = 1..Slots /\ pc' \in {"loop", "reap", "shutdown"}
  BY <1>1 DEF CallsInv, SlotsInv, SetsAt
<1>. QED BY <1>2, <1>3, QuietDaemon

LEMMA FlagCalls ==
  ASSUME CallsInv, UNCHANGED setup, StartReaping \/ ReapingDone
  PROVE  CallsInv'
<1>1. /\ UNCHANGED <<ua, net, byes, calls, child>> /\ pc \in {"loop", "reap"}
      /\ pc' \in {"loop", "reap"} /\ g_sigchld' \in BOOLEAN
  BY DEF StartReaping, ReapingDone, CallsInv, SlotsInv
<1>2. \A s \in 1..Slots : SlotOK(calls[s], child'[s], byes, pc')
  BY <1>1, SlotLater DEF CallsInv, SlotsInv
<1>3. DOMAIN child' = 1..Slots
  BY <1>1 DEF CallsInv, SlotsInv
<1>. QED BY <1>1, <1>2, <1>3, QuietDaemon

(* daemon_shutdown may add one word for each child. *)
LEMMA ShutdownCalls ==
  ASSUME CallsInv, UNCHANGED setup, StartShutdown
  PROVE  CallsInv'
<1>1. /\ UNCHANGED <<ua, byes, calls, g_sigchld>> /\ net' \subseteq net
      /\ pc = "loop" /\ pc' = "shutdown"
      /\ child' = [s \in 1..Slots |-> [child[s] EXCEPT !.ctrl =
                 IF child[s].st = "runs" THEN Append(@, "STOP") ELSE @]]
  BY DEF StartShutdown
<1>2. ASSUME NEW s \in 1..Slots PROVE SlotOK(calls[s], child'[s], byes, pc')
  <2>. DEFINE q == IF child[s].st = "runs" THEN Append(child[s].ctrl, "STOP") ELSE child[s].ctrl
              k == [child[s] EXCEPT !.ctrl = q]
  <2>1. child'[s] = k
    BY <1>1
  <2>2. SlotOK(calls[s], child[s], byes, pc)
    BY DEF CallsInv, SlotsInv
  <2>3. child[s] \in ChildRecords /\ child[s].ctrl \in Seq({"T38", "STOP"})
    BY <2>2 DEF SlotOK, ChildRecords
  <2>4. /\ q \in Seq({"T38", "STOP"}) /\ Len(q) <= Len(child[s].ctrl) + 1
        /\ Len(q) \in Nat /\ Len(child[s].ctrl) \in Nat
        /\ \A i \in 1..Len(q) : q[i] = "T38" =>
             i \in 1..Len(child[s].ctrl) /\ child[s].ctrl[i] = "T38"
    <3>1. CASE child[s].st = "runs"
      <4>1. q = Append(child[s].ctrl, "STOP")
        BY <3>1
      <4>2. /\ Len(q) = Len(child[s].ctrl) + 1 /\ Len(child[s].ctrl) \in Nat
            /\ q \in Seq({"T38", "STOP"})
            /\ q[Len(child[s].ctrl) + 1] = "STOP"
            /\ \A i \in 1..Len(child[s].ctrl) : q[i] = child[s].ctrl[i]
            /\ \A i \in 1..Len(q) : i \in 1..Len(child[s].ctrl) \/ i = Len(child[s].ctrl) + 1
        BY <2>3, <4>1, CtrlAppended
      <4>. HIDE DEF q
      <4>. QED BY <4>2
    <3>2. CASE child[s].st # "runs"
      BY <2>3, <3>2
    <3>. QED BY <3>1, <3>2
  <2>. HIDE DEF q
  <2>5. /\ k \in ChildRecords /\ k.ctrl = q /\ k.medium = child[s].medium
        /\ k.ended = child[s].ended
    BY <2>3, <2>4 DEF ChildRecords
  <2>. HIDE DEF k
  <2>6. StopFor(calls[s], byes, pc')
    BY <1>1 DEF StopFor
  <2>7. Len(q) <= One(calls[s].t38) + One(calls[s].peer_hung_up) + One(pc' = "shutdown")
    <3>1. /\ One(pc = "shutdown") = 0 /\ One(pc' = "shutdown") = 1
          /\ One(calls[s].t38) \in {0, 1} /\ One(calls[s].peer_hung_up) \in {0, 1}
      BY <1>1 DEF One
    <3>2. Len(child[s].ctrl) <= One(calls[s].t38) + One(calls[s].peer_hung_up) + One(pc = "shutdown")
      BY <2>2 DEF SlotOK
    <3>. QED BY <2>4, <3>1, <3>2
  <2>8. ASSUME NEW i \in 1..Len(q), q[i] = "T38"
        PROVE  /\ calls[s].t38 /\ child[s].medium = "audio"
               /\ \A j \in 1..Len(q) : q[j] = "T38" => j = i
    BY <2>2, <2>4, <2>8 DEF SlotOK
  <2>9. SlotOK(calls[s], k, byes, pc')
    BY <2>2, <2>5, <2>6, <2>7, <2>8 DEF SlotOK
  <2>. QED BY <2>1, <2>9
<1>3. DOMAIN child' = 1..Slots /\ g_sigchld' \in BOOLEAN
  BY <1>1 DEF CallsInv, SlotsInv
<1>. QED BY <1>1, <1>2, <1>3, QuietDaemon

(* A child reads its next word: T38 once, over audio; else a stop. *)
LEMMA ReadControlCalls ==
  ASSUME CallsInv, UNCHANGED setup, NEW s \in 1..Slots, ReadControl(s)
  PROVE  CallsInv'
<1>. DEFINE q == child[s].ctrl
            c0 == [child[s] EXCEPT !.ctrl = Tail(q)]
            c1 == [c0 EXCEPT !.medium = "t38"]
            c2 == [c1 EXCEPT !.ended = FALSE]
            c3 == [c0 EXCEPT !.ended = TRUE]
            k == IF c0.medium = "audio" /\ Head(q) = "T38" THEN c2 ELSE c3
<1>1. /\ UNCHANGED <<ua, net, byes, calls, pc, g_sigchld>> /\ q # <<>>
      /\ child' = [child EXCEPT ![s] = k]
  BY DEF ReadControl
<1>2. /\ SlotOK(calls[s], child[s], byes, pc) /\ child[s] \in ChildRecords
      /\ q \in Seq({"T38", "STOP"})
  BY DEF CallsInv, SlotsInv, SlotOK, ChildRecords
<1>3. /\ Head(q) = q[1] /\ 1 \in 1..Len(q) /\ Len(Tail(q)) = Len(q) - 1 /\ Len(q) \in Nat
      /\ Tail(q) \in Seq({"T38", "STOP"}) /\ q[1] \in {"T38", "STOP"}
      /\ \A i \in 1..Len(Tail(q)) : Tail(q)[i] = q[i + 1] /\ i + 1 \in 1..Len(q)
  BY <1>1, <1>2
<1>. DEFINE t == Tail(q)
<1>4. c0 \in ChildRecords /\ c0.ctrl = t /\ c0.ended = child[s].ended /\ c0.medium = child[s].medium
  BY <1>2, <1>3 DEF ChildRecords
<1>. HIDE DEF c0, t
<1>5. /\ c1 \in ChildRecords /\ c1.ctrl = t /\ c1.medium = "t38"
      /\ c3 \in ChildRecords /\ c3.ctrl = t /\ c3.ended = TRUE /\ c3.medium = child[s].medium
  BY <1>4 DEF ChildRecords
<1>. HIDE DEF c1, c3
<1>6. c2 \in ChildRecords /\ c2.ctrl = t /\ c2.medium = "t38" /\ c2.ended = FALSE
  BY <1>5 DEF ChildRecords
<1>. HIDE DEF c2, q
<1>7. /\ \A i \in 1..Len(t) : t[i] = q[i + 1] /\ i + 1 \in 1..Len(q)
      /\ Len(t) <= One(calls[s].t38) + One(calls[s].peer_hung_up) + One(pc = "shutdown")
  <2>1. Len(q) <= One(calls[s].t38) + One(calls[s].peer_hung_up) + One(pc = "shutdown")
    BY <1>2 DEF SlotOK, q
  <2>2. /\ One(pc = "shutdown") \in {0, 1}
        /\ One(calls[s].t38) \in {0, 1} /\ One(calls[s].peer_hung_up) \in {0, 1}
    BY DEF One
  <2>. QED BY <1>3, <2>1, <2>2 DEF t
<1>8. /\ \A i \in 1..Len(q) : q[i] = "STOP" => StopFor(calls[s], byes, pc)
      /\ \A i \in 1..Len(q) : q[i] = "T38" =>
           /\ calls[s].t38 /\ child[s].medium = "audio"
           /\ \A j \in 1..Len(q) : q[j] = "T38" => j = i
  BY <1>2 DEF SlotOK, q
<1>9. \A i \in 1..Len(t) : t[i] = "STOP" => StopFor(calls[s], byes, pc)
  BY <1>7, <1>8
<1>10. \A i \in 1..Len(t) : t[i] = "T38" =>
           /\ calls[s].t38 /\ child[s].medium = "audio" /\ q[1] # "T38"
           /\ \A j \in 1..Len(t) : t[j] = "T38" => j = i
  <2>1. ASSUME NEW i \in 1..Len(t), t[i] = "T38"
        PROVE  /\ calls[s].t38 /\ child[s].medium = "audio" /\ q[1] # "T38"
               /\ \A j \in 1..Len(t) : t[j] = "T38" => j = i
    <3>1. i + 1 \in 1..Len(q) /\ q[i + 1] = "T38" /\ i \in Nat \ {0}
      BY <1>7, <2>1
    <3>2. \A j \in 1..Len(q) : q[j] = "T38" => j = i + 1
      BY <1>8, <3>1
    <3>3. q[1] # "T38"
      BY <1>3, <3>1, <3>2
    <3>4. ASSUME NEW j \in 1..Len(t), t[j] = "T38" PROVE j = i
      <4>1. j \in Nat /\ q[j + 1] = "T38" /\ j + 1 \in 1..Len(q)
        BY <1>7, <3>4
      <4>2. j + 1 = i + 1
        BY <3>2, <4>1
      <4>. QED BY <3>1, <4>1, <4>2
    <3>. QED BY <1>8, <3>1, <3>3, <3>4
  <2>. QED BY <2>1
<1>. HIDE DEF k
<1>11. /\ UNCHANGED <<ua, net, byes, calls, pc>> /\ g_sigchld' \in BOOLEAN
       /\ child' = [child EXCEPT ![s] = k]
  BY <1>1 DEF CallsInv, SlotsInv
<1>12. CASE child[s].medium = "audio" /\ q[1] = "T38"
  <2>1. k = c2
    BY <1>3, <1>4, <1>12 DEF k
  <2>2. \A i \in 1..Len(t) : t[i] # "T38"
    BY <1>10, <1>12
  <2>3. calls[s].t38
    BY <1>3, <1>8, <1>12
  <2>4. SlotOK(calls[s], c2, byes, pc)
    BY <1>2, <1>6, <1>7, <1>9, <2>2, <2>3 DEF SlotOK
  <2>. QED BY <2>1, <2>4, <1>11, QuietSlot
<1>13. CASE ~(child[s].medium = "audio" /\ q[1] = "T38")
  <2>1. k = c3
    BY <1>3, <1>4, <1>13 DEF k
  <2>2. StopFor(calls[s], byes, pc)
    BY <1>3, <1>8, <1>13
  <2>3. SlotOK(calls[s], c3, byes, pc)
    BY <1>2, <1>5, <1>7, <1>9, <1>10, <2>2 DEF SlotOK
  <2>. QED BY <2>1, <2>3, <1>11, QuietSlot
<1>. QED BY <1>12, <1>13

LEMMA ChildExitsCalls ==
  ASSUME CallsInv, UNCHANGED setup, NEW s \in 1..Slots, ChildExits(s)
  PROVE  CallsInv'
<1>. DEFINE k == [child[s] EXCEPT !.st = "zombie"]
<1>1. /\ UNCHANGED <<ua, net, byes, calls, pc>> /\ g_sigchld' = TRUE
      /\ child' = [child EXCEPT ![s] = k]
  BY DEF ChildExits
<1>2. SlotOK(calls[s], child[s], byes, pc)
  BY DEF CallsInv, SlotsInv
<1>3. /\ k \in ChildRecords /\ k.ctrl = child[s].ctrl /\ k.medium = child[s].medium
      /\ k.ended = child[s].ended
  BY <1>2 DEF SlotOK, ChildRecords
<1>. HIDE DEF k
<1>4. SlotOK(calls[s], k, byes, pc)
  BY <1>2, <1>3 DEF SlotOK
<1>. QED BY <1>1, <1>4, QuietSlot

(* dcall_free: the dialer is told, unless it hung up itself. *)
LEMMA FreeCalls ==
  ASSUME CallsInv, SlotInv, UNCHANGED <<setup, pc, g_sigchld>>, NEW s \in 1..Slots,
         child[s].st = "zombie", Free(s)
  PROVE  CallsInv'
<1>. DEFINE c1 == [FreedSlot EXCEPT !.t38 = calls[s].t38]
            c == [c1 EXCEPT !.reinvite_cseq = calls[s].reinvite_cseq]
            gone == ByeOwed(s)
            sent == {DaemonBye(call) : call \in gone}
<1>1. /\ calls' = [calls EXCEPT ![s] = c] /\ child' = [child EXCEPT ![s] = NoChild]
      /\ UNCHANGED ua /\ DaemonSays(gone) /\ Exchange({}, sent)
  BY DEF Free
<1>2. SlotOK(calls[s], child[s], byes, pc) /\ calls[s] \in SlotRecords
  BY DEF CallsInv, SlotsInv, SlotOK
<1>3. calls[s].active /\ calls[s].call \in Dialers
  BY <1>2 DEF SlotInv, OneSlotPerCall, Active, SlotOK
<1>4. gone \in SUBSET Dialers
  BY <1>3 DEF ByeOwed
<1>5. /\ c1 \in SlotRecords /\ c1.active = FALSE /\ c1.peer_hung_up = FALSE
      /\ c1.t38 = calls[s].t38
  <2>1. /\ FreedSlot \in SlotRecords /\ FreedSlot.active = FALSE
        /\ FreedSlot.peer_hung_up = FALSE
    BY DEF FreedSlot, SlotRecords
  <2>. QED BY <1>2, <2>1 DEF SlotRecords
<1>. HIDE DEF c1
<1>6. /\ c \in SlotRecords /\ c.active = FALSE /\ c.peer_hung_up = FALSE
      /\ c.t38 \in BOOLEAN
  BY <1>2, <1>5 DEF SlotRecords
<1>. HIDE DEF c
<1>7. SlotOK(c, NoChild, byes, pc)
  <2>1. Len(NoChild.ctrl) = 0 /\ \A i \in 1..Len(NoChild.ctrl) : FALSE
    BY NoChildFields
  <2>2. /\ One(c.t38) \in {0, 1} /\ One(c.peer_hung_up) \in {0, 1}
        /\ One(pc = "shutdown") \in {0, 1}
    BY DEF One
  <2>3. Len(NoChild.ctrl) <= One(c.t38) + One(c.peer_hung_up) + One(pc = "shutdown")
    BY <2>1, <2>2
  <2>. QED BY <1>6, <2>1, <2>3, NoChildFields DEF SlotOK
<1>8. SetsAt(calls', calls, s, c) /\ SetsAt(child', child, s, NoChild) /\ byes \subseteq byes'
  BY <1>1, ExceptSets DEF CallsInv, SlotsInv, DaemonSays
<1>9. /\ DOMAIN calls' = 1..Slots /\ DOMAIN child' = 1..Slots
      /\ pc' \in {"loop", "reap", "shutdown"} /\ g_sigchld' \in BOOLEAN
  BY <1>8 DEF CallsInv, SlotsInv, SetsAt
<1>10. ASSUME NEW r \in 1..Slots PROVE SlotOK(calls'[r], child'[r], byes', pc')
  <2>1. SlotOK(calls'[r], child'[r], byes, pc)
    BY <1>7, <1>8 DEF CallsInv, SlotsInv, SetsAt
  <2>. QED BY <1>8, <2>1, SlotLater
<1>11. ASSUME NEW d \in Dialers, Served(d) PROVE Served(d)'
  <2>1. CASE calls[s].call # d
    <3>1. dcall_find(d) \subseteq dcall_find(d)'
      BY <1>8, <2>1 DEF dcall_find, Active, SetsAt
    <3>. QED BY <1>1, <1>8, <1>11, <3>1 DEF Served
  <2>2. CASE calls[s].call = d /\ ~calls[s].peer_hung_up
    BY <1>1, <2>2 DEF DaemonSays, ByeOwed, Served
  <2>3. CASE calls[s].call = d /\ calls[s].peer_hung_up
    <3>1. HungUpBy(d, byes)
      BY <1>2, <2>3 DEF SlotOK
    <3>2. ua[d].st \in {"cancelling", "bye", "exit"}
      BY <3>1 DEF CallsInv, UasInv, DialerOK
    <3>. QED BY <1>1, <3>2 DEF Served
  <2>. QED BY <2>1, <2>2, <2>3
<1>12. sent \subseteq Datagrams /\ \A r \in sent : MailOK(r)'
  BY <1>4, DaemonByes
<1>13. net' \subseteq net \cup sent
  BY <1>1, Exchanged
<1>. HIDE DEF sent, gone
<1>. QED BY <1>1, <1>4, <1>9, <1>10, <1>11, <1>12, <1>13, DaemonChanges

(* Every step of the parent and of a child. *)
LEMMA DaemonCalls ==
  ASSUME CallsInv, SlotInv, DaemonActs
  PROVE  CallsInv'
<1>1. UNCHANGED setup /\ DaemonNext
  BY DEF DaemonActs
<1>2. CASE StartReaping \/ ReapingDone
  BY <1>1, <1>2, FlagCalls
<1>3. ASSUME NEW s \in 1..Slots, ReapOne(s) \/ WaitForChild(s) PROVE CallsInv'
  BY <1>1, <1>3, FreeCalls DEF ReapOne, WaitForChild
<1>4. CASE StartShutdown
  BY <1>1, <1>4, ShutdownCalls
<1>5. ASSUME NEW m \in net, daemon_dispatch(m) PROVE CallsInv'
  BY <1>1, <1>5, DispatchCalls
<1>6. ASSUME NEW s \in 1..Slots, ReadControl(s) PROVE CallsInv'
  BY <1>1, <1>6, ReadControlCalls
<1>7. ASSUME NEW s \in 1..Slots, ChildExits(s) PROVE CallsInv'
  BY <1>1, <1>7, ChildExitsCalls
<1>. QED BY <1>1, <1>2, <1>3, <1>4, <1>5, <1>6, <1>7 DEF DaemonNext, ParentStep

-----------------------------------------------------------------------------
(* What is known of a dialer. *)
LEMMA DialerKnown ==
  ASSUME CallsInv, NEW d \in Dialers
  PROVE  /\ DialerOK(d, ua[d], byes) /\ ua[d] \in UaRecords /\ ua[d].cseq \in 0..5
         /\ ua[d].auths \in 0..2 /\ ua[d].sends \in 0..2 /\ ua[d].st \in States
         /\ ua[d].hung \in BOOLEAN /\ ua[d].answered \in BOOLEAN /\ ua[d].prov \in BOOLEAN
         /\ ua[d].unusable \in BOOLEAN
<1>1. DialerOK(d, ua[d], byes) /\ ua[d] \in UaRecords /\ ua[d].st \in States
  BY DEF CallsInv, UasInv, DialerOK
<1>. QED BY <1>1 DEF UaRecords

(* A request of a dialer to whom it calls. *)
LEMMA DialerSends ==
  ASSUME CallsInv, UNCHANGED setup, NEW d \in Dialers,
         NEW method \in {"INVITE", "ACK"} \cup Hangups, NEW cseq \in Nat,
         NEW sdp \in {"none", "audio", "t38"}, NEW copy \in Nat,
         method \in Hangups => <<d, d, method>> \in byes',
         NEW m, m = Request(method, d, d, callee, cseq, sdp, copy)
  PROVE  m \in Datagrams /\ MailOK(m)'
<1>1. callee \in Ends /\ d \in Ends /\ callee' = callee /\ callee \notin Dialers
      /\ callee \in {"daemon", "answerer", "gateway"}
  BY Names DEF CallsInv, SetupInv, setup
<1>2. /\ m \in Datagrams /\ m.to = callee /\ m.from = d /\ m.call = d
      /\ m.method = method /\ m.code = 0
  BY <1>1 DEF Request, Datagrams
<1>3. MailOK(m)'
  BY <1>1, <1>2 DEF MailOK
<1>. QED BY <1>2, <1>3

LEMMA InCallSends ==
  ASSUME CallsInv, UNCHANGED setup, NEW d \in Dialers, ua[d].st # "idle",
         NEW method \in {"INVITE", "ACK"} \cup Hangups, NEW cseq \in Nat,
         NEW sdp \in {"none", "audio", "t38"}, NEW copy \in Nat,
         method \in Hangups => <<d, d, method>> \in byes',
         NEW m, m = InCallRequest(d, method, cseq, sdp, copy)
  PROVE  m \in Datagrams /\ MailOK(m)'
<1>1. ua[d].call = d
  BY DialerKnown DEF DialerOK
<1>2. m = Request(method, d, d, callee, cseq, sdp, copy)
  BY <1>1, Names DEF InCallRequest, Peer
<1>. QED BY <1>2, DialerSends

LEMMA AcksSent ==
  ASSUME CallsInv, UNCHANGED setup, NEW d \in Dialers, ua[d].st # "idle"
  PROVE  Acks(d, ua[d].cseq) \subseteq Datagrams /\ \A m \in Acks(d, ua[d].cseq) : MailOK(m)'
<1>1. ua[d].call = d /\ ua[d].cseq \in Nat
  <2>1. ua[d].cseq \in 0..5 /\ DialerOK(d, ua[d], byes)
    BY DialerKnown
  <2>. QED BY <2>1 DEF DialerOK
<1>2. ASSUME NEW m \in Acks(d, ua[d].cseq) PROVE m \in Datagrams /\ MailOK(m)'
  <2>1. m = Request("ACK", d, d, callee, ua[d].cseq, "none", 0)
    BY <1>1, <1>2 DEF Acks
  <2>2. "ACK" \notin Hangups
    BY DEF Hangups
  <2>. QED BY <1>1, <2>1, <2>2, DialerSends
<1>. QED BY <1>2

(* A dialer's response goes where the request came from. *)
LEMMA DialerReplies ==
  ASSUME CallsInv, UNCHANGED setup, NEW d \in Dialers, NEW m \in net, m.to = d,
         NEW code \in {180, 200, 407, 486, 487, 488}, NEW sdp \in {"none", "audio", "t38"}
  PROVE  Response(m, code, sdp) \in Datagrams /\ MailOK(Response(m, code, sdp))'
<1>1. m \in Datagrams /\ MailOK(m) /\ callee' = callee
  BY DEF CallsInv, MailInv, setup
<1>. DEFINE r == Response(m, code, sdp)
<1>2. /\ r \in Datagrams /\ r.to = m.from /\ r.from = d /\ r.call = m.call /\ r.code = code
  BY <1>1, ResponseFields
<1>. HIDE DEF r
<1>3. callee = "daemon" => m.from = "daemon" /\ m.call = d
  BY <1>1 DEF MailOK
<1>4. MailOK(r)'
  BY <1>1, <1>2, <1>3, Names DEF MailOK
<1>. QED BY <1>2, <1>4 DEF r

(* Only datagrams change. *)
LEMMA OnlyMail ==
  ASSUME CallsInv, UNCHANGED <<ua, setup, byes, daemonVars>>,
         NEW used, NEW sent, Exchange(used, sent), sent \subseteq Datagrams,
         \A r \in sent : MailOK(r)'
  PROVE  CallsInv'
<1>1. DaemonSays({}) /\ {} \in SUBSET Dialers
  BY NothingSaid
<1>2. UNCHANGED <<ua, setup, byes, calls, child, pc, g_sigchld>>
  BY DEF daemonVars
<1>3. \A d \in Dialers : Served(d) => Served(d)'
  BY <1>2, ServedStays DEF Active
<1>4. /\ DOMAIN calls' = 1..Slots /\ DOMAIN child' = 1..Slots
      /\ pc' \in {"loop", "reap", "shutdown"} /\ g_sigchld' \in BOOLEAN
      /\ \A s \in 1..Slots : SlotOK(calls'[s], child'[s], byes', pc')
  BY <1>2 DEF CallsInv, SlotsInv
<1>5. net' \subseteq net \cup sent
  BY Exchanged
<1>. QED BY <1>1, <1>2, <1>3, <1>4, <1>5, DaemonChanges

(* What a dialer sends. *)
LEMMA SendsNothing ==
  ASSUME NEW used, Exchange(used, {}) PROVE Sends({})
BY Exchanged DEF Sends

LEMMA SendsRequest ==
  ASSUME CallsInv, UaFrame, NEW d \in Dialers, ua[d].st # "idle",
         NEW method \in {"INVITE", "ACK"} \cup Hangups, NEW cseq \in Nat,
         NEW sdp \in {"none", "audio", "t38"}, NEW copy \in Nat,
         method \in Hangups => <<d, d, method>> \in byes',
         NEW used, Exchange(used, {InCallRequest(d, method, cseq, sdp, copy)})
  PROVE  Sends({InCallRequest(d, method, cseq, sdp, copy)})
<1>1. net' \subseteq net \cup {InCallRequest(d, method, cseq, sdp, copy)}
  BY Exchanged
<1>2. UNCHANGED setup
  BY DEF UaFrame
<1>3. ASSUME NEW m \in {InCallRequest(d, method, cseq, sdp, copy)}
      PROVE  m \in Datagrams /\ MailOK(m)'
  <2>1. m = InCallRequest(d, method, cseq, sdp, copy)
    BY <1>3
  <2>. QED BY <1>2, <2>1, InCallSends
<1>. QED BY <1>1, <1>3 DEF Sends

LEMMA SendsAcks ==
  ASSUME CallsInv, UaFrame, NEW d \in Dialers, ua[d].st # "idle",
         NEW used, Exchange(used, Acks(d, ua[d].cseq))
  PROVE  Sends(Acks(d, ua[d].cseq))
<1>1. net' \subseteq net \cup Acks(d, ua[d].cseq)
  BY Exchanged
<1>2. UNCHANGED setup
  BY DEF UaFrame
<1>. QED BY <1>1, <1>2, AcksSent DEF Sends

(* A final response is acknowledged and the request sent again. *)
LEMMA SendsAgain ==
  ASSUME CallsInv, UaFrame, NEW d \in Dialers, ua[d].st # "idle", NEW cseq \in Nat,
         NEW sdp \in {"none", "audio", "t38"}, NEW used,
         NEW r, r = InCallRequest(d, "INVITE", cseq, sdp, 1),
         Exchange(used, Acks(d, ua[d].cseq) \cup {r})
  PROVE  Sends(Acks(d, ua[d].cseq) \cup {r})
<1>1. net' \subseteq net \cup (Acks(d, ua[d].cseq) \cup {r})
  BY Exchanged
<1>2. UNCHANGED setup /\ "INVITE" \notin Hangups
  BY DEF UaFrame, Hangups
<1>3. r \in Datagrams /\ MailOK(r)'
  BY <1>2, InCallSends
<1>4. /\ Acks(d, ua[d].cseq) \subseteq Datagrams
      /\ \A m \in Acks(d, ua[d].cseq) : MailOK(m)'
  BY <1>2, AcksSent
<1>. QED BY <1>1, <1>3, <1>4 DEF Sends

IsReply(r, m) ==
  r \in {Response(m, 200, "none"), Response(m, 200, "t38"), Response(m, 488, "none")}

LEMMA SendsReply ==
  ASSUME CallsInv, UaFrame, NEW m \in net, m.to \in Dialers, NEW r, IsReply(r, m),
         NEW used, Exchange(used, {r})
  PROVE  Sends({r})
<1>1. net' \subseteq net \cup {r}
  BY Exchanged
<1>2. UNCHANGED setup
  BY DEF UaFrame
<1>3. r \in Datagrams /\ MailOK(r)'
  BY <1>2, DialerReplies DEF IsReply
<1>. QED BY <1>1, <1>3 DEF Sends

(* A dialer that says nothing new. *)
LEMMA DialerStays ==
  ASSUME CallsInv, UaFrame, NEW d \in Dialers, NEW u, ua' = [ua EXCEPT ![d] = u], byes' = byes,
         DialerOK(d, u, byes), Leaving(ua[d].st) => Leaving(u.st),
         Talks(u.st) => Talks(ua[d].st), NEW sent, Sends(sent)
  PROVE  CallsInv'
<1>1. SaidBy(d) /\ DialerOK(d, u, byes')
  BY DEF SaidBy
<1>2. callee = "daemon" /\ Talks(u.st) => Served(d)
  BY DEF CallsInv, ServedInv
<1>. QED BY <1>1, <1>2, DialerChanges

-----------------------------------------------------------------------------
(* uac_establish *)
LEMMA DialCalls ==
  ASSUME CallsInv, UaFrame, NEW d \in Dialers, Dial(d)
  PROVE  CallsInv'
<1>. DEFINE u0 == NewUa("calling")
            u1 == [u0 EXCEPT !.call = d]
            u2 == [u1 EXCEPT !.cseq = 1]
            u3 == [u2 EXCEPT !.sends = 1]
            m == Request("INVITE", d, d, callee, 1, "audio", 1)
<1>1. ua' = [ua EXCEPT ![d] = u3] /\ byes' = byes /\ Exchange({}, {m}) /\ ua[d].st = "idle"
  BY DEF Dial
<1>2. u0 \in UaRecords /\ u0.st = "calling" /\ u0.auths = 0 /\ u0.answered = FALSE
  BY FreshFields DEF States
<1>. HIDE DEF u0
<1>3. /\ u1 \in UaRecords /\ u1.st = "calling" /\ u1.auths = 0 /\ u1.answered = FALSE
      /\ u1.call = d
  BY <1>2 DEF UaRecords
<1>. HIDE DEF u1
<1>4. /\ u2 \in UaRecords /\ u2.st = "calling" /\ u2.auths = 0 /\ u2.answered = FALSE
      /\ u2.call = d /\ u2.cseq = 1
  BY <1>3 DEF UaRecords
<1>. HIDE DEF u2
<1>5. /\ u3 \in UaRecords /\ u3.st = "calling" /\ u3.auths = 0 /\ u3.answered = FALSE
      /\ u3.call = d /\ u3.cseq = 1
  BY <1>4 DEF UaRecords
<1>. HIDE DEF u3
<1>6. ~HungUpBy(d, byes)
  BY <1>1, DialerKnown DEF DialerOK
<1>7. DialerOK(d, u3, byes)
  BY <1>5, <1>6 DEF DialerOK, States
<1>8. Sends({m})
  <2>1. UNCHANGED setup /\ net' \subseteq net \cup {m} /\ "INVITE" \notin Hangups
    BY <1>1, Exchanged DEF Hangups, UaFrame
  <2>2. ASSUME NEW r \in {m} PROVE r \in Datagrams /\ MailOK(r)'
    <3>1. r = Request("INVITE", d, d, callee, 1, "audio", 1)
      BY <2>2
    <3>. QED BY <2>1, <3>1, DialerSends
  <2>. QED BY <2>1, <2>2 DEF Sends
<1>. HIDE DEF m
<1>9. ~Talks(u3.st) /\ ~Leaving(ua[d].st)
  BY <1>1, <1>5 DEF Talks, Leaving
<1>. QED BY <1>1, <1>7, <1>8, <1>9, DialerStays

LEMMA RetransmitInviteCalls ==
  ASSUME CallsInv, UaFrame, NEW d \in Dialers, RetransmitInvite(d)
  PROVE  CallsInv'
<1>. DEFINE u == [ua[d] EXCEPT !.sends = ua[d].sends + 1]
            m == InCallRequest(d, "INVITE", ua[d].cseq, "audio", ua[d].sends + 1)
<1>1. /\ ua' = [ua EXCEPT ![d] = u] /\ byes' = byes /\ Exchange({}, {m})
      /\ ua[d].st = "calling" /\ ua[d].sends = 1
  BY DEF RetransmitInvite
<1>2. ua[d] \in UaRecords /\ DialerOK(d, ua[d], byes) /\ ua[d].cseq \in Nat
  BY DialerKnown
<1>3. /\ u \in UaRecords /\ u.st = ua[d].st /\ u.call = ua[d].call /\ u.cseq = ua[d].cseq
      /\ u.auths = ua[d].auths /\ u.hung = ua[d].hung /\ u.answered = ua[d].answered
      /\ u.unusable = ua[d].unusable
  BY <1>1, <1>2 DEF UaRecords
<1>. HIDE DEF u
<1>4. DialerOK(d, u, byes)
  BY <1>2, <1>3 DEF DialerOK
<1>5. Sends({m})
  <2>1. "INVITE" \notin Hangups /\ ua[d].sends + 1 \in Nat /\ ua[d].st # "idle"
    BY <1>1 DEF Hangups
  <2>. QED BY <1>1, <1>2, <2>1, SendsRequest
<1>. HIDE DEF m
<1>. QED BY <1>1, <1>3, <1>4, <1>5, DialerStays

(* A dialer leaves, and a BYE is known where one was due. *)
LEMMA DialerExits ==
  ASSUME CallsInv, UaFrame, NEW d \in Dialers, Exit(d), byes' = byes, ua[d].st # "idle",
         \/ ~ua[d].answered \/ ua[d].hung \/ ua[d].st = "bye",
         NEW sent, Sends(sent)
  PROVE  CallsInv'
<1>. DEFINE u == Gone(d)
<1>1. ua' = [ua EXCEPT ![d] = u]
  BY DEF Exit
<1>2. ua[d] \in UaRecords /\ DialerOK(d, ua[d], byes)
  BY DialerKnown
<1>3. /\ u \in UaRecords /\ u.st = "exit" /\ u.call = ua[d].call
      /\ u.hung = ua[d].hung /\ u.answered = ua[d].answered /\ u.unusable = ua[d].unusable
      /\ u.cseq = 0 /\ u.auths = 0
  BY <1>2, GoneFields
<1>. HIDE DEF u
<1>4. DialerOK(d, u, byes)
  BY <1>2, <1>3 DEF DialerOK, States
<1>5. ~Talks(u.st) /\ Leaving(u.st)
  BY <1>3 DEF Talks, Leaving
<1>. QED BY <1>1, <1>4, <1>5, DialerStays

LEMMA GiveUpCalls ==
  ASSUME CallsInv, UaFrame, NEW d \in Dialers, GiveUp(d)
  PROVE  CallsInv'
<1>1. ua[d].st = "calling"
  BY DEF GiveUp
<1>2. /\ DialerOK(d, ua[d], byes) /\ ua[d] \in UaRecords /\ ua[d].cseq \in 0..5
      /\ ua[d].auths \in 0..2
  BY DialerKnown
<1>3. ua[d].call = d /\ ~ua[d].answered /\ ua[d].cseq <= 3
  BY <1>1, <1>2 DEF DialerOK
<1>4. CASE ~ua[d].prov
  <2>1. Exit(d) /\ byes' = byes /\ Exchange({}, {})
    BY <1>4 DEF GiveUp, Keep
  <2>. QED BY <1>1, <1>3, <2>1, SendsNothing, DialerExits
<1>5. CASE ua[d].prov
  <2>. DEFINE u == [ua[d] EXCEPT !.st = "cancelling"]
              m == InCallRequest(d, "CANCEL", ua[d].cseq, "none", 0)
  <2>1. /\ ua' = [ua EXCEPT ![d] = u] /\ byes' = byes \cup {<<d, d, "CANCEL">>}
        /\ Exchange({}, {m}) /\ "CANCEL" \in Hangups
    BY <1>3, <1>5 DEF GiveUp, Says, Hangups
  <2>2. /\ u \in UaRecords /\ u.st = "cancelling" /\ u.call = ua[d].call /\ u.cseq = ua[d].cseq
        /\ u.auths = ua[d].auths /\ u.hung = ua[d].hung /\ u.answered = ua[d].answered
    BY <1>2 DEF UaRecords, States
  <2>. HIDE DEF u
  <2>3. DialerOK(d, u, byes')
    BY <1>2, <1>3, <2>2 DEF DialerOK, States
  <2>4. Sends({m})
    <3>1. ua[d].cseq \in Nat /\ ua[d].st # "idle" /\ <<d, d, "CANCEL">> \in byes'
      BY <1>1, <1>2, <2>1
    <3>. QED BY <2>1, <3>1, SendsRequest
  <2>. HIDE DEF m
  <2>5. ~Talks(u.st) /\ Leaving(u.st) /\ SaidBy(d)
    BY <2>1, <2>2 DEF Talks, Leaving, SaidBy
  <2>. QED BY <2>1, <2>3, <2>4, <2>5, DialerChanges
<1>. QED BY <1>4, <1>5

LEMMA CancelTimeoutCalls ==
  ASSUME CallsInv, UaFrame, NEW d \in Dialers, CancelTimeout(d)
  PROVE  CallsInv'
<1>1. ua[d].st = "cancelling" /\ Exit(d) /\ byes' = byes /\ Exchange({}, {})
  BY DEF CancelTimeout, Keep
<1>2. ~ua[d].answered
  BY <1>1, DialerKnown DEF DialerOK
<1>. QED BY <1>1, <1>2, SendsNothing, DialerExits

(* What is heard while it calls. *)
LEMMA HearProvisionalCalls ==
  ASSUME CallsInv, UaFrame, NEW d \in Dialers, NEW m \in net, HearProvisional(d, m)
  PROVE  CallsInv'
<1>. DEFINE u == [ua[d] EXCEPT !.prov = TRUE]
<1>1. /\ ua' = [ua EXCEPT ![d] = u] /\ byes' = byes /\ Exchange({m}, {})
      /\ ua[d].st = "calling"
  BY DEF HearProvisional
<1>2. ua[d] \in UaRecords /\ DialerOK(d, ua[d], byes)
  BY DialerKnown
<1>3. /\ u \in UaRecords /\ u.st = ua[d].st /\ u.call = ua[d].call /\ u.cseq = ua[d].cseq
      /\ u.auths = ua[d].auths /\ u.hung = ua[d].hung /\ u.answered = ua[d].answered
      /\ u.unusable = ua[d].unusable
  BY <1>2 DEF UaRecords
<1>. HIDE DEF u
<1>4. DialerOK(d, u, byes)
  BY <1>2, <1>3 DEF DialerOK
<1>. QED BY <1>1, <1>3, <1>4, SendsNothing, DialerStays

LEMMA HearChallengeCalls ==
  ASSUME CallsInv, UaFrame, NEW d \in Dialers, NEW m \in net, HearChallenge(d, m)
  PROVE  CallsInv'
<1>1. ua[d].st = "calling" /\ byes' = byes
  BY DEF HearChallenge
<1>2. ua[d].auths \in 0..2 /\ DialerOK(d, ua[d], byes) /\ ua[d] \in UaRecords
  BY DialerKnown
<1>3. /\ ~ua[d].answered /\ ua[d].cseq = ua[d].auths + 1 /\ ua[d].call = d
      /\ ~HungUpBy(d, byes)
  BY <1>1, <1>2 DEF DialerOK
<1>. DEFINE again == [ua[d] EXCEPT !.auths = @ + 1, !.cseq = @ + 1, !.prov = FALSE, !.sends = 1]
            request == InCallRequest(d, "INVITE", ua[d].cseq + 1, "audio", 1)
<1>4. CASE Exit(d) /\ Exchange({m}, Acks(d, ua[d].cseq))
  <2>1. Sends(Acks(d, ua[d].cseq))
    BY <1>1, <1>4, SendsAcks
  <2>. QED BY <1>1, <1>3, <1>4, <2>1, DialerExits
<1>5. CASE /\ ua[d].auths # 2 /\ ua' = [ua EXCEPT ![d] = again]
           /\ Exchange({m}, Acks(d, ua[d].cseq) \cup {request})
  <2>. DEFINE a == ua[d].auths + 1
              c == ua[d].cseq + 1
              u1 == [ua[d] EXCEPT !.auths = a]
              u2 == [u1 EXCEPT !.cseq = c]
              u3 == [u2 EXCEPT !.prov = FALSE]
              u4 == [u3 EXCEPT !.sends = 1]
              r == InCallRequest(d, "INVITE", c, "audio", 1)
  <2>1. ua' = [ua EXCEPT ![d] = u4] /\ Exchange({m}, Acks(d, ua[d].cseq) \cup {r})
    BY <1>5
  <2>2. a \in 0..2 /\ c \in 0..5 /\ c \in Nat /\ c = a + 1
    BY <1>2, <1>3, <1>5
  <2>. HIDE DEF a, c
  <2>3. /\ u1 \in UaRecords /\ u1.st = "calling" /\ u1.call = d /\ u1.auths = a
        /\ u1.answered = ua[d].answered
    BY <1>1, <1>2, <1>3, <2>2 DEF UaRecords
  <2>. HIDE DEF u1
  <2>4. /\ u2 \in UaRecords /\ u2.st = "calling" /\ u2.call = d /\ u2.auths = a /\ u2.cseq = c
        /\ u2.answered = ua[d].answered
    BY <2>2, <2>3 DEF UaRecords
  <2>. HIDE DEF u2
  <2>5. /\ u3 \in UaRecords /\ u3.st = "calling" /\ u3.call = d /\ u3.auths = a /\ u3.cseq = c
        /\ u3.answered = ua[d].answered
    BY <2>4 DEF UaRecords
  <2>. HIDE DEF u3
  <2>6. /\ u4 \in UaRecords /\ u4.st = "calling" /\ u4.call = d /\ u4.auths = a /\ u4.cseq = c
        /\ u4.answered = ua[d].answered
    BY <2>5 DEF UaRecords
  <2>. HIDE DEF u4
  <2>7. DialerOK(d, u4, byes)
    BY <1>3, <2>2, <2>6 DEF DialerOK, States
  <2>8. Sends(Acks(d, ua[d].cseq) \cup {r})
    BY <1>1, <2>1, <2>2, SendsAgain
  <2>. HIDE DEF r
  <2>. QED BY <1>1, <2>1, <2>6, <2>7, <2>8, DialerStays
<1>. QED BY <1>4, <1>5 DEF HearChallenge


(* A 200 with audio: of the daemon it is of a call that has, or had, a slot. *)
LEMMA HearOkCalls ==
  ASSUME CallsInv, UaFrame, NEW d \in Dialers, NEW m \in net, m.to = d, HearOk(d, m)
  PROVE  CallsInv'
<1>1. /\ ua[d].st = "calling" /\ byes' = byes /\ m.code = 200
      /\ Exchange({m}, Acks(d, ua[d].cseq))
  BY DEF HearOk
<1>2. /\ ua[d].auths \in 0..2 /\ DialerOK(d, ua[d], byes) /\ ua[d] \in UaRecords
      /\ ua[d].cseq \in 0..5
  BY DialerKnown
<1>3. /\ ~ua[d].answered /\ ua[d].cseq <= 3 /\ ua[d].call = d /\ ~HungUpBy(d, byes)
  BY <1>1, <1>2 DEF DialerOK
<1>4. Sends(Acks(d, ua[d].cseq)) /\ SaidBy(d) /\ ~Leaving(ua[d].st)
  BY <1>1, SendsAcks DEF SaidBy, Leaving
<1>5. CASE m.sdp = "audio"
  <2>. DEFINE x == IF d \in T38Dialers THEN "connected" ELSE "audio"
              u0 == NewUa(x)
              u1 == [u0 EXCEPT !.call = ua[d].call]
              u2 == [u1 EXCEPT !.cseq = ua[d].cseq]
              u3 == [u2 EXCEPT !.answered = TRUE]
  <2>1. ua' = [ua EXCEPT ![d] = u3]
    BY <1>5 DEF HearOk
  <2>2. x \in {"connected", "audio"}
    OBVIOUS
  <2>. HIDE DEF x
  <2>3. u0 \in UaRecords /\ u0.st = x
    BY <2>2, FreshFields DEF States
  <2>. HIDE DEF u0
  <2>4. u1 \in UaRecords /\ u1.st = x /\ u1.call = d
    BY <1>3, <2>3 DEF UaRecords
  <2>. HIDE DEF u1
  <2>5. u2 \in UaRecords /\ u2.st = x /\ u2.call = d /\ u2.cseq = ua[d].cseq
    BY <1>2, <2>4 DEF UaRecords
  <2>. HIDE DEF u2
  <2>6. u3 \in UaRecords /\ u3.st = x /\ u3.call = d /\ u3.cseq = ua[d].cseq
    BY <2>5 DEF UaRecords
  <2>. HIDE DEF u3
  <2>7. DialerOK(d, u3, byes')
    BY <1>1, <1>3, <2>2, <2>6 DEF DialerOK, States
  <2>8. callee = "daemon" => Served(d)
    BY <1>1, <1>5 DEF CallsInv, MailInv, MailOK
  <2>. QED BY <1>4, <2>1, <2>7, <2>8, DialerChanges
<1>6. CASE m.sdp # "audio"
  <2>. DEFINE u0 == Gone(d)
              u1 == [u0 EXCEPT !.answered = TRUE]
              u2 == [u1 EXCEPT !.unusable = TRUE]
  <2>1. ua' = [ua EXCEPT ![d] = u2]
    BY <1>6 DEF HearOk
  <2>2. u0 \in UaRecords /\ u0.st = "exit" /\ u0.call = d
    BY <1>2, <1>3, GoneFields
  <2>. HIDE DEF u0
  <2>3. u1 \in UaRecords /\ u1.st = "exit" /\ u1.call = d
    BY <2>2 DEF UaRecords
  <2>. HIDE DEF u1
  <2>4. u2 \in UaRecords /\ u2.st = "exit" /\ u2.call = d /\ u2.unusable = TRUE
    BY <2>3 DEF UaRecords
  <2>. HIDE DEF u2
  <2>5. DialerOK(d, u2, byes)
    BY <2>4 DEF DialerOK, States
  <2>6. ~Talks(u2.st) /\ Leaving(u2.st)
    BY <2>4 DEF Talks, Leaving
  <2>. QED BY <1>1, <1>4, <2>1, <2>5, <2>6, DialerStays
<1>. QED BY <1>5, <1>6

LEMMA HearRefusalCalls ==
  ASSUME CallsInv, UaFrame, NEW d \in Dialers, NEW m \in net, HearRefusal(d, m)
  PROVE  CallsInv'
<1>1. /\ ua[d].st = "calling" /\ byes' = byes /\ Exit(d)
      /\ Exchange({m}, Acks(d, ua[d].cseq))
  BY DEF HearRefusal
<1>2. ~ua[d].answered
  BY <1>1, DialerKnown DEF DialerOK
<1>3. Sends(Acks(d, ua[d].cseq))
  BY <1>1, SendsAcks
<1>. QED BY <1>1, <1>2, <1>3, DialerExits

(* The call came up although it was cancelled: a BYE is said. *)
LEMMA HearAfterCancelCalls ==
  ASSUME CallsInv, UaFrame, NEW d \in Dialers, NEW m \in net, HearAfterCancel(d, m)
  PROVE  CallsInv'
<1>. DEFINE u0 == Gone(d)
            up == m.code < 300
            u == [u0 EXCEPT !.answered = up]
            bye == InCallRequest(d, "BYE", ua[d].cseq + 1, "none", 0)
            sent == Acks(d, ua[d].cseq) \cup (IF up THEN {bye} ELSE {})
<1>1. /\ ua[d].st = "cancelling" /\ ua' = [ua EXCEPT ![d] = u] /\ Exchange({m}, sent)
      /\ up => Says(d, "BYE")
      /\ ~up => byes' = byes
  BY DEF HearAfterCancel
<1>2. /\ DialerOK(d, ua[d], byes) /\ ua[d] \in UaRecords /\ ua[d].cseq \in 0..5
      /\ up \in BOOLEAN
  BY DialerKnown
<1>3. ua[d].call = d
  BY <1>1, <1>2 DEF DialerOK
<1>4. u0 \in UaRecords /\ u0.st = "exit" /\ u0.call = d
  BY <1>2, <1>3, GoneFields
<1>. HIDE DEF u0, up
<1>5. u \in UaRecords /\ u.st = "exit" /\ u.call = d /\ u.answered = up
  BY <1>2, <1>4 DEF UaRecords
<1>. HIDE DEF u
<1>6. /\ up => byes' = byes \cup {<<d, d, "BYE">>} /\ <<d, d, "BYE">> \in byes'
      /\ "BYE" \in Hangups
  BY <1>1, <1>3 DEF Says, Hangups
<1>7. SaidBy(d)
  BY <1>1, <1>2, <1>6 DEF SaidBy
<1>8. DialerOK(d, u, byes')
  BY <1>5, <1>6 DEF DialerOK, States
<1>9. Sends(sent)
  <2>1. UNCHANGED setup /\ net' \subseteq net \cup sent
    BY <1>1, Exchanged DEF UaFrame
  <2>2. ASSUME NEW r \in Acks(d, ua[d].cseq) PROVE r \in Datagrams /\ MailOK(r)'
    BY <1>1, <2>1, <2>2, AcksSent
  <2>3. ASSUME up, NEW r, r = bye PROVE r \in Datagrams /\ MailOK(r)'
    <3>1. ua[d].cseq + 1 \in Nat /\ ua[d].st # "idle"
      BY <1>1, <1>2
    <3>. QED BY <1>6, <2>1, <2>3, <3>1, InCallSends
  <2>. QED BY <2>1, <2>2, <2>3 DEF Sends
<1>. HIDE DEF sent
<1>10. ~Talks(u.st) /\ Leaving(u.st)
  BY <1>5 DEF Talks, Leaving
<1>. QED BY <1>1, <1>7, <1>8, <1>9, <1>10, DialerChanges

(* sip_offer_t38 *)
LEMMA OfferT38Calls ==
  ASSUME CallsInv, UaFrame, NEW d \in Dialers, OfferT38(d)
  PROVE  CallsInv'
<1>. DEFINE c == ua[d].cseq + 1
            u1 == [ua[d] EXCEPT !.st = "offering"]
            u2 == [u1 EXCEPT !.cseq = c]
            u3 == [u2 EXCEPT !.auths = 0]
            sent == {InCallRequest(d, "INVITE", c, "t38", copy) : copy \in 1..Copies}
<1>1. /\ ua[d].st = "connected" /\ ua' = [ua EXCEPT ![d] = u3] /\ byes' = byes
      /\ Exchange({}, sent)
  BY DEF OfferT38
<1>2. DialerOK(d, ua[d], byes) /\ ua[d] \in UaRecords /\ ua[d].cseq \in 0..5
  BY DialerKnown
<1>3. ua[d].call = d /\ ua[d].cseq <= 3 /\ ~HungUpBy(d, byes)
  BY <1>1, <1>2 DEF DialerOK
<1>4. c \in 0..5 /\ c <= 4 /\ c \in Nat
  BY <1>2, <1>3
<1>. HIDE DEF c
<1>5. u1 \in UaRecords /\ u1.st = "offering" /\ u1.call = d
  BY <1>2, <1>3 DEF UaRecords, States
<1>. HIDE DEF u1
<1>6. u2 \in UaRecords /\ u2.st = "offering" /\ u2.call = d /\ u2.cseq = c
  BY <1>4, <1>5 DEF UaRecords
<1>. HIDE DEF u2
<1>7. u3 \in UaRecords /\ u3.st = "offering" /\ u3.call = d /\ u3.cseq = c /\ u3.auths = 0
  BY <1>6 DEF UaRecords
<1>. HIDE DEF u3
<1>8. DialerOK(d, u3, byes)
  BY <1>3, <1>4, <1>7 DEF DialerOK, States
<1>9. Sends(sent)
  <2>1. UNCHANGED setup /\ net' \subseteq net \cup sent
    BY <1>1, Exchanged DEF UaFrame
  <2>2. ASSUME NEW r \in sent PROVE r \in Datagrams /\ MailOK(r)'
    <3>1. PICK copy \in 1..Copies : r = InCallRequest(d, "INVITE", c, "t38", copy)
      BY <2>2
    <3>2. copy \in Nat /\ "INVITE" \notin Hangups /\ ua[d].st # "idle"
      BY <1>1 DEF Hangups, Copies
    <3>. QED BY <1>4, <2>1, <3>1, <3>2, InCallSends
  <2>. QED BY <2>1, <2>2 DEF Sends
<1>. HIDE DEF sent
<1>10. ~Leaving(ua[d].st) /\ Talks(ua[d].st)
  BY <1>1 DEF Talks, Leaving
<1>. QED BY <1>1, <1>8, <1>9, <1>10, DialerStays

(* The state alone changes, between those of a call. *)
LEMMA MediumChanges ==
  ASSUME CallsInv, UaFrame, NEW d \in Dialers, ua[d].st \in {"offering", "audio", "t38"},
         NEW x \in {"audio", "t38"}, ua' = [ua EXCEPT ![d].st = x], byes' = byes,
         NEW sent, Sends(sent)
  PROVE  CallsInv'
<1>. DEFINE u == [ua[d] EXCEPT !.st = x]
<1>1. ua' = [ua EXCEPT ![d] = u]
  OBVIOUS
<1>2. DialerOK(d, ua[d], byes) /\ ua[d] \in UaRecords
  BY DialerKnown
<1>3. u \in UaRecords /\ u.st = x /\ u.call = ua[d].call
  BY <1>2 DEF UaRecords, States
<1>. HIDE DEF u
<1>4. DialerOK(d, u, byes)
  BY <1>2, <1>3 DEF DialerOK, States
<1>5. ~Leaving(ua[d].st) /\ Talks(ua[d].st)
  BY DEF Talks, Leaving
<1>. QED BY <1>1, <1>4, <1>5, DialerStays

LEMMA OfferTimeoutCalls ==
  ASSUME CallsInv, UaFrame, NEW d \in Dialers, OfferTimeout(d)
  PROVE  CallsInv'
BY MediumChanges, SendsNothing DEF OfferTimeout, Keep

LEMMA HearOfferedCalls ==
  ASSUME CallsInv, UaFrame, NEW d \in Dialers, NEW m \in net, HearOffered(d, m)
  PROVE  CallsInv'
<1>1. ua[d].st = "offering" /\ byes' = byes
  BY DEF HearOffered
<1>2. DialerOK(d, ua[d], byes) /\ ua[d] \in UaRecords /\ ua[d].cseq \in 0..5
  BY DialerKnown
<1>. DEFINE again == [ua[d] EXCEPT !.cseq = @ + 1, !.auths = 1]
            request == InCallRequest(d, "INVITE", ua[d].cseq + 1, "t38", 1)
            x == IF m.code = 200 /\ m.sdp = "t38" THEN "t38" ELSE "audio"
<1>3. CASE /\ ua[d].auths = 0 /\ ua' = [ua EXCEPT ![d] = again]
           /\ Exchange({m}, Acks(d, ua[d].cseq) \cup {request})
  <2>. DEFINE c == ua[d].cseq + 1
              u1 == [ua[d] EXCEPT !.cseq = c]
              u2 == [u1 EXCEPT !.auths = 1]
              r == InCallRequest(d, "INVITE", c, "t38", 1)
  <2>1. ua' = [ua EXCEPT ![d] = u2] /\ Exchange({m}, Acks(d, ua[d].cseq) \cup {r})
    BY <1>3
  <2>2. ua[d].call = d /\ ua[d].cseq <= 4 /\ ~HungUpBy(d, byes)
    BY <1>1, <1>2, <1>3 DEF DialerOK
  <2>3. c \in 0..5 /\ c <= 4 + 1 /\ c \in Nat
    BY <1>2, <2>2
  <2>. HIDE DEF c
  <2>4. u1 \in UaRecords /\ u1.st = "offering" /\ u1.call = d /\ u1.cseq = c
    BY <1>1, <1>2, <2>2, <2>3 DEF UaRecords
  <2>. HIDE DEF u1
  <2>5. u2 \in UaRecords /\ u2.st = "offering" /\ u2.call = d /\ u2.cseq = c /\ u2.auths = 1
    BY <2>4 DEF UaRecords
  <2>. HIDE DEF u2
  <2>6. DialerOK(d, u2, byes)
    BY <2>2, <2>3, <2>5 DEF DialerOK, States
  <2>7. Sends(Acks(d, ua[d].cseq) \cup {r})
    BY <1>1, <2>1, <2>3, SendsAgain
  <2>. HIDE DEF r
  <2>8. ~Leaving(ua[d].st) /\ Talks(ua[d].st)
    BY <1>1 DEF Talks, Leaving
  <2>. QED BY <1>1, <2>1, <2>6, <2>7, <2>8, DialerStays
<1>4. CASE ua' = [ua EXCEPT ![d].st = x] /\ Exchange({m}, Acks(d, ua[d].cseq))
  <2>1. x \in {"audio", "t38"}
    OBVIOUS
  <2>. HIDE DEF x
  <2>2. Sends(Acks(d, ua[d].cseq))
    BY <1>1, <1>4, SendsAcks
  <2>. QED BY <1>1, <1>4, <2>1, <2>2, MediumChanges
<1>. QED BY <1>3, <1>4 DEF HearOffered

(* A BYE is taken: by a dialer in a call, which leaves without one.          *)
LEMMA DialerHearsBye ==
  ASSUME CallsInv, UaFrame, NEW d \in Dialers, NEW m \in net, m.to = d,
         HearByeOffering(d, m) \/ PollBye(d, m)
  PROVE  CallsInv'
<1>1. /\ ua[d].st \in {"offering", "audio", "t38"} /\ byes' = byes
      /\ Exchange({m}, {Response(m, 200, "none")})
  BY DEF HearByeOffering, PollBye, InCall
<1>2. DialerOK(d, ua[d], byes) /\ ua[d] \in UaRecords
  BY DialerKnown
<1>3. Sends({Response(m, 200, "none")}) /\ ~Leaving(ua[d].st) /\ Talks(ua[d].st)
  <2>. DEFINE r == Response(m, 200, "none")
  <2>1. IsReply(r, m) /\ Exchange({m}, {r}) /\ m.to \in Dialers
    BY <1>1 DEF IsReply
  <2>. HIDE DEF r
  <2>2. Sends({r})
    BY <2>1, SendsReply
  <2>. QED BY <1>1, <2>2 DEF Talks, Leaving, r
<1>4. CASE HearByeOffering(d, m)
  <2>. DEFINE u1 == [ua[d] EXCEPT !.st = "audio"]
              u2 == [u1 EXCEPT !.hung = TRUE]
  <2>1. ua' = [ua EXCEPT ![d] = u2]
    BY <1>4 DEF HearByeOffering
  <2>2. u1 \in UaRecords /\ u1.st = "audio" /\ u1.call = ua[d].call
    BY <1>2 DEF UaRecords, States
  <2>. HIDE DEF u1
  <2>3. u2 \in UaRecords /\ u2.st = "audio" /\ u2.call = ua[d].call
    BY <2>2 DEF UaRecords
  <2>. HIDE DEF u2
  <2>4. DialerOK(d, u2, byes)
    BY <1>1, <1>2, <2>3 DEF DialerOK, States
  <2>. QED BY <1>1, <1>3, <2>1, <2>4, DialerStays
<1>5. CASE PollBye(d, m)
  <2>. DEFINE u == [ua[d] EXCEPT !.hung = TRUE]
  <2>1. ua' = [ua EXCEPT ![d] = u] /\ ua[d].st \in {"audio", "t38"}
    BY <1>5 DEF PollBye, InCall
  <2>2. u \in UaRecords /\ u.st = ua[d].st /\ u.call = ua[d].call
    BY <1>2 DEF UaRecords
  <2>. HIDE DEF u
  <2>3. DialerOK(d, u, byes)
    BY <1>2, <2>1, <2>2 DEF DialerOK, States
  <2>. QED BY <1>1, <1>3, <2>1, <2>3, DialerStays
<1>. QED BY <1>4, <1>5

(* What changes nothing of the dialer: it throws datagrams away or answers. *)
LEMMA DialerUnchanged ==
  ASSUME CallsInv, UaFrame, UNCHANGED <<ua, byes>>,
         NEW used, NEW sent, Exchange(used, sent), Sends(sent)
  PROVE  CallsInv'
<1>1. UNCHANGED <<ua, setup, byes, daemonVars>>
  BY DEF UaFrame
<1>2. sent \subseteq Datagrams /\ \A r \in sent : MailOK(r)'
  BY DEF Sends
<1>. QED BY <1>1, <1>2, OnlyMail

LEMMA HearIgnoredCalls ==
  ASSUME CallsInv, UaFrame, NEW u, NEW m, HearIgnored(u, m) \/ PollIgnored(u, m)
  PROVE  CallsInv'
<1>1. UNCHANGED <<ua, byes>> /\ Exchange({m}, {})
  BY DEF HearIgnored, PollIgnored
<1>. QED BY <1>1, SendsNothing, DialerUnchanged

(* sip_media_poll_sip *)
LEMMA PollResponseCalls ==
  ASSUME CallsInv, UaFrame, NEW d \in Dialers, NEW m \in net, PollResponse(d, m)
  PROVE  CallsInv'
<1>1. UNCHANGED <<ua, byes>> /\ ua[d].st # "idle"
  BY DEF PollResponse, InCall
<1>2. CASE m.code = 200
  <2>1. Exchange({m}, Acks(d, ua[d].cseq))
    BY <1>2 DEF PollResponse
  <2>. QED BY <1>1, <2>1, SendsAcks, DialerUnchanged
<1>3. CASE m.code # 200
  <2>1. Exchange({m}, {})
    BY <1>3 DEF PollResponse
  <2>. QED BY <1>1, <2>1, SendsNothing, DialerUnchanged
<1>. QED BY <1>2, <1>3

LEMMA PollReinviteCalls ==
  ASSUME CallsInv, UaFrame, NEW d \in Dialers, NEW m \in net, m.to = d, PollReinvite(d, m)
  PROVE  CallsInv'
<1>1. byes' = byes /\ ua[d].st \in {"audio", "t38"}
  BY DEF PollReinvite, InCall
<1>. DEFINE takes == m.sdp = "t38" /\ (d \in T38Dialers \/ (d = "answerer" /\ callee_t38))
<1>2. CASE takes
  <2>1. ua' = [ua EXCEPT ![d].st = "t38"] /\ Exchange({m}, {Response(m, 200, "t38")})
    BY <1>2 DEF PollReinvite
  <2>2. Sends({Response(m, 200, "t38")})
    BY <2>1, SendsReply DEF IsReply
  <2>. QED BY <1>1, <2>1, <2>2, MediumChanges
<1>3. CASE ~takes
  <2>1. UNCHANGED <<ua, byes>> /\ Exchange({m}, {Response(m, 488, "none")})
    BY <1>1, <1>3 DEF PollReinvite
  <2>. DEFINE r == Response(m, 488, "none")
  <2>2. IsReply(r, m) /\ Exchange({m}, {r}) /\ m.to \in Dialers
    BY <2>1 DEF IsReply
  <2>. HIDE DEF r
  <2>3. Sends({r})
    BY <2>2, SendsReply
  <2>. QED BY <2>1, <2>2, <2>3, DialerUnchanged
<1>. QED BY <1>2, <1>3

(* sip_media_hangup: it says BYE unless the other did. *)
LEMMA LeaveCalls ==
  ASSUME CallsInv, UaFrame, NEW d \in Dialers, Leave(d)
  PROVE  CallsInv'
<1>1. ua[d].st \in {"audio", "t38"}
  BY DEF Leave, InCall
<1>2. DialerOK(d, ua[d], byes) /\ ua[d] \in UaRecords /\ ua[d].cseq \in 0..5
  BY DialerKnown
<1>3. ua[d].call = d
  BY <1>1, <1>2 DEF DialerOK
<1>4. CASE ua[d].hung
  <2>1. Exit(d) /\ byes' = byes /\ Exchange({}, {}) /\ ua[d].st # "idle"
    BY <1>1, <1>4 DEF Leave, Keep
  <2>. QED BY <1>4, <2>1, SendsNothing, DialerExits
<1>5. CASE ~ua[d].hung
  <2>. DEFINE u == [ua[d] EXCEPT !.st = "bye"]
              m == InCallRequest(d, "BYE", ua[d].cseq + 1, "none", 0)
  <2>1. /\ ua' = [ua EXCEPT ![d] = u] /\ byes' = byes \cup {<<d, d, "BYE">>}
        /\ Exchange({}, {m}) /\ "BYE" \in Hangups
    BY <1>3, <1>5 DEF Leave, Says, Hangups
  <2>2. u \in UaRecords /\ u.st = "bye" /\ u.call = d
    BY <1>2, <1>3 DEF UaRecords, States
  <2>. HIDE DEF u
  <2>3. DialerOK(d, u, byes')
    BY <2>1, <2>2 DEF DialerOK, States
  <2>4. Sends({m})
    <3>1. ua[d].cseq + 1 \in Nat /\ ua[d].st # "idle" /\ <<d, d, "BYE">> \in byes'
      BY <1>1, <1>2, <2>1
    <3>. QED BY <2>1, <3>1, SendsRequest
  <2>. HIDE DEF m
  <2>5. ~Talks(u.st) /\ Leaving(u.st) /\ SaidBy(d)
    BY <2>1, <2>2 DEF Talks, Leaving, SaidBy
  <2>. QED BY <2>1, <2>3, <2>4, <2>5, DialerChanges
<1>. QED BY <1>4, <1>5

LEMMA HungUpCalls ==
  ASSUME CallsInv, UaFrame, NEW d \in Dialers, NEW used, HungUp(d, used)
  PROVE  CallsInv'
<1>1. ua[d].st = "bye" /\ Exit(d) /\ byes' = byes /\ Exchange(used, {})
  BY DEF HungUp
<1>. QED BY <1>1, SendsNothing, DialerExits

(* Every step of a dialer. *)
LEMMA DialerCalls ==
  ASSUME CallsInv, UaFrame, NEW d \in Dialers,
         UaStep(d) \/ \E m \in net : UaHears(d, m)
  PROVE  CallsInv'
<1>1. CASE UaStep(d)
  BY <1>1, DialCalls, RetransmitInviteCalls, GiveUpCalls, CancelTimeoutCalls, OfferT38Calls,
     OfferTimeoutCalls, LeaveCalls, HungUpCalls DEF UaStep
<1>2. ASSUME NEW m \in net, UaHears(d, m) PROVE CallsInv'
  <2>1. m.to = d
    BY <1>2 DEF UaHears
  <2>2. CASE \/ HearProvisional(d, m) \/ HearChallenge(d, m) \/ HearOk(d, m)
             \/ HearRefusal(d, m) \/ HearAfterCancel(d, m)
    BY <2>1, <2>2, HearProvisionalCalls, HearChallengeCalls, HearOkCalls, HearRefusalCalls,
       HearAfterCancelCalls
  <2>3. CASE \/ HearOffered(d, m) \/ HearByeOffering(d, m) \/ HearIgnored(d, m)
             \/ PollBye(d, m) \/ PollIgnored(d, m)
    BY <2>1, <2>3, HearOfferedCalls, DialerHearsBye, HearIgnoredCalls
  <2>4. CASE PollResponse(d, m) \/ PollReinvite(d, m) \/ HungUp(d, {m})
    BY <2>1, <2>4, PollResponseCalls, PollReinviteCalls, HungUpCalls
  <2>. QED BY <1>2, <2>2, <2>3, <2>4 DEF UaHears
<1>. QED BY <1>1, <1>2

-----------------------------------------------------------------------------
(* The answering program is not called when the daemon is. *)
LEMMA AnswererKnown ==
  ASSUME CallsInv
  PROVE  /\ AnswererOK(ua["answerer"]) /\ ua["answerer"] \in UaRecords
         /\ ua["answerer"].hung \in BOOLEAN /\ ua["answerer"].cseq \in 0..5
         /\ ua["answerer"].sends \in 0..2
         /\ ua["answerer"].st # "waiting" => callee # "daemon"
         /\ \A m \in net : m.to = "answerer" => callee # "daemon"
         /\ "answerer" \notin Dialers
<1>1. AnswererOK(ua["answerer"]) /\ ua["answerer"] \in UaRecords
  BY DEF CallsInv, UasInv, AnswererOK
<1>2. ua["answerer"].st # "waiting" => callee # "daemon"
  BY <1>1 DEF AnswererOK
<1>3. \A m \in net : m.to = "answerer" => callee # "daemon"
  BY DEF CallsInv, MailInv, MailOK
<1>. QED BY <1>1, <1>2, <1>3, Names DEF UaRecords

(* What it sends to a dialer, or in response. *)
LEMMA AnswererMail ==
  ASSUME UaFrame, callee # "daemon", NEW sent \in SUBSET Datagrams,
         \A m \in sent : m.to # "daemon" \/ m.code # 0, NEW used, Exchange(used, sent)
  PROVE  Sends(sent)
<1>1. net' \subseteq net \cup sent /\ callee' = callee
  BY Exchanged DEF UaFrame, setup
<1>2. \A m \in sent : MailOK(m)'
  BY <1>1 DEF MailOK
<1>. QED BY <1>1, <1>2 DEF Sends

(* It changes and says nothing new. *)
LEMMA AnswererStays ==
  ASSUME CallsInv, UaFrame, NEW u, ua' = [ua EXCEPT !["answerer"] = u], byes' = byes,
         AnswererOK(u), NEW sent, Sends(sent)
  PROVE  CallsInv'
BY AnswererChanges

LEMMA AnswerInviteCalls ==
  ASSUME CallsInv, UaFrame, NEW m \in net, m.to = "answerer", AnswerInvite(m)
  PROVE  CallsInv'
<1>1. callee # "daemon" /\ m \in Datagrams /\ m.call \in Dialers
  BY AnswererKnown DEF CallsInv, MailInv, Datagrams
<1>2. CASE m.sdp = "audio"
  <2>. DEFINE u0 == NewUa("acking")
              u1 == [u0 EXCEPT !.call = m.call]
              u2 == [u1 EXCEPT !.sends = 1]
  <2>1. ua' = [ua EXCEPT !["answerer"] = u2] /\ byes' = byes /\ Exchange({m}, Answers(m))
    BY <1>2 DEF AnswerInvite
  <2>2. u0 \in UaRecords /\ u0.st = "acking"
    BY FreshFields
  <2>. HIDE DEF u0
  <2>3. u1 \in UaRecords /\ u1.st = "acking" /\ u1.call = m.call
    BY <1>1, <2>2 DEF UaRecords
  <2>. HIDE DEF u1
  <2>4. u2 \in UaRecords /\ u2.st = "acking" /\ u2.call = m.call
    BY <2>3 DEF UaRecords
  <2>. HIDE DEF u2
  <2>5. AnswererOK(u2)
    BY <1>1, <2>4 DEF AnswererOK
  <2>6. Sends(Answers(m))
    <3>1. /\ Response(m, 180, "none") \in Datagrams /\ Response(m, 180, "none").code # 0
          /\ Response(m, 200, "audio") \in Datagrams /\ Response(m, 200, "audio").code # 0
      BY <1>1, ResponseFields
    <3>2. /\ Answers(m) \in SUBSET Datagrams
          /\ \A r \in Answers(m) : r.to # "daemon" \/ r.code # 0
      BY <3>1 DEF Answers
    <3>. QED BY <1>1, <2>1, <3>2, AnswererMail
  <2>. QED BY <2>1, <2>5, <2>6, AnswererStays
<1>3. CASE m.sdp # "audio"
  <2>1. UNCHANGED <<ua, byes>> /\ Exchange({m}, {})
    BY <1>3 DEF AnswerInvite
  <2>. QED BY <2>1, SendsNothing, DialerUnchanged
<1>. QED BY <1>2, <1>3

(* While it waits for the ACK it may send its 200 again. *)
LEMMA AckingCalls ==
  ASSUME CallsInv, UaFrame,
         ResendOk \/ \E m \in net : m.to = "answerer" /\ HearAcking(m)
  PROVE  CallsInv'
<1>1. UNCHANGED byes /\ ua["answerer"].st = "acking"
  BY DEF ResendOk, HearAcking
<1>2. /\ AnswererOK(ua["answerer"]) /\ ua["answerer"] \in UaRecords /\ callee # "daemon"
      /\ ua["answerer"].sends \in 0..2
  BY <1>1, AnswererKnown
<1>3. ua["answerer"].call \in Dialers
  BY <1>1, <1>2 DEF AnswererOK
<1>4. CASE ResendOk
  <2>. DEFINE u == [ua["answerer"] EXCEPT !.sends = ua["answerer"].sends + 1]
              call == ua["answerer"].call
              q == Request("INVITE", call, call, "answerer", 1, "audio", 1)
              r == Response(q, 200, "audio")
  <2>1. /\ ua' = [ua EXCEPT !["answerer"] = u] /\ ua["answerer"].sends = 1
        /\ Exchange({}, {r})
    BY <1>4 DEF ResendOk, Peer
  <2>2. u \in UaRecords /\ u.st = "acking" /\ u.call = call
    BY <1>1, <1>2, <2>1 DEF UaRecords
  <2>. HIDE DEF u
  <2>3. AnswererOK(u)
    BY <1>2, <1>3, <2>2 DEF AnswererOK
  <2>4. q \in Datagrams
    BY <1>3, Names DEF Request, Datagrams
  <2>. HIDE DEF q
  <2>5. r \in Datagrams /\ r.code # 0
    BY <2>4, ResponseFields
  <2>. HIDE DEF r
  <2>6. {r} \in SUBSET Datagrams /\ \A x \in {r} : x.to # "daemon" \/ x.code # 0
    BY <2>5
  <2>7. Sends({r})
    BY <1>2, <2>1, <2>6, AnswererMail
  <2>. QED BY <1>1, <2>1, <2>3, <2>7, AnswererStays
<1>5. ASSUME NEW m \in net, HearAcking(m) PROVE CallsInv'
  <2>. DEFINE p == [m EXCEPT !.call = ua["answerer"].call]
              q == [p EXCEPT !.cseq = 1]
              r == Response(q, 200, "audio")
              sent == IF m.method = "INVITE" /\ ~IsResponse(m) THEN {r} ELSE {}
  <2>1. UNCHANGED <<ua, byes>> /\ Exchange({m}, sent)
    BY <1>5 DEF HearAcking
  <2>2. m \in Datagrams
    BY DEF CallsInv, MailInv
  <2>3. p \in Datagrams
    BY <1>3, <2>2 DEF Datagrams
  <2>. HIDE DEF p
  <2>4. q \in Datagrams
    BY <2>3 DEF Datagrams
  <2>. HIDE DEF q
  <2>5. r \in Datagrams /\ r.code # 0
    BY <2>4, ResponseFields
  <2>. HIDE DEF r
  <2>6. sent \in SUBSET Datagrams /\ \A x \in sent : x.to # "daemon" \/ x.code # 0
    BY <2>5
  <2>. HIDE DEF sent
  <2>7. Sends(sent)
    BY <1>2, <2>1, <2>6, AnswererMail
  <2>. QED BY <2>1, <2>7, DialerUnchanged
<1>. QED BY <1>4, <1>5

(* It moves between its states and sends what it may. *)
LEMMA AnswererMoves ==
  ASSUME CallsInv, UaFrame, ua["answerer"].st # "waiting", NEW x \in {"waiting", "audio", "t38"},
         x = "waiting" \/ ua["answerer"].st \in {"acking", "audio", "t38"},
         ua' = [ua EXCEPT !["answerer"].st = x], byes' = byes,
         NEW sent, Sends(sent)
  PROVE  CallsInv'
<1>. DEFINE u == [ua["answerer"] EXCEPT !.st = x]
<1>1. ua' = [ua EXCEPT !["answerer"] = u]
  OBVIOUS
<1>2. AnswererOK(ua["answerer"]) /\ ua["answerer"] \in UaRecords /\ callee # "daemon"
  BY AnswererKnown
<1>3. u \in UaRecords /\ u.st = x /\ u.call = ua["answerer"].call
  BY <1>2 DEF UaRecords, States
<1>. HIDE DEF u
<1>4. AnswererOK(u)
  BY <1>2, <1>3 DEF AnswererOK
<1>. QED BY <1>1, <1>4, AnswererStays

LEMMA AnswererPolls ==
  ASSUME CallsInv, UaFrame, NEW m \in net, m.to = "answerer",
         \/ PollResponse("answerer", m) \/ PollBye("answerer", m) \/ PollReinvite("answerer", m)
  PROVE  CallsInv'
<1>1. byes' = byes /\ ua["answerer"].st \in {"audio", "t38"}
  BY DEF PollResponse, PollBye, PollReinvite, InCall
<1>2. /\ AnswererOK(ua["answerer"]) /\ ua["answerer"] \in UaRecords /\ callee # "daemon"
      /\ "answerer" \notin Dialers /\ m \in Datagrams
  BY AnswererKnown DEF CallsInv, MailInv
<1>3. ASSUME NEW r, IsReply(r, m), Exchange({m}, {r}) PROVE Sends({r})
  <2>1. r \in Datagrams /\ r.code # 0
    BY <1>2, <1>3, ResponseFields DEF IsReply
  <2>2. {r} \in SUBSET Datagrams /\ \A y \in {r} : y.to # "daemon" \/ y.code # 0
    BY <2>1
  <2>. QED BY <1>2, <1>3, <2>2, AnswererMail
<1>4. CASE PollResponse("answerer", m)
  <2>1. UNCHANGED <<ua, byes>> /\ Exchange({m}, {})
    BY <1>2, <1>4 DEF PollResponse, Acks
  <2>. QED BY <2>1, SendsNothing, DialerUnchanged
<1>5. CASE PollBye("answerer", m)
  <2>. DEFINE u == [ua["answerer"] EXCEPT !.hung = TRUE]
              r == Response(m, 200, "none")
  <2>1. ua' = [ua EXCEPT !["answerer"] = u] /\ Exchange({m}, {r}) /\ IsReply(r, m)
    BY <1>5 DEF PollBye, IsReply
  <2>2. u \in UaRecords /\ u.st = ua["answerer"].st /\ u.call = ua["answerer"].call
    BY <1>2 DEF UaRecords
  <2>. HIDE DEF u, r
  <2>3. AnswererOK(u)
    BY <1>2, <2>2 DEF AnswererOK
  <2>4. Sends({r})
    BY <1>3, <2>1
  <2>. QED BY <1>1, <2>1, <2>3, <2>4, AnswererStays
<1>6. CASE PollReinvite("answerer", m)
  <2>. DEFINE yes == Response(m, 200, "t38")
              no == Response(m, 488, "none")
  <2>1. \/ ua' = [ua EXCEPT !["answerer"].st = "t38"] /\ Exchange({m}, {yes})
        \/ ua' = ua /\ Exchange({m}, {no})
    BY <1>6 DEF PollReinvite
  <2>2. IsReply(yes, m) /\ IsReply(no, m)
    BY DEF IsReply
  <2>. HIDE DEF yes, no
  <2>3. CASE ua' = [ua EXCEPT !["answerer"].st = "t38"] /\ Exchange({m}, {yes})
    <3>1. Sends({yes})
      BY <1>3, <2>2, <2>3
    <3>. QED BY <1>1, <2>3, <3>1, AnswererMoves
  <2>4. CASE ua' = ua /\ Exchange({m}, {no})
    <3>1. Sends({no})
      BY <1>3, <2>2, <2>4
    <3>. QED BY <1>1, <2>4, <3>1, DialerUnchanged
  <2>. QED BY <2>1, <2>3, <2>4
<1>. QED BY <1>4, <1>5, <1>6

(* It hangs up. *)
LEMMA AnswererLeaves ==
  ASSUME CallsInv, UaFrame,
         Leave("answerer") \/ \E used : HungUp("answerer", used)
  PROVE  CallsInv'
<1>1. ua["answerer"].st \in {"audio", "t38", "bye"}
  BY DEF Leave, HungUp, InCall
<1>2. /\ AnswererOK(ua["answerer"]) /\ ua["answerer"] \in UaRecords /\ callee # "daemon"
      /\ ua["answerer"].cseq \in 0..5 /\ "answerer" \notin Dialers
  BY <1>1, AnswererKnown
<1>3. ua["answerer"].call \in Dialers
  BY <1>1, <1>2 DEF AnswererOK
<1>4. ASSUME Exit("answerer"), byes' = byes, NEW used, Exchange(used, {}) PROVE CallsInv'
  <2>. DEFINE u == Gone("answerer")
  <2>1. ua' = [ua EXCEPT !["answerer"] = u]
    BY <1>4 DEF Exit
  <2>2. u \in UaRecords /\ u.st = "exit"
    BY <1>2, GoneFields
  <2>. HIDE DEF u
  <2>3. AnswererOK(u)
    BY <1>2, <2>2 DEF AnswererOK
  <2>. QED BY <1>4, <2>1, <2>3, SendsNothing, AnswererStays
<1>5. ASSUME NEW used, HungUp("answerer", used) PROVE CallsInv'
  BY <1>4, <1>5 DEF HungUp
<1>6. CASE Leave("answerer") /\ ua["answerer"].hung
  BY <1>4, <1>6 DEF Leave, Keep
<1>7. CASE Leave("answerer") /\ ~ua["answerer"].hung
  <2>. DEFINE u == [ua["answerer"] EXCEPT !.st = "bye"]
              m == InCallRequest("answerer", "BYE", ua["answerer"].cseq + 1, "none", 0)
              call == ua["answerer"].call
  <2>1. /\ ua' = [ua EXCEPT !["answerer"] = u] /\ byes' = byes \cup {<<call, "answerer", "BYE">>}
        /\ Exchange({}, {m})
    BY <1>7 DEF Leave, Says
  <2>2. u \in UaRecords /\ u.st = "bye" /\ u.call = call
    BY <1>2 DEF UaRecords, States
  <2>. HIDE DEF u
  <2>3. AnswererOK(u)
    BY <1>2, <1>3, <2>2 DEF AnswererOK
  <2>4. m = Request("BYE", call, "answerer", call, ua["answerer"].cseq + 1, "none", 0)
    BY DEF InCallRequest, Peer
  <2>5. ua["answerer"].cseq + 1 \in Nat
    BY <1>2
  <2>6. m \in Datagrams /\ m.to = call
    BY <1>3, <2>4, <2>5, Names DEF Request, Datagrams, Hangups
  <2>. HIDE DEF m
  <2>7. {m} \in SUBSET Datagrams /\ \A x \in {m} : x.to # "daemon" \/ x.code # 0
    BY <1>3, <2>6, Names
  <2>8. Sends({m})
    BY <1>2, <2>1, <2>7, AnswererMail
  <2>. QED BY <2>1, <2>3, <2>8, AnswererChanges
<1>. QED BY <1>5, <1>6, <1>7

(* Every step of the answering program. *)
LEMMA AnswererCalls ==
  ASSUME CallsInv, UaFrame,
         \/ UaStep("answerer") \/ AnswererStep
         \/ \E m \in net : UaHears("answerer", m) \/ AnswererHears(m)
  PROVE  CallsInv'
<1>1. /\ AnswererOK(ua["answerer"]) /\ "answerer" \notin Dialers
  BY AnswererKnown
<1>2. ua["answerer"].st \notin {"idle", "calling", "cancelling", "connected", "offering"}
  BY <1>1 DEF AnswererOK
<1>3. CASE UaStep("answerer")
  <2>1. Leave("answerer") \/ HungUp("answerer", {})
    BY <1>1, <1>2, <1>3 DEF UaStep, Dial, RetransmitInvite, GiveUp, CancelTimeout, OfferT38,
       OfferTimeout
  <2>. QED BY <2>1, AnswererLeaves
<1>4. CASE ResendOk
  BY <1>4, AckingCalls
<1>5. CASE NoAck
  <2>1. /\ ua["answerer"].st = "acking" /\ ua' = [ua EXCEPT !["answerer"].st = "waiting"]
        /\ byes' = byes /\ Exchange({}, {})
    BY <1>5 DEF NoAck, Keep
  <2>. QED BY <2>1, SendsNothing, AnswererMoves
<1>6. ASSUME NEW m \in net, UaHears("answerer", m) PROVE CallsInv'
  <2>1. m.to = "answerer"
    BY <1>6 DEF UaHears
  <2>2. \/ HearIgnored("answerer", m) \/ PollIgnored("answerer", m) \/ HungUp("answerer", {m})
        \/ PollResponse("answerer", m) \/ PollBye("answerer", m) \/ PollReinvite("answerer", m)
    BY <1>2, <1>6 DEF UaHears, HearProvisional, HearChallenge, HearOk, HearRefusal,
       HearAfterCancel, HearOffered, HearByeOffering
  <2>. QED BY <2>1, <2>2, HearIgnoredCalls, AnswererLeaves, AnswererPolls
<1>7. ASSUME NEW m \in net, AnswererHears(m) PROVE CallsInv'
  <2>1. m.to = "answerer"
    BY <1>7 DEF AnswererHears
  <2>2. CASE AnswerInvite(m)
    BY <2>1, <2>2, AnswerInviteCalls
  <2>3. CASE HearAck(m)
    <3>1. /\ ua["answerer"].st = "acking" /\ ua' = [ua EXCEPT !["answerer"].st = "audio"]
          /\ byes' = byes /\ Exchange({m}, {})
      BY <2>3 DEF HearAck
    <3>. QED BY <3>1, SendsNothing, AnswererMoves
  <2>4. CASE HearAcking(m)
    BY <2>1, <2>4, AckingCalls
  <2>5. CASE HearWaiting(m)
    <3>1. UNCHANGED <<ua, byes>> /\ Exchange({m}, {})
      BY <2>5 DEF HearWaiting
    <3>. QED BY <3>1, SendsNothing, DialerUnchanged
  <2>. QED BY <1>7, <2>2, <2>3, <2>4, <2>5 DEF AnswererHears
<1>. QED BY <1>3, <1>4, <1>5, <1>6, <1>7 DEF AnswererStep

-----------------------------------------------------------------------------
(* The gateway answers, asks and hangs up. *)
LEMMA GatewayStepCalls ==
  ASSUME CallsInv, UaFrame, UNCHANGED ua, NEW m \in net, GatewayStep(m)
  PROVE  CallsInv'
<1>. DEFINE q(a) == [m EXCEPT !.method = IF a[1] = 487 THEN "INVITE" ELSE m.method]
<1>1. PICK answer \in GatewayAnswers(m) :
             Exchange({m}, {Response(q(a), a[1], a[2]) : a \in answer})
  BY DEF GatewayStep
<1>. DEFINE sent == {Response(q(a), a[1], a[2]) : a \in answer}
<1>2. byes' = byes /\ m \in Datagrams
  BY DEF GatewayStep, CallsInv, MailInv
<1>3. \A a \in answer : /\ a[1] \in {180, 200, 407, 486, 487, 488}
                        /\ a[2] \in {"none", "audio", "t38"}
  BY DEF GatewayAnswers
<1>4. ASSUME NEW r \in sent PROVE r \in Datagrams /\ MailOK(r)'
  <2>1. PICK a \in answer : r = Response(q(a), a[1], a[2])
    BY <1>4
  <2>2. q(a) \in Datagrams
    BY <1>2 DEF Datagrams
  <2>. HIDE DEF q
  <2>3. r \in Datagrams /\ r.code = a[1]
    BY <1>3, <2>1, <2>2, ResponseFields
  <2>4. r.code # 0
    BY <1>3, <2>3
  <2>5. callee # "daemon"
    BY DEF GatewayStep, CallsInv, MailInv, MailOK
  <2>6. callee' = callee
    BY DEF UaFrame, setup
  <2>. QED BY <2>3, <2>4, <2>5, <2>6 DEF MailOK
<1>5. Exchange({m}, sent)
  BY <1>1
<1>. HIDE DEF sent
<1>6. sent \subseteq Datagrams /\ \A r \in sent : MailOK(r)'
  BY <1>4
<1>7. UNCHANGED <<ua, setup, byes, daemonVars>>
  BY <1>2 DEF UaFrame
<1>. QED BY <1>5, <1>6, <1>7, OnlyMail

LEMMA GatewayAsksCalls ==
  ASSUME CallsInv, UaFrame, UNCHANGED ua, NEW d \in Dialers, callee = "gateway", GatewayAsks(d)
  PROVE  CallsInv'
<1>1. ua[d].call = d
  <2>1. DialerOK(d, ua[d], byes)
    BY DialerKnown
  <2>. QED BY <2>1 DEF DialerOK, GatewayAsks
<1>2. PICK ask \in {"INVITE", "BYE"} :
        /\ Exchange({}, {Request(ask, d, "gateway", d, 1, IF ask = "BYE" THEN "none" ELSE "t38", 0)})
        /\ byes' = byes \/ byes' = byes \cup {<<d, "gateway", "BYE">>}
  BY <1>1 DEF GatewayAsks
<1>. DEFINE x == IF ask = "BYE" THEN "none" ELSE "t38"
            m == Request(ask, d, "gateway", d, 1, x, 0)
<1>3. net' \subseteq net \cup {m}
  BY <1>2, Exchanged
<1>4. UNCHANGED setup /\ UNCHANGED <<calls, child, pc, g_sigchld>> /\ callee' = callee
  BY DEF UaFrame, setup, daemonVars
<1>5. x \in {"none", "t38"}
  OBVIOUS
<1>. HIDE DEF x
<1>6. m \in Datagrams /\ m.to = d
  BY <1>5, Names DEF Request, Datagrams, Hangups
<1>. HIDE DEF m
<1>7. MailOK(m)'
  BY <1>4, <1>6, Names DEF MailOK
<1>8. byes \subseteq byes' /\ \A e \in Dialers : HungUpBy(e, byes') => HungUpBy(e, byes)
  BY <1>2, Names DEF HungUpBy
<1>9. \A e \in Dialers : Served(e) => Served(e)'
  BY <1>4, <1>8, ServedStays DEF Active
<1>10. \A s \in 1..Slots : SlotOK(calls'[s], child'[s], byes', pc')
  BY <1>4, <1>8, SlotLater DEF CallsInv, SlotsInv
<1>11. /\ DOMAIN calls' = 1..Slots /\ DOMAIN child' = 1..Slots
       /\ pc' \in {"loop", "reap", "shutdown"} /\ g_sigchld' \in BOOLEAN
  BY <1>4 DEF CallsInv, SlotsInv
<1>. DEFINE sent == {m}
<1>12. /\ net' \subseteq net \cup sent /\ sent \subseteq Datagrams
       /\ \A r \in sent : MailOK(r)'
  BY <1>3, <1>6, <1>7
<1>13. UNCHANGED <<ua, setup>>
  BY <1>4
<1>. HIDE DEF sent
<1>. QED BY <1>8, <1>9, <1>10, <1>11, <1>12, <1>13, OthersChange

-----------------------------------------------------------------------------
(* The invariant holds before the first call. *)
LEMMA CallsInit ==
  ASSUME Init PROVE CallsInv
<1>1. SetupInv
  BY DEF Init, UaInit, SetupInv
<1>2. MailInv
  BY DEF Init, UaInit, MailInv
<1>3. /\ ua = [u \in Uas |-> NewUa(IF u \in Dialers THEN "idle" ELSE "waiting")]
      /\ byes = {} /\ "answerer" \in Uas /\ "answerer" \notin Dialers /\ Dialers \subseteq Uas
  BY Names DEF Init, UaInit
<1>4. ua["answerer"] = NewUa("waiting") /\ \A d \in Dialers : ua[d] = NewUa("idle")
  BY <1>3
<1>5. ua["answerer"] \in UaRecords /\ ua["answerer"].st = "waiting"
  BY <1>4, FreshFields
<1>6. \A d \in Dialers : ua[d] \in UaRecords /\ ua[d].st = "idle" /\ ~ua[d].answered
  BY <1>4, FreshFields DEF States
<1>7. UasInv
  <2>1. AnswererOK(ua["answerer"])
    BY <1>5 DEF AnswererOK
  <2>2. \A d \in Dialers : DialerOK(d, ua[d], byes)
    BY <1>3, <1>6 DEF DialerOK, States, HungUpBy
  <2>. QED BY <1>3, <2>1, <2>2 DEF UasInv
<1>8. ServedInv
  BY <1>6 DEF ServedInv, Talks
<1>9. SlotsInv
  <2>1. /\ calls = [s \in 1..Slots |-> FreedSlot] /\ child = [s \in 1..Slots |-> NoChild]
        /\ pc = "loop" /\ g_sigchld = FALSE
    BY DEF Init, DaemonInit
  <2>2. /\ FreedSlot \in SlotRecords /\ FreedSlot.active = FALSE
        /\ FreedSlot.peer_hung_up = FALSE
    BY DEF FreedSlot, SlotRecords
  <2>3. Len(NoChild.ctrl) = 0 /\ \A i \in 1..Len(NoChild.ctrl) : FALSE
    BY NoChildFields
  <2>4. /\ One(FreedSlot.t38) \in {0, 1} /\ One(FreedSlot.peer_hung_up) \in {0, 1}
        /\ One(pc = "shutdown") \in {0, 1}
    BY DEF One
  <2>5. Len(NoChild.ctrl) <=
          One(FreedSlot.t38) + One(FreedSlot.peer_hung_up) + One(pc = "shutdown")
    BY <2>3, <2>4
  <2>6. SlotOK(FreedSlot, NoChild, byes, pc)
    BY <2>2, <2>3, <2>5, NoChildFields DEF SlotOK
  <2>. QED BY <2>1, <2>6 DEF SlotsInv
<1>. QED BY <1>1, <1>2, <1>7, <1>8, <1>9 DEF CallsInv

LEMMA CallsStep == SlotInv /\ CallsInv /\ [Next]_vars => CallsInv'
<1>1. ASSUME SlotInv, CallsInv, UaActs PROVE CallsInv'
  <2>1. UaFrame
    BY <1>1 DEF UaActs, UaFrame
  <2>2. ASSUME NEW u \in Uas, UaStep(u) \/ \E m \in net : UaHears(u, m) PROVE CallsInv'
    <3>1. CASE u \in Dialers
      BY <1>1, <2>1, <2>2, <3>1, DialerCalls
    <3>2. CASE u = "answerer"
      BY <1>1, <2>1, <2>2, <3>2, AnswererCalls
    <3>. QED BY <3>1, <3>2 DEF Uas
  <2>3. ASSUME AnswererStep \/ \E m \in net : AnswererHears(m) PROVE CallsInv'
    BY <1>1, <2>1, <2>3, AnswererCalls
  <2>4. Dialling \cup {"answerer"} \subseteq Uas
    BY Names
  <2>. QED BY <1>1, <2>2, <2>3, <2>4 DEF UaActs
<1>2. ASSUME SlotInv, CallsInv, DaemonActs PROVE CallsInv'
  BY <1>2, DaemonCalls
<1>3. ASSUME SlotInv, CallsInv, GatewayActs PROVE CallsInv'
  <2>1. UaFrame /\ UNCHANGED ua
    BY <1>3 DEF GatewayActs, UaFrame
  <2>2. ASSUME NEW m \in net, GatewayStep(m) PROVE CallsInv'
    BY <1>3, <2>1, <2>2, GatewayStepCalls
  <2>3. ASSUME NEW d \in Dialling, callee = "gateway", GatewayAsks(d) PROVE CallsInv'
    BY <1>3, <2>1, <2>3, GatewayAsksCalls, Names
  <2>. QED BY <1>3, <2>2, <2>3 DEF GatewayActs
<1>4. ASSUME SlotInv, CallsInv, UNCHANGED vars PROVE CallsInv'
  <2>1. UaFrame /\ UNCHANGED <<ua, byes, net>>
    BY <1>4 DEF vars, UaFrame, daemonVars, setup
  <2>2. Sends({}) /\ SaidBy("answerer")
    BY <2>1 DEF Sends, SaidBy
  <2>3. UNCHANGED <<ua, setup, byes, calls>> /\ net' \subseteq net
        /\ UNCHANGED <<child, pc, g_sigchld>>
    BY <1>4 DEF vars, daemonVars
  <2>4. /\ DOMAIN child' = 1..Slots /\ pc' \in {"loop", "reap", "shutdown"}
        /\ g_sigchld' \in BOOLEAN /\ \A s \in 1..Slots : SlotOK(calls[s], child'[s], byes', pc')
    BY <1>4, <2>3 DEF CallsInv, SlotsInv
  <2>. QED BY <1>4, <2>3, <2>4, QuietDaemon
<1>. QED BY <1>1, <1>2, <1>3, <1>4 DEF Next

(* Every state of the calls satisfies both invariants. *)
LEMMA CallsInvariant == Spec => [](SlotInv /\ CallsInv)
<1>1. Init => SlotInv /\ CallsInv
  BY SlotInit, CallsInit
<1>2. SlotInv /\ CallsInv /\ [Next]_vars => (SlotInv /\ CallsInv)'
  BY SlotStep, CallsStep
<1>. QED BY <1>1, <1>2, PTL DEF Spec

(* TypeOK: a dialer's CSeq stays below six and its challenges below three    *)
(* (uac_establish, sip_offer_t38), and a child is never sent more than three *)
(* words: one T38, one STOP for its caller, one for the shutdown (dctl_send).*)
THEOREM TypeCorrect == Spec => []TypeOK
<1>1. ASSUME CallsInv PROVE TypeOK
  <2>1. ASSUME NEW u \in Uas
        PROVE  /\ ua[u].st \in (IF u \in Dialers THEN States
                        ELSE {"waiting", "acking", "audio", "t38", "bye", "exit"})
               /\ ua[u] \in UaRecords
    <3>1. CASE u \in Dialers
      BY <1>1, <3>1, DialerKnown
    <3>2. CASE u \notin Dialers
      <4>1. u = "answerer"
        BY <3>2 DEF Uas
      <4>. QED BY <1>1, <3>2, <4>1 DEF CallsInv, UasInv, AnswererOK
    <3>. QED BY <3>1, <3>2
  <2>2. ASSUME NEW u \in Uas
        PROVE  /\ ua[u].call \in Dialers \cup {NoCall}
               /\ ua[u].cseq \in 0..5 /\ ua[u].auths \in 0..2 /\ ua[u].sends \in 0..2
               /\ {ua[u].prov, ua[u].hung, ua[u].answered, ua[u].unusable} \subseteq BOOLEAN
    BY <2>1 DEF UaRecords
  <2>3. ASSUME NEW s \in 1..Slots
        PROVE  /\ child[s].st \in {"none", "runs", "zombie"} /\ child[s].medium \in {"audio", "t38"}
               /\ Len(child[s].ctrl) <= 3
    <3>1. SlotOK(calls[s], child[s], byes, pc)
      BY <1>1 DEF CallsInv, SlotsInv
    <3>2. child[s].ctrl \in Seq({"T38", "STOP"})
      BY <3>1 DEF SlotOK, ChildRecords
    <3>3. Len(child[s].ctrl) \in Nat
      BY <3>2
    <3>4. /\ One(calls[s].t38) \in {0, 1} /\ One(calls[s].peer_hung_up) \in {0, 1}
          /\ One(pc = "shutdown") \in {0, 1}
      BY DEF One
    <3>5. Len(child[s].ctrl) <= One(calls[s].t38) + One(calls[s].peer_hung_up) + One(pc = "shutdown")
      BY <3>1 DEF SlotOK
    <3>6. Len(child[s].ctrl) <= 3
      BY <3>3, <3>4, <3>5
    <3>. QED BY <3>1, <3>6 DEF SlotOK, ChildRecords
  <2>4. pc \in {"loop", "reap", "shutdown"} /\ g_sigchld \in BOOLEAN
    BY <1>1 DEF CallsInv, SlotsInv
  <2>. QED BY <2>1, <2>2, <2>3, <2>4 DEF TypeOK
<1>. QED BY CallsInvariant, <1>1, PTL

(* StoppedByItsPeer: a child is stopped only for its own caller's BYE or      *)
(* CANCEL or for the shutdown; over T.38, where it takes any word for a stop, *)
(* a repeated re-INVITE sends it none (daemon_dispatch, run_fax_t38_child).   *)
THEOREM StoppedByItsPeerCorrect == Spec => []StoppedByItsPeer
<1>1. ASSUME CallsInv PROVE StoppedByItsPeer
  <2>1. ASSUME NEW s \in Active, child[s].ended
        PROVE  pc = "shutdown" \/ HungUpBy(calls[s].call, byes)
    BY <1>1, <2>1 DEF CallsInv, SlotsInv, SlotOK, StopFor, Active
  <2>. QED BY <2>1 DEF StoppedByItsPeer, HungUpBy, Hangups
<1>. QED BY CallsInvariant, <1>1, PTL

(* NobodyAbandoned: whoever hears the daemon's 200 and goes on with the call  *)
(* has a slot in its table or is sent a BYE, when the fork fails, when the    *)
(* child ends by itself and at the shutdown (daemon_accept, dcall_free).      *)
THEOREM NobodyAbandonedCorrect == Spec => []NobodyAbandoned
<1>1. ASSUME CallsInv PROVE NobodyAbandoned
  <2>1. ASSUME NEW d \in Dialers, callee = "daemon",
               InCall(d) \/ ua[d].st \in {"connected", "offering"}
        PROVE  dcall_find(ua[d].call) # {} \/ <<ua[d].call, "daemon", "BYE">> \in byes
    <3>1. Talks(ua[d].st) /\ ua[d].st \notin {"idle", "cancelling", "bye", "exit"}
      BY <2>1 DEF InCall, Talks
    <3>2. Served(d)
      BY <1>1, <2>1, <3>1 DEF CallsInv, ServedInv
    <3>3. ua[d].call = d
      BY <1>1, <3>1, DialerKnown DEF DialerOK
    <3>. QED BY <3>1, <3>2, <3>3 DEF Served
  <2>. QED BY <2>1 DEF NobodyAbandoned
<1>. QED BY CallsInvariant, <1>1, PTL

(* LeavesWithBye: a dialer whose INVITE was accepted does not leave before    *)
(* one of the two has said BYE, also when the 2xx crosses its CANCEL          *)
(* (await_cancel_final, sip_media_hangup). It excepts the 2xx whose SDP it    *)
(* cannot use, which uac_establish acknowledges and leaves.                   *)
THEOREM LeavesWithByeCorrect == Spec => []LeavesWithBye
<1>1. ASSUME CallsInv PROVE LeavesWithBye
  <2>1. ASSUME NEW d \in Dialers, ua[d].answered /\ ~ua[d].unusable /\ ua[d].st = "exit"
        PROVE  ua[d].hung \/ <<ua[d].call, d, "BYE">> \in byes
    <3>1. DialerOK(d, ua[d], byes)
      BY <1>1, DialerKnown
    <3>. QED BY <2>1, <3>1 DEF DialerOK
  <2>. QED BY <2>1 DEF LeavesWithBye
<1>. QED BY CallsInvariant, <1>1, PTL
=============================================================================
