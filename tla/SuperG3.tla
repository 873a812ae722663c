------------------------------- MODULE SuperG3 -------------------------------
(* A V.34 fax call from its first signal: V.8, Phase 2, the start-up of the  *)
(* control channel, and the page, at two ends over a line that loses signals *)
(* and frames and damages bursts. The sample pumps (nf_fax.c, nf_v34.c) are  *)
(* the actions; time is abstracted, a timer may fire whenever it runs.       *)
EXTENDS V8, T30AnnexF

VARIABLES
  ss,         \* the V.34 session of each end
  t30         \* its T.30 engine

sessVars == <<ss, t30>>
vars == <<arriving, v8Vars, p2Vars, sessVars>>

Init ==
  /\ LineInit /\ V8Init /\ P2Init
  /\ ss = [s \in Sides |-> NewSession]
  /\ t30 = [s \in Sides |-> start(s, our_modulations[s] # {})]

End(s) == [ss |-> ss[s], pt |-> point[s], t |-> t30[s]]

(* An end becomes e, the session of its peer r.                              *)
Both(s, e, r) ==
  /\ ss' = [ss EXCEPT ![s] = e.ss, ![Peer(s)] = r]
  /\ t30' = [t30 EXCEPT ![s] = e.t]
  /\ point' = [point EXCEPT ![s] = e.pt]
Becomes(s, e) == Both(s, e, ss[Peer(s)])

Other == UNCHANGED <<arriving, v8Vars>>
P2Rest == UNCHANGED <<p2_state, p2_info_seen, p2_roll>>
Rest == Other /\ P2Rest

(* The session owns the line: Phase 2 is over and T.30 has not finished.     *)
On(s) ==
  /\ p2_state[s] = "OFF" /\ ss[s].st \notin {"IDLE", "START"} /\ t30[s].sub # "DONE"
(* During a retrain the pumps run the start-up, whatever T.30 set last.      *)
TxMode(s) == IF ss[s].in_retrain THEN "STARTUP" ELSE ss[s].tx_mode
RxMode(s) == IF ss[s].in_retrain THEN "STARTUP" ELSE ss[s].rx_mode

Transmits(s) == ss[s].ccs_state # "OFF" \/ ss[s].pcm # ""

-----------------------------------------------------------------------------
(* V.8, and what T.30 makes of its result.                                   *)

V8Step ==
  /\ nf_v8_rx
  /\ \A s \in Sides : v8'[s] # v8[s] => t30[s].sub # "DONE"
  /\ \E s \in Sides :
       IF Reports(s)
         THEN LET e == on_v8(End(s), s, v8_status'[s], modulations[s]) IN
              /\ ss' = [ss EXCEPT ![s] = e.ss] /\ t30' = [t30 EXCEPT ![s] = e.t]
              /\ IF e.t.v34 THEN p2_init(s) ELSE UNCHANGED <<p2_state, p2_info_seen>>
         ELSE ~Reports(Peer(s)) /\ UNCHANGED <<ss, t30, p2_state, p2_info_seen>>
  /\ UNCHANGED <<p2_roll, point>>

(* The classic call as far as this model follows it: CED, then DIS until the *)
(* caller has heard it and answers, or a timer gives up.                     *)
ClassicStep ==
  /\ UNCHANGED <<arriving, v8Vars, p2Vars, ss>>
  /\ \/ t30["A"].sub = "A_SEND_CED" /\ t30' = [t30 EXCEPT !["A"].sub = "A_CLASSIC_DIS"]
     \/ /\ t30["C"].sub = "C_WAIT_DIS" /\ ~t30["C"].v34 /\ arriving["A"].sig = "DIS"
        /\ t30' = [t30 EXCEPT !["C"].sub = "PHASE_B"]
     \/ /\ t30["A"].sub = "A_CLASSIC_DIS"
        /\ \/ t30["C"].sub = "PHASE_B" /\ t30' = [t30 EXCEPT !["A"].sub = "PHASE_B"]
           \/ t30' = [t30 EXCEPT !["A"].sub = "DONE", !["A"].result = "ERR"]

(* What an end emits while the line carries continuous signals.              *)
Emits(s) ==
  IF t30[s].sub = "DONE" THEN Silence
  ELSE IF v8[s] \notin {"OFF", "DONE"} THEN nf_v8_tx(s)
  ELSE CASE t30[s].sub = "A_SEND_CED" -> Signal("CED")
         [] t30[s].sub \in {"A_CLASSIC_DIS", "PHASE_B"} /\ s = "A" -> Signal("DIS")
         [] OTHER -> v34_p2_tx(s)

LineCarries(s) ==
  /\ Carry(s, Emits(s)) /\ Roll(s, Emits(s))
  /\ UNCHANGED <<v8Vars, p2_state, p2_info_seen, point, sessVars>>

-----------------------------------------------------------------------------
(* Phase 2 and the start-up that follows it.                                 *)

(* v34_p2_finish: the gate is reset, Phase 3 is next.                        *)
Phase2Step ==
  /\ \/ t30["C"].sub # "DONE" /\ C_Phase2
     \/ t30["A"].sub # "DONE" /\ A_Phase2
  /\ arriving' = [s \in Sides |-> IF Phase2Ends(s) THEN Silence ELSE arriving[s]]
  /\ ss' = [s \in Sides |->
              IF ~Phase2Ends(s) \/ ss[s].done THEN ss[s]
              ELSE [regate(ss[s]) EXCEPT !.st = IF s = "C" THEN "C_PHASE3_Q" ELSE "A_TRN_WAIT"]]
  /\ UNCHANGED <<v8Vars, t30>>

(* A carrier comes up at the peer: its gate opens, or, when the gap before   *)
(* was shorter than the hangover of the gate, its capture goes on.           *)
Onto(r, what, mph) ==
  IF r.gate = "" THEN gate_opens(r, what, mph)
  ELSE [r EXCEPT !.gate = what, !.win_mph = IF mph > 0 THEN mph ELSE @]

(* The peer's carrier fell and the gate shuts: 60 ms later.                  *)
CarrierGone(s) == ss[s].gate # "" /\ ~Transmits(Peer(s))

(* The lead-in silence of a carrier is longer: both gates have shut on the   *)
(* carriers before.                                                          *)
GateShut(s) == ss[Peer(s)].gate = "" /\ ~CarrierGone(s)

(* v34_sess_tick: Phase 3, then the control channel in its start-up form.    *)
Tick(s) ==
  /\ On(s) /\ ss[s].pcm = "" /\ GateShut(s) /\ Rest
  /\ LET e == End(s) IN
     \/ /\ ss[s].st = "C_PHASE3_Q"
        /\ Both(s, [e EXCEPT !.ss.pcm = "TRN", !.ss.st = "C_PHASE3_PLAY"],
                Onto(ss[Peer(s)], "trn", 0))
     \/ \E q \in {<<"C_CC_INIT_Q", "C_CC_INIT_PLAY">>, <<"A_CC1_Q", "A_CC1_PLAY">>} :
          /\ ss[s].st = q[1]
          /\ Both(s, [e EXCEPT !.ss = [ccs_begin(@, e.pt, TRUE) EXCEPT !.st = q[2]]],
                  Onto(ss[Peer(s)], "cc", e.pt.local_max))

(* v34_sess_burst_played, for the S, PP and TRN of Phase 3.                  *)
TrnPlayed(s) ==
  /\ On(s) /\ ss[s].pcm = "TRN" /\ Rest
  /\ Becomes(s, [End(s) EXCEPT !.ss.pcm = "", !.ss.st = "C_CC_INIT_Q"])

Dev_Deadline(s) ==
  /\ ss[s].st \notin {"IDLE", "START"} /\ ~ss[s].done /\ t30[s].sub # "DONE" /\ Rest
  /\ LET e == [End(s) EXCEPT !.ss = report_v34(@, FALSE)] IN
     Becomes(s, IF ss[s].in_retrain THEN e ELSE on_startup(e, FALSE))

(* The 25 s supervision of a start-up or a retrain.                          *)
Deadline(s) ==
  /\ ss[s].st # "IDLE" /\ ~ss[s].done /\ t30[s].sub # "DONE" /\ Rest
  /\ LET e == [End(s) EXCEPT !.ss = report_v34(@, FALSE)] IN
     Becomes(s, IF ss[s].in_retrain THEN e ELSE on_startup(e, FALSE))

-----------------------------------------------------------------------------
(* nf_v34_sess_tx: the control channel and the primary channel.              *)

(* Frames to send and no carrier: a new stream.                              *)
Raising(s) ==
  /\ ss[s].ccs_state = "OFF" /\ ss[s].pcm = "" /\ TxMode(s) = "CC"
  /\ ss[s].frames # <<>> /\ GateShut(s)

RaiseStream(s) ==
  /\ On(s) /\ Raising(s) /\ Rest
  /\ LET e == End(s)
         pending == e.ss.reneg_pending
         r == ccs_begin(e.ss, e.pt, pending)
     IN  Both(s, [e EXCEPT !.ss = IF pending THEN r ELSE append_frames(r)],
              Onto(ss[Peer(s)], "cc", IF use_sh(e.ss, e.pt, pending) THEN 0 ELSE r.last_adv))

Restarting(r) == r.ccs_state = "RUN" /\ r.reneg_pending /\ ~r.form_startup

(* The peer began a start-up: answer with the start-up form. The 70 ms of    *)
(* silence before it may or may not shut the peer's gate.                    *)
Restart(s) ==
  /\ On(s) /\ Restarting(ss[s]) /\ Rest
  /\ LET r == restart(ss[s], point[s]) IN
     \E peer \in {gate_opens(ss[Peer(s)], "cc", r.last_adv),
                  Onto(ss[Peer(s)], "cc", r.last_adv)} :
       Both(s, [End(s) EXCEPT !.ss = r], peer)

(* The line is turned round: ones, until the peer is silent.                 *)
Turning(s) == ss[s].ccs_state = "RUN" /\ TxMode(s) = "PRI"

TurnAround(s) ==
  /\ On(s) /\ ~Restarting(ss[s]) /\ Turning(s) /\ Rest
  /\ Becomes(s, [End(s) EXCEPT !.ss.ccs_state = "ONES"])

(* Frames queued while the carrier is up go out on it.                       *)
Appending(s) ==
  /\ ss[s].ccs_state = "RUN" /\ TxMode(s) = "CC" /\ ss[s].frames # <<>>
  /\ ~ss[s].data_pending /\ ~ss[s].pre_mph

AppendFrames(s) ==
  /\ On(s) /\ ~Restarting(ss[s]) /\ Appending(s) /\ Rest
  /\ Becomes(s, [End(s) EXCEPT !.ss = append_frames(@)])

(* The peer is silent, or five seconds have passed; then the carrier falls.  *)
CarrierFalls(s) ==
  /\ On(s) /\ Rest
  /\ \/ ss[s].ccs_state = "ONES" /\ Becomes(s, [End(s) EXCEPT !.ss.ccs_state = "DRAIN"])
     \/ ss[s].ccs_state = "DRAIN" /\ ~ss[s].data_pending
        /\ Becomes(s, [End(s) EXCEPT !.ss = ccs_reset(@)])

(* E follows once the peer's MPh was decoded; MPh stays in the peer's window.*)
Locked(s) == ss[s].ccs_state = "RUN" /\ ss[s].pre_mph /\ ss[s].peer_mph

Interlock(s) ==
  /\ On(s) /\ ~Restarting(ss[s]) /\ Locked(s) /\ Rest
  /\ Both(s, [End(s) EXCEPT !.ss = interlock(@)],
          IF ss[Peer(s)].gate = "cc" THEN [ss[Peer(s)] EXCEPT !.win_mph = ss[s].last_adv]
          ELSE ss[Peer(s)])

(* A section of frames has left the modulator: SEND_COMPLETE, with the       *)
(* carrier still up.                                                         *)
SectionOut(s) ==
  /\ On(s) /\ ss[s].data_pending /\ Rest
  /\ Both(s, on_complete([End(s) EXCEPT !.ss.data_pending = FALSE]),
          IF ss[Peer(s)].gate = "cc" THEN captured(ss[Peer(s)], ss[s].saved) ELSE ss[Peer(s)])

(* v34_sess_build_pri, and the end of the burst (nf_fax_tx reports it).      *)
RaisePri(s) ==
  /\ On(s) /\ ss[s].ccs_state = "OFF" /\ ss[s].pcm = "" /\ TxMode(s) = "PRI"
  /\ ss[s].pri_pending /\ ~CarrierGone(s) /\ Rest
  /\ Both(s, [End(s) EXCEPT !.ss.pri_pending = FALSE, !.ss.pcm = "PRI",
                            !.ss.pcm_rate = ss[s].rate_cur],
          Onto(ss[Peer(s)], "pri", 0))

PriPlayed(s) ==
  /\ On(s) /\ ss[s].pcm = "PRI" /\ Rest
  /\ Becomes(s, on_complete([End(s) EXCEPT !.ss.pcm = ""]))

-----------------------------------------------------------------------------
(* nf_v34_sess_rx: the receiver.                                             *)

(* The MPh a scan can find: the peer's present one while it loops.           *)
VisibleMph(s) ==
  LET p == ss[Peer(s)] IN
  IF p.ccs_state = "RUN" /\ p.pre_mph THEN p.last_adv ELSE ss[s].win_mph

(* One pass over the captured control channel (v34_sess_cc_scan, or the last *)
(* pass of v34_sess_burst_done and v34_sess_startup_burst): an MPh may       *)
(* establish the channel, new frames go up in order.                         *)
ScanCc(s, mph, opens, got) ==
  LET e == End(s)
      heard == RxMode(s) = "PRI" /\ (mph > 0 \/ got # {})
      e1 == [process_cc(e, mph, opens) EXCEPT !.ss.burst_seen = @ \/ heard]
      est == CanEstablish(e.ss) /\ mph > 0
      e2 == [e1 EXCEPT !.ss = IF est THEN report_v34(@, TRUE) ELSE @]
      e3 == IF est /\ ~e.ss.in_retrain THEN on_startup(e2, TRUE) ELSE e2
      up == Only(e.ss.win, got)
  IN  IF e2.ss.done /\ e2.ss.st = "DONE"
        THEN on_frames([e3 EXCEPT !.ss = hand_up(@, got)], up)
        ELSE e3

Listening(s) ==
  On(s) /\ (RxMode(s) \in {"CC", "PRI"} \/ CanEstablish(ss[s]))

(* What a pass may decode: an MPh or at least the opening of a start-up, and *)
(* some of the frames; damage hides the rest.                                *)
Pass(s, final) ==
  \E mph \in {0, VisibleMph(s)}, opens \in BOOLEAN, got \in SUBSET Range(ss[s].win) :
    LET e == ScanCc(s, mph, opens, got) IN
    /\ opens => mph = 0 /\ VisibleMph(s) > 0
    /\ final \/ mph > 0 \/ opens \/ got # {}
    /\ Becomes(s, IF final THEN [e EXCEPT !.ss = gate_shut(@)] ELSE e)

CcScan(s) == Listening(s) /\ ss[s].gate = "cc" /\ Pass(s, FALSE) /\ Rest

CcDone(s) ==
  /\ CarrierGone(s) /\ Listening(s) /\ ss[s].gate = "cc" /\ RxMode(s) # "PRI"
  /\ Pass(s, TRUE) /\ Rest

(* Phase 3 at the recipient: train the equalizer, or fail. The failure of a   *)
(* retrain is not reported to T.30.                                          *)
TrnDone(s) ==
  /\ CarrierGone(s) /\ On(s) /\ ss[s].gate = "trn" /\ ss[s].st = "A_TRN_WAIT"
  /\ Rest
  /\ LET e == [End(s) EXCEPT !.ss = gate_shut(@)]
         f == [e EXCEPT !.ss = report_v34(@, FALSE)] IN
     \/ \E n \in rate_mask[point[s].srate] : Becomes(s, train(e, n))
     \/ Becomes(s, IF ss[s].in_retrain THEN f ELSE on_startup(f, FALSE))

(* The burst may be the tail of the peer's held control channel.             *)
CcTail(r) == r.pri_skip \/ r.burst_seen

(* v34_sess_process_pri: a burst received on the primary channel. Only a     *)
(* burst sent at the rate this end decodes can come through. The equalizer   *)
(* is there: an end is DONE, and so in the mode PRI, only when it trained.   *)
PriDone(s) ==
  /\ CarrierGone(s) /\ On(s) /\ RxMode(s) = "PRI" /\ Other /\ UNCHANGED p2_roll
  /\ LET p == ss[Peer(s)]
         e == [End(s) EXCEPT !.ss = [gate_shut(@) EXCEPT !.pri_skip = FALSE]]
         same == ss[s].gate = "pri" /\ p.pcm_rate = ss[s].rate_cur
                 /\ point[s].srate = point[Peer(s)].srate
         Goes(e1) == /\ Becomes(s, on_carrier_down(e1))
                     /\ IF e1.ss.in_retrain THEN p2_init(s)
                        ELSE UNCHANGED <<p2_state, p2_info_seen>>
         Lower1 == IF fallbacks(e) = {} THEN {0} ELSE fallbacks(e)
     IN
     \/ /\ CcTail(ss[s])                                   \* no S found: the tail
        /\ Becomes(s, e) /\ UNCHANGED <<p2_state, p2_info_seen>>
     \/ /\ same                                          \* all frames, or most
        /\ \/ Goes([e EXCEPT !.ss.floor_hard_fails = 0, !.t.missing = FALSE])
           \/ \E n \in Lower1 : Goes(judge_burst(e, FALSE, n))
     \/ /\ ~(ss[s].gate = "cc" /\ CcTail(ss[s]))           \* too few, or none
        /\ \E n \in Lower1 : Goes(judge_burst(e, TRUE, n))

(* A carrier that ends while nothing here can use it.                        *)
Ignored(s) ==
  /\ CarrierGone(s) /\ Rest
  /\ \/ ~On(s)
     \/ RxMode(s) = "STARTUP" /\ ~CanEstablish(ss[s])
        /\ ~(ss[s].gate = "trn" /\ ss[s].st = "A_TRN_WAIT")
     \/ RxMode(s) # "PRI" /\ ss[s].gate \in {"pri", "trn"}
        /\ ~(ss[s].gate = "trn" /\ ss[s].st = "A_TRN_WAIT")
  /\ Becomes(s, [End(s) EXCEPT !.ss = gate_shut(@)])

(* Four seconds after the interlock a restart is recognised again. The scans *)
(* look at the last four seconds, so that an MPh which the peer began to     *)
(* repeat later than the interlock may still be in them.                     *)
HoldoffEnds(s) ==
  /\ ss[s].holdoff /\ VisibleMph(s) > 0 /\ Rest
  /\ Becomes(s, [End(s) EXCEPT !.ss.holdoff = FALSE])

(* on_timer *)
T30Timer(s) ==
  /\ t30[s].sub \in Waiting /\ Rest /\ Becomes(s, on_timer(End(s)))

-----------------------------------------------------------------------------
(* The transmit pump runs in every block of 20 ms. What it does at once comes *)
(* before anything that takes longer: a section, a carrier, a scan, a timer. *)
Pump(s) == RaiseStream(s) \/ Restart(s) \/ Interlock(s) \/ TurnAround(s) \/ AppendFrames(s)
Pumped(s) ==
  ~(On(s) /\ (Raising(s) \/ Restarting(ss[s]) \/ Locked(s) \/ Turning(s) \/ Appending(s)))

Sends(s) ==
  \/ Tick(s) \/ TrnPlayed(s) \/ CarrierFalls(s) \/ SectionOut(s)
  \/ RaisePri(s) \/ PriPlayed(s)
Ends(s) == CcDone(s) \/ TrnDone(s) \/ PriDone(s) \/ Ignored(s)
Timer(s) == Deadline(s) \/ T30Timer(s)

(* The far end has finished and hangs up: this end's call loop stops.        *)
HangUp(s) ==
  /\ t30[Peer(s)].sub = "DONE" /\ t30[s].sub # "DONE" /\ Rest
  /\ Becomes(s, finish(End(s), "HUNG_UP"))

Slow(s) == Sends(s) \/ Ends(s) \/ Timer(s) \/ HangUp(s)
AllPumped == \A s \in Sides : Pumped(s)

Next ==
  \/ V8Step \/ ClassicStep \/ Phase2Step
  \/ \E s \in Sides : LineCarries(s) \/ Pump(s)
  \/ AllPumped /\ \E s \in Sides : Slow(s) \/ CcScan(s) \/ HoldoffEnds(s)

Spec == Init /\ [][Next]_vars

(* An MPh that the peer repeats without end is decoded.                      *)
HearsMph(s) ==
  /\ AllPumped /\ ss[Peer(s)].pre_mph /\ Listening(s) /\ ss[s].gate = "cc"
  /\ Rest /\ Becomes(s, ScanCc(s, VisibleMph(s), FALSE, {}))

(* The sample clock runs at both ends, so their timers and pumps go on; of   *)
(* the line it is only assumed that it lets the endless MPh through.         *)
Runs(s) == Pump(s) \/ (AllPumped /\ Slow(s))

FairSpec ==
  /\ Spec
  /\ WF_vars(V8Step \/ ClassicStep \/ \E s \in Sides : Runs(s))
  /\ WF_vars(\E s \in Sides : HearsMph(s))

-----------------------------------------------------------------------------
(* Types: among them, no end holds a cap above what its symbol rate carries. *)
TypeOK ==
  /\ V8TypeOK /\ P2TypeOK
  /\ \A s \in Sides :
       /\ ss[s].st \in SessionStates /\ ss[s].ccs_state \in CcStates
       /\ {ss[s].tx_mode, ss[s].rx_mode} \subseteq Modes
       /\ {ss[s].remote_max, ss[s].rate_cur, ss[s].last_adv} \subseteq 0..14
       /\ t30[s].sub \in Substates

(* Both ends have been through the start-up and own the line.                *)
Established == \A s \in Sides : On(s) /\ ss[s].st = "DONE"

(* Two ends that exchange frames modulate at one symbol rate: the recipient  *)
(* chose it from the probe, the source adopted it from INFOh, and no INFO    *)
(* frame left over from an earlier Phase 2 is taken for it.                  *)
SamePoint == Established => point["C"].srate = point["A"].srate

(* The source begins an image burst within its own cap, and at the rate at   *)
(* which the recipient decodes: unless the recipient lowered its cap and has *)
(* not advertised it yet, or the source missed what it advertised last.      *)
BurstRate ==
  [][ss["C"].pcm # "PRI" /\ ss'["C"].pcm = "PRI" /\ Established =>
       /\ ss'["C"].pcm_rate <= point["C"].local_max
       /\ ss'["C"].pcm_rate # ss["A"].rate_cur =>
            \/ ss["A"].last_adv # point["A"].local_max
            \/ ss["C"].remote_max # ss["A"].last_adv]_vars

(* A caller that reports success has delivered the block, whatever frames,   *)
(* bursts and answers were lost, repeated or taken for something else.       *)
SuccessMeansDelivered == t30["C"].result = "OK" => ~t30["A"].missing

(* The rate of the image channel never rises within a call: a bad burst      *)
(* lowers the cap of an end for good, through retrains and new advertisements*)
(* of the peer.                                                              *)
RateFalls ==
  [][\A s \in Sides : ss[s].rate_cur > 0 => ss'[s].rate_cur <= ss[s].rate_cur]_vars

(* Every call ends, or goes on without V.34, at both ends: unless the        *)
(* recipient retrained, for a retrain that fails tells T.30 nothing.         *)
Settled(s) == t30[s].sub \in {"DONE", "PHASE_B"}
CallSettles == <>((\A s \in Sides : Settled(s)) \/ ss["A"].retrains > 0)
==============================================================================
