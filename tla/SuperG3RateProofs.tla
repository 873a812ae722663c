-------------------------- MODULE SuperG3RateProofs --------------------------
(***************************************************************************)
(* The rate of the image channel of SuperG3: it never rises, and a burst   *)
(* is begun at the rate of the recipient as far as the source can know it. *)
(***************************************************************************)
EXTENDS SuperG3Proofs

-----------------------------------------------------------------------------
(* Rates. What pick_rate picks.                                             *)
Fits(sr, cap, rem) == {n \in rate_mask[sr] : n <= cap /\ (rem > 0 => n <= rem)}
Best(sr, cap, rem) ==
  LET ok == Fits(sr, cap, rem)
  IN  IF ok = {} THEN floor_rate(sr) ELSE CHOOSE n \in ok : \A m \in ok : m <= n

(* An end decodes and sends at the best rate of its own cap and the one it  *)
(* heard; only an answerer that was started by T.30 may begin without one.  *)
RateKept(e) ==
  /\ e.ss.rate_cur > 0 => e.ss.rate_cur = Best(e.pt.srate, e.pt.local_max, e.ss.remote_max)
  /\ e.ss.st = "DONE" => e.ss.rate_cur > 0 /\ e.ss.remote_max > 0

Starting(r) == r.st # "IDLE" /\ ~r.done /\ ~r.in_retrain

StartKept(s, e) ==
  /\ s = "C" => e.ss.st # "A_TRN_WAIT"
  /\ s = "A" =>
       /\ e.ss.st = "A_TRN_WAIT" => e.ss.rate_cur = 0 /\ ~e.ss.done
       /\ Starting(e.ss) => e.t.sub = "A_WAIT_V34" /\ e.ss.rx_mode = "STARTUP"

EndKept(s, e) == RateKept(e) /\ StartKept(s, e)

(* What the caller has heard, or may hear, of the answerer's falling cap.   *)
Hearable(cap, adv, win, rem) ==
  /\ adv > 0 => cap <= adv
  /\ win > 0 => cap <= win /\ (adv > 0 => win = adv) /\ (rem > 0 => win <= rem)
  /\ rem > 0 => cap <= rem /\ adv <= rem

HeardInv ==
  Hearable(point["A"].local_max, ss["A"].last_adv, ss["C"].win_mph, ss["C"].remote_max)

(* The caller's cap is fixed with Phase 2, and before that nothing is heard.*)
FixedInv ==
  /\ ss["C"].last_adv \in {0, point["C"].local_max}
  /\ ss["A"].remote_max \in {0, point["C"].local_max}
  /\ ss["A"].win_mph \in {0, point["C"].local_max}
  /\ floor_rate(point["C"].srate) <= point["C"].local_max
  /\ ~Past2 => /\ point["C"].local_max = top_rate(Srate0)
               /\ ss["C"].last_adv = 0 /\ ss["A"].remote_max = 0 /\ ss["A"].win_mph = 0
               /\ ss["C"].rate_cur = 0

(* An answerer that hears, or has heard, the caller probes no more.         *)
ProbedInv ==
  /\ ss["A"].rate_cur > 0 \/ ss["A"].gate # "" => Past2 /\ arriving["C"].sig = "SILENCE"
  /\ ss["A"].rate_cur > 0 => p2_state["A"] \in {"OFF"} \cup EarlyP2
  /\ p2_state["A"] # "OFF" /\ t30["A"].sub # "DONE" => ss["A"].st # "IDLE"

RatesInv == (\A s \in Sides : EndKept(s, End(s))) /\ HeardInv /\ FixedInv /\ ProbedInv

-----------------------------------------------------------------------------
LEMMA FloorIs ==
  ASSUME NEW sr \in Srates
  PROVE  \A q \in rate_mask[sr] : floor_rate(sr) <= q
<1>1. rate_mask[sr] \in SUBSET (1..14) /\ rate_mask[sr] # {}
  BY RateAssumption
<1>2. \E m \in rate_mask[sr] : \A x \in rate_mask[sr] : x >= m
  BY <1>1, LowestOf
<1>3. floor_rate(sr) \in rate_mask[sr] /\ \A q \in rate_mask[sr] : q >= floor_rate(sr)
  BY <1>2 DEF floor_rate
<1>4. \A q \in rate_mask[sr] : q \in Int /\ floor_rate(sr) \in Int
  BY <1>1, <1>3
<1>. QED BY <1>3, <1>4

LEMMA FloorInStart ==
  ASSUME NEW sr \in Srates
  PROVE  floor_rate(sr) <= top_rate(Srate0)
<1>1. PICK low \in rate_mask[sr], high \in rate_mask[Srate0] : low <= high
  BY RateAssumption
<1>2. Srate0 \in Srates
  BY RateAssumption
<1>3. floor_rate(sr) <= low /\ high <= top_rate(Srate0)
  BY <1>1, <1>2, FloorIs, RateFacts
<1>4. low \in 1..14 /\ high \in 1..14 /\ floor_rate(sr) \in 1..14 /\ top_rate(Srate0) \in 1..14
  BY <1>1, <1>2, RateFacts
<1>. QED BY <1>1, <1>3, <1>4

(* The best rate is one of the symbol rate's, and the highest that fits.    *)
LEMMA BestIs ==
  ASSUME NEW sr \in Srates, NEW cap, NEW rem
  PROVE  /\ Best(sr, cap, rem) \in rate_mask[sr] /\ Best(sr, cap, rem) \in 1..14
         /\ Fits(sr, cap, rem) = {} => Best(sr, cap, rem) = floor_rate(sr)
         /\ Fits(sr, cap, rem) # {} => /\ Best(sr, cap, rem) \in Fits(sr, cap, rem)
                                       /\ \A m \in Fits(sr, cap, rem) : m <= Best(sr, cap, rem)
<1>1. rate_mask[sr] \in SUBSET (1..14) /\ floor_rate(sr) \in rate_mask[sr]
  BY RateFacts
<1>2. PICK ok : ok = Fits(sr, cap, rem)
  OBVIOUS
<1>3. ok \in SUBSET rate_mask[sr]
  BY <1>2 DEF Fits
<1>4. Best(sr, cap, rem) = IF ok = {} THEN floor_rate(sr) ELSE CHOOSE n \in ok : \A m \in ok : m <= n
  BY <1>2 DEF Best
<1>5. ok # {} => \E n \in ok : \A m \in ok : m <= n
  BY <1>1, <1>3, HighestOf
<1>6. ok # {} => Best(sr, cap, rem) \in ok /\ \A m \in ok : m <= Best(sr, cap, rem)
  BY <1>4, <1>5
<1>. QED BY <1>1, <1>2, <1>3, <1>4, <1>6

(* Lower maxima give no higher rate.                                        *)
LEMMA BestFalls ==
  ASSUME NEW sr \in Srates, NEW cap \in 1..14, NEW low \in 1..14, low <= cap,
         NEW rem \in Rates, NEW heard \in Rates, rem > 0 => heard > 0 /\ heard <= rem
  PROVE  Best(sr, low, heard) <= Best(sr, cap, rem)
<1>1. rate_mask[sr] \in SUBSET (1..14)
  BY RateFacts
<1>2. Fits(sr, low, heard) \subseteq Fits(sr, cap, rem)
  <2>1. \A n \in 1..14 : n <= low /\ (heard > 0 => n <= heard) => n <= cap /\ (rem > 0 => n <= rem)
    BY SMT DEF Rates
  <2>. QED BY <1>1, <2>1 DEF Fits
<1>3. CASE Fits(sr, low, heard) = {}
  BY <1>3, BestIs, FloorIs
<1>4. CASE Fits(sr, low, heard) # {}
  BY <1>2, <1>4, BestIs
<1>. QED BY <1>3, <1>4

LEMMA BestWithin ==
  ASSUME NEW sr \in Srates, NEW cap \in 1..14, floor_rate(sr) <= cap, NEW rem
  PROVE  Best(sr, cap, rem) <= cap
  BY BestIs DEF Fits

(* Two ends with each other's caps pick the same rate.                      *)
LEMMA BestAgrees ==
  ASSUME NEW sr \in Srates, NEW cap \in 1..14, NEW rem \in 1..14
  PROVE  Best(sr, cap, rem) = Best(sr, rem, cap)
<1>1. rem > 0 /\ cap > 0
  BY SMT
<1>2. Fits(sr, cap, rem) = Fits(sr, rem, cap)
  BY <1>1 DEF Fits
<1>. QED BY <1>2 DEF Best

LEMMA PickIs ==
  ASSUME NEW r, NEW pt
  PROVE  pick_rate(r, pt) = [r EXCEPT !.rate_cur = Best(pt.srate, pt.local_max, r.remote_max)]
  BY DEF pick_rate, Best, Fits

-----------------------------------------------------------------------------
(* A session of which no rate changes: what Plain and Still do not name may.*)
Plain(r, x) ==
  /\ x.st = r.st /\ x.done = r.done /\ x.in_retrain = r.in_retrain
  /\ x.rate_cur = r.rate_cur /\ x.remote_max = r.remote_max /\ x.last_adv = r.last_adv
  /\ x.win_mph \in {0, r.win_mph}
  /\ x.gate # "" => r.gate # ""
  /\ x.pcm = "PRI" => r.pcm = "PRI"

Still(r, x) == Plain(r, x) /\ x.rx_mode = r.rx_mode

LEMMA PlainPlain ==
  ASSUME NEW r, NEW x, NEW y, Plain(r, x), Plain(x, y)
  PROVE  Plain(r, y)
  BY Zenon DEF Plain

LEMMA StillStill ==
  ASSUME NEW r, NEW x, NEW y, Still(r, x), Still(x, y)
  PROVE  Still(r, y)
  BY PlainPlain, Zenon DEF Still

LEMMA GateStill ==
  ASSUME NEW r \in Sessions, NEW what \in Gates, what # "" => r.gate # ""
  PROVE  Still(r, gate_opens(r, what, 0))
  BY DEF Still, Plain, gate_opens, Sessions

LEMMA ShutStill ==
  ASSUME NEW r \in Sessions
  PROVE  Still(r, gate_shut(r)) /\ Still(r, regate(r))
<1>1. r.gate \in Gates /\ "" \in Gates
  BY Fields, Empty
<1>. QED BY <1>1, GateStill DEF gate_shut, regate

LEMMA TxStill ==
  ASSUME NEW r \in Sessions, NEW mode, NEW f
  PROVE  /\ Still(r, set_tx_mode(r, mode)) /\ Still(r, queue_frame(r, f))
         /\ Still(r, append_frames(r)) /\ Still(r, begin_stream(r))
<1>1. Still(r, set_tx_mode(r, mode))
  BY DEF Still, Plain, set_tx_mode, Sessions
<1>2. Still(r, queue_frame(r, f))
  BY DEF Still, Plain, queue_frame, Sessions
<1>3. Still(r, append_frames(r))
  BY DEF Still, Plain, append_frames, Sessions
<1>4. Still(r, begin_stream(r))
  BY DEF Still, Plain, begin_stream, Sessions
<1>. QED BY <1>1, <1>2, <1>3, <1>4

LEMMA RxPlain ==
  ASSUME NEW r \in Sessions, NEW mode
  PROVE  Plain(r, set_rx_mode(r, mode))
<1>. DEFINE keep == r.rx_mode = mode \/ (r.rx_mode = "STARTUP" /\ mode = "CC" /\ r.gate # "")
<1>1. PICK q : q = IF keep THEN r ELSE regate(r)
  OBVIOUS
<1>2. q \in Sessions /\ Plain(r, q)
  <2>1. regate(r) \in Sessions /\ Plain(r, regate(r))
    BY GateShut1, ShutStill DEF Onward, Still
  <2>2. Plain(r, r)
    BY DEF Plain
  <2>. QED BY <1>1, <2>1, <2>2
<1>3. PICK p, c : /\ p = (mode = "PRI" /\ (r.pri_skip \/ (r.rx_mode # "PRI" /\ r.gate # "")))
                  /\ c = IF mode = "PRI" /\ r.ccs_state = "RUN" THEN "DRAIN" ELSE q.ccs_state
  OBVIOUS
<1>4. PICK x : x = [q EXCEPT !.pri_skip = p, !.rx_mode = mode, !.ccs_state = c]
  OBVIOUS
<1>5. Plain(q, x)
  BY <1>2, <1>4 DEF Plain, Sessions
<1>6. set_rx_mode(r, mode) = x
  BY <1>1, <1>3, <1>4 DEF set_rx_mode
<1>. QED BY <1>2, <1>5, <1>6, PlainPlain

LEMMA FieldStill ==
  ASSUME NEW r \in Sessions, NEW v
  PROVE  /\ Still(r, [r EXCEPT !.pri_pending = v]) /\ Still(r, [r EXCEPT !.pri_skip = v])
         /\ Still(r, [r EXCEPT !.data_pending = v]) /\ Still(r, [r EXCEPT !.holdoff = v])
         /\ Still(r, [r EXCEPT !.burst_seen = v]) /\ Still(r, [r EXCEPT !.reneg_pending = v])
         /\ Still(r, [r EXCEPT !.ccs_state = v]) /\ Still(r, [r EXCEPT !.floor_hard_fails = v])
         /\ v # "PRI" => Still(r, [r EXCEPT !.pcm = v])
<1>1. Still(r, [r EXCEPT !.pri_pending = v]) /\ Still(r, [r EXCEPT !.pri_skip = v])
  BY DEF Still, Plain, Sessions
<1>2. Still(r, [r EXCEPT !.data_pending = v]) /\ Still(r, [r EXCEPT !.holdoff = v])
  BY DEF Still, Plain, Sessions
<1>3. Still(r, [r EXCEPT !.burst_seen = v]) /\ Still(r, [r EXCEPT !.reneg_pending = v])
  BY DEF Still, Plain, Sessions
<1>4. Still(r, [r EXCEPT !.ccs_state = v]) /\ Still(r, [r EXCEPT !.floor_hard_fails = v])
  BY DEF Still, Plain, Sessions
<1>5. v # "PRI" => Still(r, [r EXCEPT !.pcm = v])
  BY DEF Still, Plain, Sessions
<1>. QED BY <1>1, <1>2, <1>3, <1>4, <1>5

LEMMA CarrierStill ==
  ASSUME NEW r \in Sessions, NEW got
  PROVE  /\ Still(r, ccs_reset(r)) /\ Still(r, interlock(r)) /\ Still(r, hand_up(r, got))
         /\ Still(r, captured(r, got))
<1>1. Still(r, ccs_reset(r))
  BY DEF Still, Plain, ccs_reset, Sessions
<1>2. Still(r, interlock(r))
  BY DEF Still, Plain, interlock, Sessions
<1>3. Still(r, hand_up(r, got))
  BY DEF Still, Plain, hand_up, Sessions
<1>4. Still(r, captured(r, got))
  BY DEF Still, Plain, captured, Sessions
<1>. QED BY <1>1, <1>2, <1>3, <1>4

-----------------------------------------------------------------------------
(* What a step of one end does to its rates. m: the rates of the MPh it may *)
(* decode; live: a carrier is being received, so that a rate may be picked. *)
Over(r) == r.st = "IDLE" /\ r.rate_cur = 0 /\ r.remote_max = 0

Turns(s, a, b, m, live) ==
  /\ b.pt.srate = a.pt.srate /\ b.pt.local_max <= a.pt.local_max
  /\ s = "C" => b.pt.local_max = a.pt.local_max
  /\ b.ss.last_adv \in {0, a.ss.last_adv} /\ b.ss.win_mph \in {0, a.ss.win_mph}
  /\ b.ss.remote_max \in {a.ss.remote_max} \cup m \/ Over(b.ss)
  /\ Over(a.ss) => Over(b.ss)
  /\ b.ss.rate_cur > 0 => a.ss.rate_cur > 0 \/ live
  /\ b.ss.gate # "" => a.ss.gate # ""
  /\ b.ss.pcm = "PRI" => a.ss.pcm = "PRI"
  /\ EndKept(s, b)

LEMMA CapIs ==
  ASSUME NEW s, NEW e, EndOk(s, e)
  PROVE  e.pt.local_max \in 1..14 /\ e.pt.local_max \in Int /\ e.pt.srate \in Srates
<1>1. e.pt.local_max \in 1..14 /\ e.pt.srate \in Srates
  BY EndIs, PointFacts
<1>. QED BY <1>1

LEMMA TurnsTurns ==
  ASSUME NEW s, NEW a, NEW b, NEW c, NEW m, NEW live, EndOk(s, a), EndOk(s, b), EndOk(s, c),
         Turns(s, a, b, m, live), Turns(s, b, c, m, live)
  PROVE  Turns(s, a, c, m, live)
<1>1. c.pt.local_max <= a.pt.local_max
  <2>1. c.pt.local_max <= b.pt.local_max /\ b.pt.local_max <= a.pt.local_max
    BY Zenon DEF Turns
  <2>. QED BY <2>1, CapIs
<1>. QED BY <1>1, Zenon DEF Turns

(* The rates stay as they are.                                              *)
LEMMA KeptPlain ==
  ASSUME NEW s, NEW a, NEW b, EndKept(s, a), Plain(a.ss, b.ss), b.pt = a.pt,
         \/ a.t.sub # "A_WAIT_V34" \/ a.ss.done
         \/ b.t.sub = a.t.sub /\ b.ss.rx_mode = a.ss.rx_mode
  PROVE  EndKept(s, b)
<1>1. RateKept(b)
  BY Zenon DEF EndKept, RateKept, Plain
<1>2. StartKept(s, b)
  BY Zenon DEF EndKept, StartKept, Starting, Plain
<1>. QED BY <1>1, <1>2 DEF EndKept

LEMMA PlainTurns ==
  ASSUME NEW s, NEW a, EndOk(s, a), EndKept(s, a), NEW x, Plain(a.ss, x), NEW u,
         \/ a.t.sub # "A_WAIT_V34" \/ a.ss.done
         \/ u.sub = a.t.sub /\ x.rx_mode = a.ss.rx_mode,
         NEW m, NEW live
  PROVE  Turns(s, a, [ss |-> x, pt |-> a.pt, t |-> u], m, live)
<1>1. PICK b : b = [ss |-> x, pt |-> a.pt, t |-> u]
  OBVIOUS
<1>2. b.ss = x /\ b.pt = a.pt /\ b.t = u
  BY <1>1
<1>3. EndKept(s, b)
  BY <1>2, KeptPlain
<1>4. a.pt.local_max <= a.pt.local_max
  BY CapIs
<1>5. Plain(a.ss, b.ss)
  BY <1>2
<1>6. Turns(s, a, b, m, live)
  BY <1>2, <1>3, <1>4, <1>5, Zenon DEF Turns, Plain, Over
<1>. QED BY <1>1, <1>6

LEMMA StillTurns ==
  ASSUME NEW s, NEW a, EndOk(s, a), EndKept(s, a), NEW x, Still(a.ss, x), NEW m, NEW live
  PROVE  Turns(s, a, [a EXCEPT !.ss = x], m, live)
<1>1. [a EXCEPT !.ss = x] = [ss |-> x, pt |-> a.pt, t |-> a.t]
  BY EndIs
<1>2. Turns(s, a, [ss |-> x, pt |-> a.pt, t |-> a.t], m, live)
  BY PlainTurns DEF Still
<1>. QED BY <1>1, <1>2

LEMMA TurnsSelf ==
  ASSUME NEW s, NEW a, EndOk(s, a), EndKept(s, a), NEW m, NEW live
  PROVE  Turns(s, a, a, m, live)
<1>1. Still(a.ss, a.ss)
  BY DEF Still, Plain
<1>2. [a EXCEPT !.ss = a.ss] = a
  BY EndIs
<1>. QED BY <1>1, <1>2, StillTurns

(* T.30's calls into the session.                                           *)
LEMMA SendTurns ==
  ASSUME NEW s, NEW e, EndOk(s, e), EndKept(s, e), e.t.sub # "A_WAIT_V34" \/ e.ss.done,
         NEW f, NEW sub, NEW m, NEW live
  PROVE  Turns(s, e, send(e, f, sub), m, live)
<1>1. PICK r, p, t : r = e.ss /\ p = e.pt /\ t = e.t
  OBVIOUS
<1>2. r \in Sessions /\ e = [ss |-> r, pt |-> p, t |-> t]
  BY <1>1, EndIs
<1>3. PICK q, x, u : /\ q = set_tx_mode(r, "CC") /\ x = queue_frame(q, f)
                     /\ u = [t EXCEPT !.sub = sub]
  OBVIOUS
<1>4. Still(r, q) /\ q \in Sessions
  BY <1>2, <1>3, TxStill, TxMode1 DEF Modes, Onward
<1>5. Plain(r, x)
  BY <1>3, <1>4, TxStill, StillStill DEF Still
<1>6. send(e, f, sub) = [ss |-> x, pt |-> p, t |-> u]
  <2>1. PICK e1 : e1 = [e EXCEPT !.ss = x]
    OBVIOUS
  <2>2. e1 = [ss |-> x, pt |-> p, t |-> t] /\ e.ss = r
    BY <1>2, <2>1, Put
  <2>3. send(e, f, sub) = to(e1, sub)
    BY <1>3, <2>1, <2>2 DEF send
  <2>. QED BY <1>3, <2>2, <2>3, ToIs
<1>. QED BY <1>1, <1>5, <1>6, PlainTurns

LEMMA RxTurns ==
  ASSUME NEW s, NEW e, EndOk(s, e), EndKept(s, e), e.t.sub # "A_WAIT_V34" \/ e.ss.done,
         NEW mode, NEW sub, NEW m, NEW live
  PROVE  Turns(s, e, rx(e, mode, sub), m, live)
<1>1. PICK r, p, t : r = e.ss /\ p = e.pt /\ t = e.t
  OBVIOUS
<1>2. r \in Sessions /\ e = [ss |-> r, pt |-> p, t |-> t]
  BY <1>1, EndIs
<1>3. PICK x, u : x = set_rx_mode(r, mode) /\ u = [t EXCEPT !.sub = sub]
  OBVIOUS
<1>4. Plain(r, x)
  BY <1>2, <1>3, RxPlain
<1>5. rx(e, mode, sub) = [ss |-> x, pt |-> p, t |-> u]
  <2>1. PICK e1 : e1 = [e EXCEPT !.ss = x]
    OBVIOUS
  <2>2. e1 = [ss |-> x, pt |-> p, t |-> t] /\ e.ss = r
    BY <1>2, <2>1, Put
  <2>3. rx(e, mode, sub) = to(e1, sub)
    BY <1>3, <2>1, <2>2 DEF rx
  <2>. QED BY <1>3, <2>2, <2>3, ToIs
<1>. QED BY <1>1, <1>4, <1>5, PlainTurns

LEMMA FinishTurns ==
  ASSUME NEW s, NEW e, EndOk(s, e), NEW result, NEW m, NEW live
  PROVE  Turns(s, e, finish(e, result), m, live)
<1>1. PICK r, p, t : r = e.ss /\ p = e.pt /\ t = e.t
  OBVIOUS
<1>2. e = [ss |-> r, pt |-> p, t |-> t]
  BY <1>1, EndIs
<1>3. PICK b : b = finish(e, result)
  OBVIOUS
<1>4. b.ss = NewSession /\ b.pt = p
  <2>1. PICK u1, u : u1 = [t EXCEPT !.sub = "DONE"] /\ u = [u1 EXCEPT !.result = result]
    OBVIOUS
  <2>2. PICK e1, e2 : e1 = [e EXCEPT !.t = u1] /\ e2 = [e1 EXCEPT !.t = u]
    OBVIOUS
  <2>3. e1 = [ss |-> r, pt |-> p, t |-> u1] /\ e.t = t
    BY <1>2, <2>2, Put
  <2>4. e2 = [e1 EXCEPT !.t = u] /\ e1.t = u1
    BY <2>2, <2>3
  <2>5. e2 = [ss |-> r, pt |-> p, t |-> u]
    BY <2>3, <2>4, Put
  <2>6. [e2 EXCEPT !.ss = NewSession] = [ss |-> NewSession, pt |-> p, t |-> u]
    BY <2>5, Put
  <2>7. b = [e2 EXCEPT !.ss = NewSession]
    BY <1>3, <2>1, <2>2, <2>3, <2>4 DEF finish
  <2>. QED BY <2>6, <2>7
<1>5. /\ NewSession.st = "IDLE" /\ NewSession.rate_cur = 0 /\ NewSession.remote_max = 0
      /\ NewSession.last_adv = 0 /\ NewSession.win_mph = 0 /\ NewSession.gate = ""
      /\ NewSession.pcm = "" /\ ~(NewSession.rate_cur > 0)
  BY DEF NewSession
<1>6. EndKept(s, b)
  BY <1>4, <1>5, Zenon DEF EndKept, RateKept, StartKept, Starting
<1>7. Over(b.ss) /\ ~(b.ss.rate_cur > 0)
  BY <1>4, <1>5, Zenon DEF Over
<1>8. b.pt = e.pt /\ e.pt.local_max <= e.pt.local_max
  BY <1>1, <1>4, CapIs
<1>9. b.ss.last_adv = 0 /\ b.ss.win_mph = 0 /\ b.ss.gate = "" /\ b.ss.pcm # "PRI"
  BY <1>4, <1>5
<1>10. Turns(s, e, b, m, live)
  BY <1>6, <1>7, <1>8, <1>9, Zenon DEF Turns
<1>. QED BY <1>3, <1>10

(* Fields of the engine other than the substate.                            *)
LEMMA EngineTurns ==
  ASSUME NEW s, NEW e, EndOk(s, e), EndKept(s, e), NEW u, u.sub = e.t.sub, NEW m, NEW live
  PROVE  Turns(s, e, [e EXCEPT !.t = u], m, live)
<1>1. [e EXCEPT !.t = u] = [ss |-> e.ss, pt |-> e.pt, t |-> u]
  BY EndIs
<1>2. PICK x : x = e.ss
  OBVIOUS
<1>3. Plain(e.ss, x) /\ x.rx_mode = e.ss.rx_mode
  BY <1>2 DEF Plain
<1>4. Turns(s, e, [ss |-> x, pt |-> e.pt, t |-> u], m, live)
  BY <1>3, PlainTurns
<1>. QED BY <1>1, <1>2, <1>4

LEMMA BurstTurns ==
  ASSUME NEW s, NEW e, EndOk(s, e), EndKept(s, e), e.t.sub # "A_WAIT_V34", NEW m, NEW live
  PROVE  Turns(s, e, ecm_start_burst(e), m, live)
<1>1. PICK r, p, t : r = e.ss /\ p = e.pt /\ t = e.t
  OBVIOUS
<1>2. r \in Sessions /\ e = [ss |-> r, pt |-> p, t |-> t]
  BY <1>1, EndIs
<1>3. PICK q, x : q = set_tx_mode(r, "PRI") /\ x = begin_stream(q)
  OBVIOUS
<1>4. Still(r, q) /\ q \in Sessions
  BY <1>2, <1>3, TxStill, TxMode1 DEF Modes, Onward
<1>5. Plain(r, x)
  BY <1>3, <1>4, TxStill, StillStill DEF Still
<1>6. PICK u : ecm_start_burst(e) = [ss |-> x, pt |-> p, t |-> u]
  <2>1. PICK e1 : e1 = [e EXCEPT !.ss = x]
    OBVIOUS
  <2>2. e1 = [ss |-> x, pt |-> p, t |-> t] /\ e.ss = r
    BY <1>2, <2>1, Put
  <2>3. PICK u1 : u1 = [t EXCEPT !.post_retries = 0]
    OBVIOUS
  <2>4. PICK e2 : e2 = [e1 EXCEPT !.t = u1]
    OBVIOUS
  <2>5. e2 = [ss |-> x, pt |-> p, t |-> u1] /\ e1.t = t
    BY <2>2, <2>4, Put
  <2>6. ecm_start_burst(e) = to(e2, "C_SEND_ECM")
    BY <1>3, <2>1, <2>2, <2>3, <2>4, <2>5 DEF ecm_start_burst
  <2>7. to(e2, "C_SEND_ECM") = [ss |-> x, pt |-> p, t |-> [u1 EXCEPT !.sub = "C_SEND_ECM"]]
    BY <2>5, ToIs
  <2>. QED BY <2>6, <2>7
<1>. QED BY <1>1, <1>5, <1>6, PlainTurns

-----------------------------------------------------------------------------
(* T.30's handlers turn no rate.                                            *)
LEMMA PprTurns ==
  ASSUME NEW e, EndOk("C", e), EndKept("C", e), e.t.sub = "C_WAIT_PPS_RESP", NEW m, NEW live
  PROVE  Turns("C", e, ecm_ppr(e), m, live)
<1>1. PICK t, u : t = e.t /\ u = [t EXCEPT !.ppr_count = t.ppr_count + 1]
  OBVIOUS
<1>2. u \in Engines /\ u.sub = t.sub /\ u.result = t.result /\ u.missing = t.missing
  <2>1. t \in Engines
    BY <1>1, EndIs
  <2>2. ASSUME NEW n \in Nat
        PROVE  LET x == [t EXCEPT !.ppr_count = n] IN
               x \in Engines /\ x.sub = t.sub /\ x.result = t.result /\ x.missing = t.missing
    BY <2>1 DEF Engines
  <2>3. t.ppr_count \in Nat
    BY <2>1 DEF Engines
  <2>4. t.ppr_count + 1 \in Nat
    BY <2>3
  <2>. QED BY <1>1, <2>2, <2>4
<1>3. PICK e1 : e1 = [e EXCEPT !.t = u]
  OBVIOUS
<1>4. EndOk("C", e1)
  <2>1. Moves("C", e, [e EXCEPT !.t = u], TRUE)
    BY <1>1, <1>2, ModeFacts, EngineOnly
  <2>. QED BY <1>3, <2>1, MovesOk
<1>5. e1 = [e EXCEPT !.t.ppr_count = @ + 1] /\ e1.t = u
  <2>1. PICK r, p : e = [ss |-> r, pt |-> p, t |-> t]
    BY <1>1, EndIs
  <2>2. e1 = [ss |-> r, pt |-> p, t |-> u]
    BY <1>3, <2>1, Put
  <2>. QED BY <1>1, <1>3, <2>1, <2>2
<1>6. Turns("C", e, e1, m, live)
  BY <1>1, <1>2, <1>3, EngineTurns
<1>7. EndKept("C", e1) /\ e1.t.sub = "C_WAIT_PPS_RESP"
  <2>1. EndKept("C", e1)
    BY <1>6, Zenon DEF Turns
  <2>. QED BY <1>1, <1>2, <1>5, <2>1
<1>8. Turns("C", e1, finish(e1, "ERR"), m, live) /\ EndOk("C", finish(e1, "ERR"))
  BY <1>4, FinishTurns, FinishMoves, MovesOk, ModeFacts
<1>9. Turns("C", e1, ecm_start_burst(e1), m, live) /\ EndOk("C", ecm_start_burst(e1))
  BY <1>4, <1>7, BurstTurns, BurstMoves, MovesOk
<1>10. ecm_ppr(e) = finish(e1, "ERR") \/ ecm_ppr(e) = ecm_start_burst(e1)
  BY <1>5 DEF ecm_ppr
<1>. QED BY <1>4, <1>6, <1>8, <1>9, <1>10, TurnsTurns

LEMMA FrameTurns ==
  ASSUME NEW s \in Sides, NEW e, EndOk(s, e), EndKept(s, e), NEW f \in ControlFrames,
         NEW m, NEW live
  PROVE  Turns(s, e, on_frame(e, f), m, live)
<1>1. e.t.sub \in Substates
  BY EndIs DEF Engines
<1>2. CASE e.t.sub \in {"C_WAIT_DIS", "C_WAIT_CFR", "A_WAIT_DCS", "A_RECV_ECM", "A_WAIT_PPS",
                        "A_WAIT_DCN"}
  <2>1. \/ on_frame(e, f) = e \/ on_frame(e, f) = finish(e, "OK")
        \/ on_frame(e, f) = ecm_start_burst(e)
        \/ on_frame(e, f) = send(e, "DCS", "C_SEND_DCS")
        \/ on_frame(e, f) = send(e, "CFR", "A_SEND_CFR")
        \/ on_frame(e, f) = send(e, "PPR", "A_SEND_PPR")
        \/ on_frame(e, f) = send(e, "MCF", "A_SEND_ECM_MCF")
        \/ on_frame(e, f) = send(e, "MCF", "A_REACK")
    BY <1>2 DEF on_frame, ecm_process_pps
  <2>2. e.t.sub # "A_WAIT_V34"
    BY <1>2
  <2>. QED BY <2>1, <2>2, TurnsSelf, FinishTurns, BurstTurns, SendTurns
<1>3. CASE e.t.sub = "C_WAIT_PPS_RESP"
  <2>1. \/ on_frame(e, f) = e \/ on_frame(e, f) = send(e, "DCN", "C_SEND_DCN")
        \/ on_frame(e, f) = ecm_ppr(e)
    BY <1>3 DEF on_frame
  <2>2. s = "C"
    BY <1>3, ModeFacts DEF EndOk, AnswererSubs
  <2>3. Turns(s, e, ecm_ppr(e), m, live)
    BY <1>3, <2>2, PprTurns
  <2>4. e.t.sub # "A_WAIT_V34"
    BY <1>3
  <2>. QED BY <2>1, <2>3, <2>4, TurnsSelf, SendTurns
<1>4. CASE e.t.sub \notin {"C_WAIT_DIS", "C_WAIT_CFR", "A_WAIT_DCS", "A_RECV_ECM", "A_WAIT_PPS",
                           "A_WAIT_DCN", "C_WAIT_PPS_RESP"}
  <2>1. on_frame(e, f) = e
    BY <1>1, <1>4 DEF on_frame, Substates, Waiting
  <2>. QED BY <2>1, TurnsSelf
<1>. QED BY <1>2, <1>3, <1>4

LEMMA FramesTurn ==
  ASSUME NEW s \in Sides, NEW a, NEW e, NEW told, NEW m, NEW live, EndOk(s, a),
         Moves(s, a, e, told), Turns(s, a, e, m, live),
         NEW q \in FrameSeqs, SaysMcf(q) => told
  PROVE  Moves(s, a, on_frames(e, q), told) /\ Turns(s, a, on_frames(e, q), m, live)
<1>. DEFINE T == {x \in EndRecords : Moves(s, a, x, told) /\ Turns(s, a, x, m, live)}
            X == {f \in ControlFrames : f = "MCF" => told}
<1>1. q \in Seq(X)
  <2>1. q \in Seq(ControlFrames)
    BY DEF FrameSeqs
  <2>2. \A i \in 1..Len(q) : q[i] \in X
    BY <2>1 DEF SaysMcf, Range
  <2>3. Len(q) \in Nat /\ q = [i \in 1..Len(q) |-> q[i]]
    BY <2>1
  <2>. QED BY <2>2, <2>3, SeqDef
<1>2. e \in T
  BY MovesOk DEF EndOk
<1>3. ASSUME NEW x \in T, NEW f \in X PROVE on_frame(x, f) \in T
  <2>1. Moves(s, a, x, told) /\ EndOk(s, x) /\ Turns(s, a, x, m, live)
    BY MovesOk
  <2>2. Moves(s, x, on_frame(x, f), told)
    <3>1. CASE s = "C"
      BY <2>1, <3>1, CallerFrame
    <3>2. CASE s = "A"
      BY <2>1, <3>2, AnswererFrame
    <3>. QED BY <3>1, <3>2, ModeFacts
  <2>3. Moves(s, a, on_frame(x, f), told) /\ EndOk(s, on_frame(x, f))
    BY <2>1, <2>2, MovesMoves, MovesOk
  <2>4. Turns(s, x, on_frame(x, f), m, live)
    <3>1. EndKept(s, x)
      BY <2>1 DEF Turns
    <3>. QED BY <2>1, <3>1, FrameTurns
  <2>5. Turns(s, a, on_frame(x, f), m, live)
    BY <2>1, <2>3, <2>4, TurnsTurns
  <2>. QED BY <2>3, <2>5 DEF EndOk
<1>. HIDE DEF T, X
<1>4. on_frames(e, q) \in T
  BY <1>1, <1>2, <1>3, TakenIn
<1>. QED BY <1>4 DEF T

LEMMA CompleteTurns ==
  ASSUME NEW s \in Sides, NEW e, EndOk(s, e), EndKept(s, e), NEW m, NEW live
  PROVE  Turns(s, e, on_complete(e), m, live)
<1>1. e.t.sub \in Substates
  BY EndIs DEF Engines
<1>2. CASE e.t.sub = "A_SEND_CFR"
  <2>1. PICK r, p, t : r = e.ss /\ p = e.pt /\ t = e.t
    OBVIOUS
  <2>2. r \in Sessions /\ t \in Engines /\ e = [ss |-> r, pt |-> p, t |-> t] /\ t.sub = "A_SEND_CFR"
    BY <1>2, <2>1, EndIs
  <2>3. PICK u : u = [t EXCEPT !.missing = TRUE]
    OBVIOUS
  <2>4. u \in Engines /\ u.sub = "A_SEND_CFR"
    BY <2>2, <2>3 DEF Engines
  <2>5. PICK e1 : e1 = [e EXCEPT !.t = u]
    OBVIOUS
  <2>6. e1 = [ss |-> r, pt |-> p, t |-> u] /\ e.t = t /\ e1.t = u
    BY <2>2, <2>5, Put
  <2>7. on_complete(e) = ecm_rx_listen(e1)
    BY <1>2, <2>3, <2>5, <2>6 DEF on_complete
  <2>8. Turns(s, e, e1, m, live) /\ e1.t.sub = "A_SEND_CFR"
    <3>1. u.sub = e.t.sub
      BY <2>1, <2>2, <2>4
    <3>2. Turns(s, e, e1, m, live)
      BY <2>5, <3>1, EngineTurns
    <3>. QED BY <2>4, <2>6, <3>2
  <2>9. s = "A"
    BY <1>2, ModeFacts DEF EndOk, CallerSubs
  <2>10. EndOk(s, e1) /\ ~Delivered(e1.t)
    <3>1. EndOk(s, e1)
      <4>1. r.rx_mode \in Modes /\ e1 \in EndRecords
        BY <2>1, <2>2, <2>4, <2>6, EndIs DEF EndRecords, Sessions
      <4>. QED BY <2>4, <2>6, <2>9, <4>1 DEF EndOk, Acked, SubsOf, AnswererSubs
    <3>. QED BY <2>8, <3>1 DEF Delivered
  <2>11. EndKept(s, e1)
    BY <2>8, Zenon DEF Turns
  <2>12. Turns(s, e1, ecm_rx_listen(e1), m, live)
    BY <2>8, <2>10, <2>11, RxTurns DEF ecm_rx_listen
  <2>13. EndOk(s, ecm_rx_listen(e1))
    BY <2>8, <2>9, <2>10, ListenMoves, MovesOk
  <2>. QED BY <2>7, <2>8, <2>10, <2>12, <2>13, TurnsTurns
<1>3. CASE e.t.sub \in {"A_SEND_DIS", "C_SEND_DCS", "C_SEND_ECM", "C_SEND_PPS", "A_SEND_PPR",
                        "A_SEND_ECM_MCF", "A_REACK", "C_SEND_DCN"}
  <2>1. \/ on_complete(e) = rx(e, "CC", "A_WAIT_DCS") \/ on_complete(e) = rx(e, "CC", "C_WAIT_CFR")
        \/ on_complete(e) = send(e, "PPS", "C_SEND_PPS")
        \/ on_complete(e) = rx(e, "CC", "C_WAIT_PPS_RESP")
        \/ on_complete(e) = rx(e, "PRI", "A_RECV_ECM")
        \/ on_complete(e) = rx(e, "CC", "A_WAIT_DCN") \/ on_complete(e) = finish(e, "OK")
    BY <1>3 DEF on_complete, ecm_send_pps, ecm_rx_listen
  <2>2. e.t.sub # "A_WAIT_V34"
    BY <1>3
  <2>. QED BY <2>1, <2>2, FinishTurns, RxTurns, SendTurns
<1>4. CASE e.t.sub \notin {"A_SEND_CFR", "A_SEND_DIS", "C_SEND_DCS", "C_SEND_ECM", "C_SEND_PPS",
                           "A_SEND_PPR", "A_SEND_ECM_MCF", "A_REACK", "C_SEND_DCN"}
  <2>1. on_complete(e) = e
    BY <1>1, <1>4 DEF on_complete, Substates, Waiting
  <2>. QED BY <2>1, TurnsSelf
<1>. QED BY <1>2, <1>3, <1>4

LEMMA StartupTurns ==
  ASSUME NEW s, NEW e, EndOk(s, e), EndKept(s, e), NEW ok \in BOOLEAN, ok => e.ss.done,
         NEW m, NEW live
  PROVE  Turns(s, e, on_startup(e, ok), m, live)
<1>1. CASE ~ok
  <2>1. on_startup(e, ok) = finish(e, "ERR") \/ on_startup(e, ok) = e
    BY <1>1 DEF on_startup
  <2>. QED BY <2>1, FinishTurns, TurnsSelf
<1>2. CASE ok
  <2>1. \/ on_startup(e, ok) = rx(e, "CC", "C_WAIT_DIS")
        \/ on_startup(e, ok) = send(e, "DIS", "A_SEND_DIS")
        \/ on_startup(e, ok) = e
    BY <1>2 DEF on_startup, answer_send_dis
  <2>. QED BY <1>2, <2>1, RxTurns, SendTurns, TurnsSelf
<1>. QED BY <1>1, <1>2

LEMMA CarrierDownTurns ==
  ASSUME NEW s, NEW e, EndOk(s, e), EndKept(s, e), NEW m, NEW live
  PROVE  Turns(s, e, on_carrier_down(e), m, live)
<1>1. CASE e.t.sub = "A_RECV_ECM"
  BY <1>1, RxTurns DEF on_carrier_down
<1>2. CASE e.t.sub # "A_RECV_ECM"
  BY <1>2, TurnsSelf DEF on_carrier_down
<1>. QED BY <1>1, <1>2

LEMMA RetriedTurns ==
  ASSUME NEW s \in Sides, NEW e, EndOk(s, e), EndKept(s, e), NEW m, NEW live
  PROVE  /\ Turns(s, e, [e EXCEPT !.t.post_retries = @ + 1], m, live)
         /\ Turns(s, e, [e EXCEPT !.t.dis_retries = @ + 1], m, live)
<1>1. PICK r, p, t : r = e.ss /\ p = e.pt /\ t = e.t
  OBVIOUS
<1>2. t \in Engines /\ e = [ss |-> r, pt |-> p, t |-> t]
  BY <1>1, EndIs
<1>3. PICK u, v : /\ u = [t EXCEPT !.post_retries = t.post_retries + 1]
                  /\ v = [t EXCEPT !.dis_retries = t.dis_retries + 1]
  OBVIOUS
<1>4. u.sub = t.sub /\ v.sub = t.sub
  BY <1>2, <1>3 DEF Engines
<1>5. PICK a, b : a = [e EXCEPT !.t = u] /\ b = [e EXCEPT !.t = v]
  OBVIOUS
<1>6. Turns(s, e, a, m, live) /\ Turns(s, e, b, m, live)
  BY <1>1, <1>4, <1>5, EngineTurns
<1>7. [e EXCEPT !.t.post_retries = @ + 1] = a /\ [e EXCEPT !.t.dis_retries = @ + 1] = b
  BY <1>1, <1>3, <1>5
<1>. QED BY <1>6, <1>7

LEMMA TimerTurns ==
  ASSUME NEW s \in Sides, NEW e, EndOk(s, e), EndKept(s, e), NEW m, NEW live
  PROVE  Turns(s, e, on_timer(e), m, live)
<1>1. CASE e.t.sub = "C_WAIT_PPS_RESP" /\ e.t.post_retries < PostRetries
  <2>1. PICK a : a = [e EXCEPT !.t.post_retries = @ + 1]
    OBVIOUS
  <2>2. on_timer(e) = ecm_send_pps(a)
    BY <1>1, <2>1 DEF on_timer
  <2>3. s = "C"
    BY <1>1, ModeFacts DEF EndOk, AnswererSubs
  <2>4. Moves(s, e, a, TRUE) /\ a.t.sub = "C_WAIT_PPS_RESP" /\ Turns(s, e, a, m, live)
    <3>1. Moves(s, e, a, TRUE) /\ a.t.sub = e.t.sub
      BY <2>1, Retried
    <3>. QED BY <1>1, <2>1, <3>1, RetriedTurns
  <2>5. EndOk(s, a) /\ EndKept(s, a) /\ EndOk(s, ecm_send_pps(a))
    <3>1. EndOk(s, a)
      BY <2>4, MovesOk
    <3>2. EndKept(s, a)
      BY <2>4, Zenon DEF Turns
    <3>. QED BY <2>3, <2>4, <3>1, <3>2, PpsMoves, MovesOk
  <2>6. Turns(s, a, ecm_send_pps(a), m, live)
    BY <2>4, <2>5, SendTurns DEF ecm_send_pps
  <2>. QED BY <2>2, <2>4, <2>5, <2>6, TurnsTurns
<1>2. CASE e.t.sub = "A_WAIT_DCS" /\ e.t.dis_retries < DisRetries
  <2>1. PICK a : a = [e EXCEPT !.t.dis_retries = @ + 1]
    OBVIOUS
  <2>2. on_timer(e) = answer_send_dis(a)
    BY <1>2, <2>1 DEF on_timer
  <2>3. s = "A"
    BY <1>2, ModeFacts DEF EndOk, CallerSubs
  <2>4. Moves(s, e, a, TRUE) /\ a.t.sub = "A_WAIT_DCS" /\ Turns(s, e, a, m, live)
    <3>1. Moves(s, e, a, TRUE) /\ a.t.sub = e.t.sub
      BY <2>1, Retried
    <3>. QED BY <1>2, <2>1, <3>1, RetriedTurns
  <2>5. EndOk(s, a) /\ EndKept(s, a) /\ EndOk(s, answer_send_dis(a))
    <3>1. EndOk(s, a)
      BY <2>4, MovesOk
    <3>2. EndKept(s, a)
      BY <2>4, Zenon DEF Turns
    <3>3. ~Delivered(a.t)
      BY <2>4 DEF Delivered
    <3>. QED BY <2>3, <2>4, <3>1, <3>2, <3>3, DisMoves, MovesOk
  <2>6. Turns(s, a, answer_send_dis(a), m, live)
    BY <2>4, <2>5, SendTurns DEF answer_send_dis
  <2>. QED BY <2>2, <2>4, <2>5, <2>6, TurnsTurns
<1>3. CASE /\ ~(e.t.sub = "C_WAIT_PPS_RESP" /\ e.t.post_retries < PostRetries)
           /\ ~(e.t.sub = "A_WAIT_DCS" /\ e.t.dis_retries < DisRetries)
  <2>1. on_timer(e) = finish(e, "ERR")
    BY <1>3 DEF on_timer
  <2>. QED BY <2>1, FinishTurns
<1>. QED BY <1>1, <1>2, <1>3

-----------------------------------------------------------------------------
(* What an end decodes.                                                     *)
LEMMA Reported2 ==
  ASSUME NEW r \in Sessions, NEW st, NEW b, NEW n
  PROVE  LET x == Reported(r, st, b, n) IN
         /\ x.done /\ x.st = st /\ x.last_adv = r.last_adv /\ x.win_mph = r.win_mph
         /\ x.rate_cur = r.rate_cur /\ x.remote_max = r.remote_max
         /\ x.gate = r.gate /\ x.pcm = r.pcm
  BY DEF Reported, Sessions

LEMMA ReportTurns ==
  ASSUME NEW s, NEW e, EndOk(s, e), EndKept(s, e), e.ss.st # "IDLE", NEW ok \in BOOLEAN,
         ok => e.ss.rate_cur > 0 /\ e.ss.remote_max > 0, NEW m, NEW live
  PROVE  Turns(s, e, [e EXCEPT !.ss = report_v34(e.ss, ok)], m, live)
<1>1. PICK r, p, t : r = e.ss /\ p = e.pt /\ t = e.t
  OBVIOUS
<1>2. r \in Sessions /\ e = [ss |-> r, pt |-> p, t |-> t]
  BY <1>1, EndIs
<1>3. PICK x : x = report_v34(r, ok)
  OBVIOUS
<1>4. PICK b : b = [ss |-> x, pt |-> p, t |-> t]
  OBVIOUS
<1>5. b.ss = x /\ b.pt = p /\ b.t = t /\ [e EXCEPT !.ss = x] = b
  BY <1>2, <1>4, Put
<1>6. CASE r.done
  <2>1. x = r
    BY <1>3, <1>6 DEF report_v34
  <2>2. b = e
    BY <1>2, <1>4, <2>1
  <2>. QED BY <1>1, <1>3, <1>5, <2>2, TurnsSelf
<1>7. CASE ~r.done
  <2>1. PICK st, c, n : /\ st = IF ok THEN "DONE" ELSE "FAILED"
                        /\ c = (r.cc_established \/ ok)
                        /\ n = IF ok THEN 0 ELSE r.floor_hard_fails
    OBVIOUS
  <2>2. x = Reported(r, st, c, n)
    BY <1>3, <1>7, <2>1 DEF report_v34, Reported
  <2>3. /\ x.done /\ x.st = st /\ x.last_adv = r.last_adv /\ x.win_mph = r.win_mph
        /\ x.rate_cur = r.rate_cur /\ x.remote_max = r.remote_max
        /\ x.gate = r.gate /\ x.pcm = r.pcm
    BY <1>2, <2>2, Reported2
  <2>4. RateKept(b)
    <3>1. e.ss.rate_cur > 0 => e.ss.rate_cur = Best(e.pt.srate, e.pt.local_max, e.ss.remote_max)
      BY Zenon DEF EndKept, RateKept
    <3>2. st = "DONE" => r.rate_cur > 0 /\ r.remote_max > 0
      BY <1>1, <2>1
    <3>. QED BY <1>1, <1>5, <2>3, <3>1, <3>2, Zenon DEF RateKept
  <2>5. StartKept(s, b)
    <3>1. st # "A_TRN_WAIT"
      BY <2>1
    <3>. QED BY <1>5, <2>3, <3>1, Zenon DEF StartKept, Starting
  <2>6. b.pt = e.pt /\ e.pt.local_max <= e.pt.local_max /\ ~Over(e.ss)
    BY <1>1, <1>5, CapIs DEF Over
  <2>7. EndKept(s, b)
    BY <2>4, <2>5 DEF EndKept
  <2>8. Turns(s, e, b, m, live)
    BY <1>1, <1>5, <2>3, <2>6, <2>7, Zenon DEF Turns
  <2>. QED BY <1>1, <1>3, <1>5, <2>8
<1>. QED BY <1>6, <1>7

LEMMA PickSets ==
  ASSUME NEW r \in Sessions, NEW b, NEW n, NEW v
  PROVE  LET x == [SetHeard(r, b, n) EXCEPT !.rate_cur = v] IN
         /\ x.done = r.done /\ x.st = r.st /\ x.in_retrain = r.in_retrain
         /\ x.last_adv = r.last_adv /\ x.win_mph = r.win_mph
         /\ x.rate_cur = v /\ x.remote_max = n /\ x.rx_mode = r.rx_mode
         /\ x.gate = r.gate /\ x.pcm = r.pcm
  BY DEF SetHeard, Sessions

LEMMA HeardTurns ==
  ASSUME NEW s \in Sides, NEW e, EndOk(s, e), EndKept(s, e), NEW mph \in Rates,
         NEW opens \in BOOLEAN, NEW m, NEW live,
         mph # 0 => mph \in m /\ live /\ e.ss.st \notin {"IDLE", "A_TRN_WAIT"}
  PROVE  LET b == process_cc(e, mph, opens) IN
         /\ Turns(s, e, b, m, live)
         /\ b.ss.st = e.ss.st /\ b.ss.done = e.ss.done
         /\ mph # 0 => b.ss.rate_cur > 0 /\ b.ss.remote_max > 0
<1>1. PICK r, p, t : r = e.ss /\ p = e.pt /\ t = e.t
  OBVIOUS
<1>2. r \in Sessions /\ p \in SafePoints /\ e = [ss |-> r, pt |-> p, t |-> t]
  BY <1>1, EndIs
<1>3. PICK c : c = (r.reneg_pending \/ (r.cc_established /\ ~r.holdoff /\ (mph > 0 \/ opens)
                                        /\ ~(r.ccs_state # "OFF" /\ r.form_startup)))
  OBVIOUS
<1>4. PICK r1 : r1 = [r EXCEPT !.reneg_pending = c]
  OBVIOUS
<1>5. Still(r, r1) /\ r1 \in Sessions /\ r1.rx_mode = r.rx_mode
  <2>1. Still(r, r1)
    BY <1>2, <1>4, FieldStill
  <2>2. c \in BOOLEAN
    BY <1>3
  <2>3. Alike(r, r1)
    BY <1>2, <1>4, <2>2, Set1
  <2>. QED BY <2>1, <2>3 DEF Alike
<1>6. CASE mph = 0
  <2>1. process_cc(e, mph, opens) = [e EXCEPT !.ss = r1]
    BY <1>1, <1>3, <1>4, <1>6 DEF process_cc
  <2>2. [e EXCEPT !.ss = r1] = [ss |-> r1, pt |-> p, t |-> t]
    BY <1>2, Put
  <2>3. Turns(s, e, [e EXCEPT !.ss = r1], m, live)
    BY <1>1, <1>5, StillTurns
  <2>. QED BY <1>1, <1>5, <1>6, <2>1, <2>2, <2>3 DEF Still, Plain
<1>7. CASE mph # 0
  <2>1. PICK v : v = Best(p.srate, p.local_max, mph)
    OBVIOUS
  <2>2. PICK x : x = [SetHeard(r1, r.pre_mph, mph) EXCEPT !.rate_cur = v]
    OBVIOUS
  <2>3. process_cc(e, mph, opens) = [e EXCEPT !.ss = x]
    <3>1. PICK r2 : r2 = SetHeard(r1, r.pre_mph, mph)
      OBVIOUS
    <3>2. r2.remote_max = mph
      BY <1>5, <3>1 DEF SetHeard, Sessions
    <3>3. x = pick_rate(r2, p)
      BY <2>1, <2>2, <3>1, <3>2, PickIs
    <3>. QED BY <1>1, <1>3, <1>4, <1>7, <3>1, <3>3 DEF process_cc, SetHeard
  <2>4. /\ x.done = r.done /\ x.st = r.st /\ x.in_retrain = r.in_retrain
        /\ x.last_adv = r.last_adv /\ x.win_mph \in {0, r.win_mph}
        /\ x.rate_cur = v /\ x.remote_max = mph /\ x.rx_mode = r.rx_mode
        /\ (x.gate # "" => r.gate # "") /\ (x.pcm = "PRI" => r.pcm = "PRI")
    <3>1. /\ x.done = r1.done /\ x.st = r1.st /\ x.in_retrain = r1.in_retrain
          /\ x.last_adv = r1.last_adv /\ x.win_mph = r1.win_mph
          /\ x.rate_cur = v /\ x.remote_max = mph /\ x.rx_mode = r1.rx_mode
          /\ x.gate = r1.gate /\ x.pcm = r1.pcm
      BY <1>5, <2>2, PickSets
    <3>. QED BY <1>5, <3>1, Zenon DEF Still, Plain
  <2>5. v > 0 /\ mph > 0
    <3>1. v \in 1..14
      BY <1>2, <2>1, PointFacts, BestIs
    <3>2. mph \in 1..14
      BY <1>7 DEF Rates
    <3>. QED BY <3>1, <3>2
  <2>6. PICK b : b = [ss |-> x, pt |-> p, t |-> t]
    OBVIOUS
  <2>7. b.ss = x /\ b.pt = p /\ b.t = t /\ [e EXCEPT !.ss = x] = b
    BY <1>2, <2>6, Put
  <2>8. RateKept(b)
    BY <2>1, <2>4, <2>5, <2>7, Zenon DEF RateKept
  <2>9. StartKept(s, b)
    <3>1. StartKept(s, e)
      BY DEF EndKept
    <3>. QED BY <1>1, <1>7, <2>4, <2>7, <3>1 DEF StartKept, Starting
  <2>10. b.pt = e.pt /\ e.pt.local_max <= e.pt.local_max /\ ~Over(e.ss) /\ mph \in m /\ live
    BY <1>1, <1>7, <2>7, CapIs DEF Over
  <2>11. EndKept(s, b)
    BY <2>8, <2>9 DEF EndKept
  <2>12. Turns(s, e, b, m, live)
    BY <1>1, <2>4, <2>7, <2>10, <2>11, Zenon DEF Turns
  <2>. QED BY <1>1, <2>3, <2>4, <2>5, <2>7, <2>12
<1>. QED BY <1>6, <1>7

LEMMA ScanTurns ==
  ASSUME NEW s \in Sides, EndsInv, EndKept(s, End(s)), NEW mph \in Rates, NEW opens \in BOOLEAN,
         NEW got \in SUBSET Range(ss[s].win), ss[s].st \notin {"IDLE", "A_TRN_WAIT"},
         NEW m, NEW live, mph # 0 => mph \in m /\ live
  PROVE  Turns(s, End(s), ScanCc(s, mph, opens, got), m, live)
<1>1. PICK e, told : e = End(s) /\ told = SaysMcf(ss[s].win)
  OBVIOUS
<1>2. EndOk(s, e) /\ e.ss = ss[s] /\ e.ss \in Sessions /\ EndKept(s, e)
  <2>1. EndOk(s, e)
    BY <1>1 DEF EndsInv
  <2>2. e.ss = ss[s]
    BY <1>1 DEF End
  <2>. QED BY <1>1, <2>1, <2>2, EndIs
<1>3. got \in FrameSets
  <2>1. e.ss.win \in Seq(ControlFrames)
    BY <1>2, Fields DEF FrameSeqs
  <2>2. Range(e.ss.win) \subseteq ControlFrames
    BY <2>1 DEF Range
  <2>. QED BY <1>2, <2>2 DEF FrameSets
<1>4. PICK e0 : e0 = process_cc(e, mph, opens)
  OBVIOUS
<1>5. PICK x0 : Alike(e.ss, x0) /\ e0 = [e EXCEPT !.ss = x0]
  BY <1>2, <1>4, ProcessCc
<1>6. Moves(s, e, e0, told) /\ EndOk(s, e0) /\ e0.ss \in Sessions
  BY <1>2, <1>5, AlikeOnward, SessionOnly, MovesOk, EndIs
<1>7. /\ Turns(s, e, e0, m, live) /\ e0.ss.st = e.ss.st /\ e0.ss.done = e.ss.done
      /\ mph # 0 => e0.ss.rate_cur > 0 /\ e0.ss.remote_max > 0
  BY <1>2, <1>4, HeardTurns
<1>8. PICK h, x1, e1 : /\ h = (RxMode(s) = "PRI" /\ (mph > 0 \/ got # {}))
                       /\ x1 = [e0.ss EXCEPT !.burst_seen = e0.ss.burst_seen \/ h]
                       /\ e1 = [e0 EXCEPT !.ss = x1]
  OBVIOUS
<1>9. e1 = ScanHeard(e0, h) /\ e1.ss = x1
  <2>1. e1 = ScanHeard(e0, h)
    BY <1>8 DEF ScanHeard
  <2>. QED BY <1>6, <1>8, <2>1, EndIs
<1>10. Alike(e0.ss, x1) /\ Still(e0.ss, x1)
  <2>1. (e0.ss.burst_seen \/ h) \in BOOLEAN
    OBVIOUS
  <2>. QED BY <1>6, <1>8, <2>1, Set1, FieldStill
<1>11. Moves(s, e, e1, told) /\ EndOk(s, e1) /\ Turns(s, e, e1, m, live)
  <2>1. Moves(s, e0, e1, told)
    BY <1>6, <1>8, <1>10, AlikeOnward, SessionOnly
  <2>2. Turns(s, e0, e1, m, live)
    <3>1. EndKept(s, e0)
      BY <1>7, Zenon DEF Turns
    <3>. QED BY <1>6, <1>8, <1>10, <3>1, StillTurns
  <2>3. Moves(s, e, e1, told) /\ EndOk(s, e1)
    BY <1>6, <2>1, MovesMoves, MovesOk
  <2>. QED BY <1>2, <1>6, <1>7, <2>2, <2>3, TurnsTurns
<1>12. /\ x1.st = e.ss.st /\ x1.done = e.ss.done /\ x1.st # "IDLE" /\ x1 \in Sessions
       /\ mph # 0 => x1.rate_cur > 0 /\ x1.remote_max > 0
  <2>1. x1.st = e0.ss.st /\ x1.done = e0.ss.done /\ x1 \in Sessions
    BY <1>10 DEF Alike
  <2>2. x1.rate_cur = e0.ss.rate_cur /\ x1.remote_max = e0.ss.remote_max
    BY <1>10 DEF Still, Plain
  <2>. QED BY <1>2, <1>7, <2>1, <2>2
<1>13. PICK est : est = (CanEstablish(e.ss) /\ mph > 0)
  OBVIOUS
<1>14. PICK e2 : e2 = ScanReport(e1, est)
  OBVIOUS
<1>15. Moves(s, e, e2, told) /\ EndOk(s, e2) /\ Turns(s, e, e2, m, live) /\ (est => e2.ss.done)
  <2>1. CASE est
    <3>1. e2 = [e1 EXCEPT !.ss = report_v34(x1, TRUE)]
      BY <1>9, <1>14, <2>1 DEF ScanReport
    <3>2. mph # 0
      <4>1. mph > 0
        BY <1>13, <2>1, Zenon
      <4>. QED BY <4>1, SMT DEF Rates
    <3>3. EndKept(s, e1)
      BY <1>11, Zenon DEF Turns
    <3>4. Turns(s, e1, e2, m, live)
      BY <1>9, <1>11, <1>12, <3>1, <3>2, <3>3, ReportTurns
    <3>5. Moves(s, e1, e2, told)
      BY <1>9, <1>11, <1>12, <3>1, Report1, SessionOnly
    <3>6. Moves(s, e, e2, told) /\ EndOk(s, e2)
      BY <1>11, <3>5, MovesMoves, MovesOk
    <3>7. e2.ss.done
      <4>1. e2.ss = report_v34(x1, TRUE)
        BY <1>11, <3>1, EndIs
      <4>2. report_v34(x1, TRUE).done
        BY <1>12 DEF report_v34, Sessions
      <4>. QED BY <4>1, <4>2
    <3>. QED BY <1>2, <1>11, <3>4, <3>6, <3>7, TurnsTurns
  <2>2. CASE ~est
    <3>1. e2 = [e1 EXCEPT !.ss = e1.ss]
      BY <1>14, <2>2 DEF ScanReport
    <3>2. e2 = e1
      BY <1>11, <3>1, EndIs
    <3>. QED BY <1>11, <2>2, <3>2
  <2>. QED BY <2>1, <2>2
<1>16. PICK e3 : e3 = IF est /\ ~e.ss.in_retrain THEN on_startup(e2, TRUE) ELSE e2
  OBVIOUS
<1>17. Moves(s, e, e3, told) /\ EndOk(s, e3) /\ Turns(s, e, e3, m, live)
  <2>1. CASE est /\ ~e.ss.in_retrain
    <3>1. e3 = on_startup(e2, TRUE)
      BY <1>16, <2>1
    <3>2. EndKept(s, e2)
      BY <1>15, Zenon DEF Turns
    <3>3. Turns(s, e2, e3, m, live)
      BY <1>15, <2>1, <3>1, <3>2, StartupTurns
    <3>4. Moves(s, e2, e3, told)
      BY <1>15, <3>1, StartupMoves
    <3>5. Moves(s, e, e3, told) /\ EndOk(s, e3)
      BY <1>15, <3>4, MovesMoves, MovesOk
    <3>. QED BY <1>2, <1>15, <3>3, <3>5, TurnsTurns
  <2>2. CASE ~(est /\ ~e.ss.in_retrain)
    BY <1>15, <1>16, <2>2
  <2>. QED BY <2>1, <2>2
<1>18. PICK x4, up, e4 : /\ x4 = hand_up(e3.ss, got) /\ up = Only(e.ss.win, got)
                         /\ e4 = [e3 EXCEPT !.ss = x4]
  OBVIOUS
<1>19. Moves(s, e, e4, told) /\ Turns(s, e, e4, m, live)
  <2>1. Onward(e3.ss, x4) /\ Still(e3.ss, x4)
    BY <1>3, <1>17, <1>18, EndIs, HandUp1, CarrierStill
  <2>2. Moves(s, e3, e4, told)
    BY <1>17, <1>18, <2>1, SessionOnly
  <2>3. EndKept(s, e3)
    BY <1>17, Zenon DEF Turns
  <2>4. Turns(s, e3, e4, m, live)
    BY <1>17, <1>18, <2>1, <2>3, StillTurns
  <2>5. Moves(s, e, e4, told) /\ EndOk(s, e4)
    BY <1>17, <2>2, MovesMoves, MovesOk
  <2>. QED BY <1>2, <1>17, <2>4, <2>5, TurnsTurns
<1>20. up \in FrameSeqs /\ (SaysMcf(up) => told)
  <2>1. up \in FrameSeqs /\ Range(up) \subseteq Range(e.ss.win)
    BY <1>2, <1>18, Fields, OnlyRange
  <2>. QED BY <1>1, <1>2, <2>1 DEF SaysMcf
<1>21. Turns(s, e, on_frames(e4, up), m, live)
  BY <1>2, <1>19, <1>20, FramesTurn
<1>22. ScanCc(s, mph, opens, got) = on_frames(e4, up) \/ ScanCc(s, mph, opens, got) = e3
  <2>1. on_frames(e4, up) = ScanHandUp(e3, got, up)
    BY <1>18 DEF ScanHandUp
  <2>2. e1 = ScanHeard(process_cc(End(s), mph, opens),
                       RxMode(s) = "PRI" /\ (mph > 0 \/ got # {}))
    BY <1>1, <1>4, <1>8, <1>9
  <2>3. e2 = ScanReport(e1, CanEstablish(End(s).ss) /\ mph > 0)
    BY <1>1, <1>13, <1>14
  <2>4. e3 = IF (CanEstablish(End(s).ss) /\ mph > 0) /\ ~End(s).ss.in_retrain
               THEN on_startup(e2, TRUE) ELSE e2
    BY <1>1, <1>13, <1>16
  <2>5. on_frames(e4, up) = ScanHandUp(e3, got, Only(End(s).ss.win, got))
    BY <1>1, <1>18, <2>1
  <2>. QED BY <2>2, <2>3, <2>4, <2>5, ScanIs, Zenon
<1>. QED BY <1>1, <1>17, <1>21, <1>22

-----------------------------------------------------------------------------
(* The answerer after a burst, and after Phase 3.                           *)
LEMMA FallbackTurns ==
  ASSUME NEW e, EndOk("A", e), EndKept("A", e), e.ss.st \notin {"IDLE", "A_TRN_WAIT"},
         NEW n \in fallbacks(e), NEW m, NEW live, live
  PROVE  Turns("A", e, [rate_fallback(e, n) EXCEPT !.ss.floor_hard_fails = 0], m, live)
<1>1. PICK r, p, t : r = e.ss /\ p = e.pt /\ t = e.t
  OBVIOUS
<1>2. r \in Sessions /\ p \in SafePoints /\ e = [ss |-> r, pt |-> p, t |-> t]
  BY <1>1, EndIs
<1>3. p.srate \in Srates /\ p.local_max \in 1..14
  BY <1>2, PointFacts
<1>4. n \in rate_mask[p.srate] /\ n \in 1..14 /\ n < cur_rate(e)
  BY <1>1, <1>3, RateFacts DEF fallbacks
<1>5. n <= p.local_max
  <2>1. CASE ~(r.rate_cur > 0)
    <3>1. cur_rate(e) = p.local_max
      BY <1>1, <2>1 DEF cur_rate
    <3>. QED BY <1>3, <1>4, <3>1
  <2>2. CASE r.rate_cur > 0
    <3>1. cur_rate(e) = r.rate_cur
      BY <1>1, <2>2 DEF cur_rate
    <3>2. r.rate_cur = Best(p.srate, p.local_max, r.remote_max)
      BY <1>1, <2>2 DEF EndKept, RateKept
    <3>3. PICK v : v = Best(p.srate, p.local_max, r.remote_max)
      OBVIOUS
    <3>4. v \in 1..14 /\ n < v
      BY <1>3, <1>4, <3>1, <3>2, <3>3, BestIs
    <3>5. Fits(p.srate, p.local_max, r.remote_max) # {}
      <4>1. floor_rate(p.srate) <= n /\ floor_rate(p.srate) \in 1..14
        BY <1>3, <1>4, FloorIs, RateFacts
      <4>2. v # floor_rate(p.srate)
        BY <1>4, <3>4, <4>1
      <4>. QED BY <1>3, <3>3, <4>2, BestIs
    <3>6. v <= p.local_max
      BY <1>3, <3>3, <3>5, BestIs DEF Fits
    <3>. QED BY <1>3, <1>4, <3>4, <3>6
  <2>. QED BY <2>1, <2>2
<1>6. PICK q, v : q = [p EXCEPT !.local_max = n] /\ v = Best(p.srate, n, r.remote_max)
  OBVIOUS
<1>7. q.srate = p.srate /\ q.local_max = n /\ v \in 1..14 /\ v > 0
  <2>1. q.srate = p.srate /\ q.local_max = n
    BY <1>2, <1>6 DEF SafePoints, Points
  <2>2. v \in 1..14
    BY <1>3, <1>6, BestIs
  <2>. QED BY <2>1, <2>2
<1>8. PICK x, y : x = pick_rate(r, q) /\ y = [x EXCEPT !.floor_hard_fails = 0]
  OBVIOUS
<1>9. /\ y.done = r.done /\ y.st = r.st /\ y.in_retrain = r.in_retrain
      /\ y.last_adv = r.last_adv /\ y.win_mph = r.win_mph
      /\ y.rate_cur = v /\ y.remote_max = r.remote_max /\ y.rx_mode = r.rx_mode
      /\ y.gate = r.gate /\ y.pcm = r.pcm
  <2>1. x = [r EXCEPT !.rate_cur = v]
    BY <1>6, <1>7, <1>8, PickIs
  <2>. QED BY <1>2, <1>8, <2>1 DEF Sessions
<1>10. PICK b : b = [ss |-> y, pt |-> q, t |-> t]
  OBVIOUS
<1>11. b.ss = y /\ b.pt = q /\ b.t = t
  BY <1>10
<1>12. [rate_fallback(e, n) EXCEPT !.ss.floor_hard_fails = 0] = b
  <2>1. PICK a, c : a = [e EXCEPT !.pt = q] /\ c = [a EXCEPT !.ss = x]
    OBVIOUS
  <2>2. a = [ss |-> r, pt |-> q, t |-> t]
    BY <1>2, <2>1, Put
  <2>3. c = [ss |-> x, pt |-> q, t |-> t] /\ c.ss = x
    <3>1. c = [a EXCEPT !.ss = x]
      BY <2>1
    <3>2. c = [ss |-> x, pt |-> q, t |-> t]
      BY <2>2, <3>1, Put
    <3>. QED BY <3>2
  <2>4. rate_fallback(e, n) = c
    BY <1>1, <1>6, <1>8, <2>1 DEF rate_fallback
  <2>5. [c EXCEPT !.ss = y] = [ss |-> y, pt |-> q, t |-> t]
    BY <2>3, Put
  <2>. QED BY <1>8, <1>10, <2>3, <2>4, <2>5
<1>13. RateKept(b)
  <2>1. r.st = "DONE" => r.rate_cur > 0 /\ r.remote_max > 0
    BY <1>1, Zenon DEF EndKept, RateKept
  <2>. QED BY <1>6, <1>7, <1>9, <1>11, <2>1, Zenon DEF RateKept
<1>14. StartKept("A", b)
  <2>1. StartKept("A", e) /\ r.st # "A_TRN_WAIT"
    BY <1>1 DEF EndKept
  <2>. QED BY <1>1, <1>9, <1>11, <2>1, Zenon DEF StartKept, Starting
<1>15. EndKept("A", b) /\ ~Over(e.ss)
  BY <1>13, <1>14 DEF EndKept, Over
<1>16. Turns("A", e, b, m, live)
  BY <1>1, <1>5, <1>7, <1>9, <1>11, <1>15, Zenon DEF Turns
<1>. QED BY <1>12, <1>16

LEMMA Retrained2 ==
  ASSUME NEW r \in Sessions, NEW n, NEW z, NEW st, NEW p
  PROVE  LET x == Retrained(r, n, z, st, p) IN
         /\ x.st = st /\ x.in_retrain /\ x.last_adv = z /\ x.win_mph = r.win_mph
         /\ x.rate_cur = r.rate_cur /\ x.remote_max = r.remote_max
         /\ x.gate = r.gate /\ x.pcm = p
  BY DEF Retrained, Sessions

LEMMA RetrainTurns ==
  ASSUME NEW e, EndOk("A", e), EndKept("A", e), e.ss.st # "IDLE",
         NEW x \in Sessions, Still(e.ss, x), NEW m, NEW live
  PROVE  Turns("A", e, [e EXCEPT !.ss = retrain(x)], m, live)
<1>1. PICK r, p, t : r = e.ss /\ p = e.pt /\ t = e.t
  OBVIOUS
<1>2. r \in Sessions /\ e = [ss |-> r, pt |-> p, t |-> t]
  BY <1>1, EndIs
<1>3. CASE x.retrains >= MaxRetrains
  <2>1. retrain(x) = x
    BY <1>3 DEF retrain
  <2>. QED BY <2>1, StillTurns
<1>4. CASE ~(x.retrains >= MaxRetrains)
  <2>1. PICK q, g, z : /\ q = ccs_reset(x) /\ g = gate_shut(q)
                       /\ z = Retrained(g, g.retrains + 1, 0, "START", "")
    OBVIOUS
  <2>11. PICK k, w, st, c : k = g.retrains + 1 /\ w = 0 /\ st = "START" /\ c = ""
    OBVIOUS
  <2>2. retrain(x) = z
    BY <1>4, <2>1 DEF retrain, Retrained
  <2>3. Still(r, g) /\ g \in Sessions
    <3>1. Still(x, q) /\ q \in Sessions
      BY <2>1, CcsReset1, CarrierStill DEF Alike
    <3>2. Still(q, g) /\ g \in Sessions
      BY <2>1, <3>1, ShutStill, GateShut1 DEF Onward
    <3>. QED BY <1>1, <3>1, <3>2, StillStill
  <2>4. /\ z.st = "START" /\ z.in_retrain /\ z.last_adv = 0 /\ z.win_mph = g.win_mph
        /\ z.rate_cur = g.rate_cur /\ z.remote_max = g.remote_max
        /\ z.gate = g.gate /\ z.pcm = ""
    <3>1. z = Retrained(g, k, w, st, c)
      BY <2>1, <2>11
    <3>2. /\ z.st = st /\ z.in_retrain /\ z.last_adv = w /\ z.win_mph = g.win_mph
          /\ z.rate_cur = g.rate_cur /\ z.remote_max = g.remote_max
          /\ z.gate = g.gate /\ z.pcm = c
      BY <2>3, <3>1, Retrained2
    <3>. QED BY <2>11, <3>2
  <2>5. PICK b : b = [ss |-> z, pt |-> p, t |-> t]
    OBVIOUS
  <2>6. b.ss = z /\ b.pt = p /\ b.t = t /\ [e EXCEPT !.ss = z] = b
    BY <1>2, <2>5, Put
  <2>7. /\ z.st \notin {"DONE", "A_TRN_WAIT"} /\ z.pcm # "PRI"
        /\ z.win_mph \in {0, r.win_mph} /\ z.rate_cur = r.rate_cur
        /\ z.remote_max = r.remote_max /\ (z.gate # "" => r.gate # "")
    BY <2>3, <2>4 DEF Still, Plain
  <2>8. EndKept("A", b)
    <3>1. RateKept(e)
      BY DEF EndKept
    <3>2. RateKept(b)
      BY <1>1, <2>6, <2>7, <3>1 DEF RateKept
    <3>3. StartKept("A", b)
      BY <2>4, <2>6, <2>7 DEF StartKept, Starting
    <3>. QED BY <3>2, <3>3 DEF EndKept
  <2>9. b.pt = e.pt /\ e.pt.local_max <= e.pt.local_max /\ ~Over(e.ss)
    BY <1>1, <2>6, CapIs DEF Over
  <2>10. Turns("A", e, b, m, live)
    BY <1>1, <2>4, <2>6, <2>7, <2>8, <2>9, Zenon DEF Turns
  <2>. QED BY <2>2, <2>6, <2>10
<1>. QED BY <1>3, <1>4

LEMMA JudgeTurns ==
  ASSUME NEW e, EndOk("A", e), EndKept("A", e), e.ss.st \notin {"IDLE", "A_TRN_WAIT"},
         NEW hard \in BOOLEAN, NEW n \in Nat, n > 0 => n \in fallbacks(e),
         NEW m, NEW live, live
  PROVE  Turns("A", e, judge_burst(e, hard, n), m, live)
<1>1. PICK r : r = e.ss
  OBVIOUS
<1>2. r \in Sessions
  BY <1>1, EndIs
<1>3. PICK k : k = Lower(r.floor_hard_fails + 1, 2)
  OBVIOUS
<1>4. k \in Nat
  <2>1. r.floor_hard_fails \in Nat
    BY <1>2, Fields
  <2>. QED BY <1>3, <2>1 DEF Lower
<1>5. PICK x, y : x = [r EXCEPT !.floor_hard_fails = k] /\ y = [r EXCEPT !.floor_hard_fails = 0]
  OBVIOUS
<1>6. x \in Sessions /\ Still(r, x) /\ Still(r, y)
  <2>1. Alike(r, x)
    BY <1>2, <1>4, <1>5, Set1
  <2>. QED BY <1>2, <1>5, <2>1, FieldStill DEF Alike
<1>7. Turns("A", e, [e EXCEPT !.ss = x], m, live) /\ Turns("A", e, [e EXCEPT !.ss = y], m, live)
  BY <1>1, <1>6, StillTurns
<1>8. Turns("A", e, [e EXCEPT !.ss = retrain(x)], m, live)
  BY <1>1, <1>6, RetrainTurns
<1>9. CASE n > 0
  <2>1. judge_burst(e, hard, n) = [rate_fallback(e, n) EXCEPT !.ss.floor_hard_fails = 0]
    BY <1>9 DEF judge_burst
  <2>2. n \in fallbacks(e)
    BY <1>9
  <2>3. Turns("A", e, [rate_fallback(e, n) EXCEPT !.ss.floor_hard_fails = 0], m, live)
    BY <2>2, FallbackTurns, Zenon
  <2>. QED BY <2>1, <2>3
<1>10. CASE ~(n > 0) /\ ~hard
  <2>1. judge_burst(e, hard, n) = [e EXCEPT !.ss = y]
    BY <1>1, <1>5, <1>10 DEF judge_burst
  <2>. QED BY <1>7, <2>1
<1>11. CASE ~(n > 0) /\ hard
  <2>1. \/ judge_burst(e, hard, n) = [e EXCEPT !.ss = retrain(x)]
        \/ judge_burst(e, hard, n) = [e EXCEPT !.ss = x]
    BY <1>1, <1>3, <1>5, <1>11 DEF judge_burst
  <2>. QED BY <1>7, <1>8, <2>1
<1>. QED BY <1>9, <1>10, <1>11

LEMMA CleanTurns ==
  ASSUME NEW e, EndOk("A", e), EndKept("A", e), NEW m, NEW live
  PROVE  Turns("A", e, [e EXCEPT !.ss.floor_hard_fails = 0, !.t.missing = FALSE], m, live)
<1>1. PICK r, p, t : r = e.ss /\ p = e.pt /\ t = e.t
  OBVIOUS
<1>2. r \in Sessions /\ t \in Engines /\ e = [ss |-> r, pt |-> p, t |-> t]
  BY <1>1, EndIs
<1>3. PICK x, u : x = [r EXCEPT !.floor_hard_fails = 0] /\ u = [t EXCEPT !.missing = FALSE]
  OBVIOUS
<1>4. Still(r, x) /\ u.sub = t.sub
  BY <1>2, <1>3, FieldStill DEF Engines
<1>5. [e EXCEPT !.ss.floor_hard_fails = 0, !.t.missing = FALSE] = [ss |-> x, pt |-> p, t |-> u]
  <2>1. PICK a : a = [e EXCEPT !.ss = x]
    OBVIOUS
  <2>2. a = [ss |-> x, pt |-> p, t |-> t]
    BY <1>2, <2>1, Put
  <2>3. [a EXCEPT !.t = u] = [ss |-> x, pt |-> p, t |-> u]
    BY <2>2, Put
  <2>4. [e EXCEPT !.ss = x, !.t = u] = [ss |-> x, pt |-> p, t |-> u]
    BY <2>1, <2>3
  <2>. QED BY <1>1, <1>3, <2>4
<1>6. Turns("A", e, [ss |-> x, pt |-> e.pt, t |-> u], m, live)
  BY <1>1, <1>4, PlainTurns DEF Still
<1>. QED BY <1>1, <1>5, <1>6

LEMMA TrainTurns ==
  ASSUME NEW e, EndOk("A", e), EndKept("A", e), e.ss.st = "A_TRN_WAIT",
         NEW n \in rate_mask[e.pt.srate], NEW m, NEW live
  PROVE  Turns("A", e, train(e, n), m, live)
<1>1. PICK r, p, t : r = e.ss /\ p = e.pt /\ t = e.t
  OBVIOUS
<1>2. r \in Sessions /\ p \in SafePoints /\ e = [ss |-> r, pt |-> p, t |-> t]
  BY <1>1, EndIs
<1>3. p.srate \in Srates /\ p.local_max \in 1..14
  BY <1>2, PointFacts
<1>4. n \in 1..14
  BY <1>1, <1>3, RateFacts
<1>5. PICK k, q, x : /\ k = Lower(p.local_max, n) /\ q = [p EXCEPT !.local_max = k]
                     /\ x = SetSt(r, "A_CC1_Q")
  OBVIOUS
<1>6. k <= p.local_max /\ q.srate = p.srate /\ q.local_max = k
  <2>1. k <= p.local_max
    BY <1>3, <1>4, <1>5, LowerIs
  <2>. QED BY <1>2, <1>5, <2>1 DEF SafePoints, Points
<1>7. /\ x.done = r.done /\ x.st = "A_CC1_Q" /\ x.in_retrain = r.in_retrain
      /\ x.last_adv = r.last_adv /\ x.win_mph = r.win_mph
      /\ x.rate_cur = r.rate_cur /\ x.remote_max = r.remote_max /\ x.rx_mode = r.rx_mode
      /\ x.gate = r.gate /\ x.pcm = r.pcm
  BY <1>2, <1>5 DEF SetSt, Sessions
<1>8. PICK b : b = [ss |-> x, pt |-> q, t |-> t]
  OBVIOUS
<1>9. b.ss = x /\ b.pt = q /\ b.t = t
  BY <1>8
<1>10. train(e, n) = b
  <2>1. PICK a, c : a = [e EXCEPT !.ss = x] /\ c = [a EXCEPT !.pt = q]
    OBVIOUS
  <2>2. a = [ss |-> x, pt |-> p, t |-> t]
    BY <1>2, <2>1, Put
  <2>3. c = [ss |-> x, pt |-> q, t |-> t] /\ a.pt = p
    <3>1. c = [a EXCEPT !.pt = q]
      BY <2>1
    <3>2. c = [ss |-> x, pt |-> q, t |-> t]
      BY <2>2, <3>1, Put
    <3>. QED BY <2>2, <3>2
  <2>4. train(e, n) = c
    BY <1>1, <1>5, <2>1, <2>3 DEF train, SetSt
  <2>. QED BY <1>8, <2>3, <2>4
<1>11. r.rate_cur = 0
  BY <1>1 DEF EndKept, StartKept
<1>12. RateKept(b)
  <2>1. ~(x.rate_cur > 0) /\ x.st # "DONE"
    BY <1>7, <1>11
  <2>. QED BY <1>9, <2>1, Zenon DEF RateKept
<1>13. StartKept("A", b)
  <2>1. StartKept("A", e)
    BY DEF EndKept
  <2>2. x.st # "A_TRN_WAIT" /\ r.st # "IDLE"
    BY <1>1, <1>7
  <2>. QED BY <1>1, <1>7, <1>9, <2>1, <2>2, Zenon DEF StartKept, Starting
<1>14. EndKept("A", b) /\ ~Over(e.ss)
  BY <1>12, <1>13 DEF EndKept, Over
<1>15. Turns("A", e, b, m, live)
  BY <1>1, <1>6, <1>7, <1>9, <1>14, Zenon DEF Turns
<1>. QED BY <1>10, <1>15

-----------------------------------------------------------------------------
(* A step of one end, as far as the rates go: its own record turns, or its  *)
(* carrier changes; its peer hears no more than the MPh it advertises.      *)
Announced(s) == {VisibleMph(s)} \ {0}
Live(s) == On(s) /\ ss[s].gate # ""

Steps(s, a, b) ==
  /\ b.pt.srate = a.pt.srate /\ b.pt.local_max <= a.pt.local_max
  /\ s = "C" => b.pt.local_max = a.pt.local_max
  /\ \/ b.ss.last_adv \in {0, a.ss.last_adv}
     \/ On(s) /\ b.ss.last_adv = b.pt.local_max /\ b.pt.local_max = a.pt.local_max
  /\ b.ss.win_mph \in {0, a.ss.win_mph}
  /\ b.ss.remote_max \in {a.ss.remote_max} \cup Announced(s) \/ Over(b.ss)
  /\ b.ss.rate_cur > 0 => a.ss.rate_cur > 0 \/ Live(s)
  /\ b.ss.gate # "" => a.ss.gate # ""
  /\ b.ss.pcm = "PRI" => a.ss.pcm = "PRI" \/ b.ss.pcm_rate = a.ss.rate_cur
  /\ EndKept(s, b)

(* The session of the peer becomes x from r while this end's becomes new.   *)
Heeds(r, x, old, new) ==
  /\ x.st = r.st /\ x.done = r.done /\ x.in_retrain = r.in_retrain
  /\ x.rate_cur = r.rate_cur /\ x.remote_max = r.remote_max /\ x.last_adv = r.last_adv
  /\ x.rx_mode = r.rx_mode /\ x.pcm = r.pcm
  /\ \/ x.win_mph \in {0, new.last_adv}
     \/ x.win_mph = r.win_mph /\ new.last_adv \in {0, old.last_adv}

Turned(s, e, r) ==
  /\ Changed(s, e, r) /\ Moves(s, End(s), e, Told(s)) /\ Audible(s, r) /\ P2Left(s) /\ Other
  /\ Heeds(ss[Peer(s)], r, ss[s], e.ss) /\ Steps(s, End(s), e)

LEMMA TurnsSteps ==
  ASSUME NEW s, NEW a, NEW b, Turns(s, a, b, Announced(s), Live(s))
  PROVE  Steps(s, a, b)
  BY Zenon DEF Turns, Steps

LEMMA HearFalls ==
  ASSUME NEW cap \in 1..14, NEW low \in 1..14, NEW adv \in Rates, NEW adv2 \in Rates,
         NEW win \in Rates, NEW win2 \in Rates, NEW rem \in Rates,
         Hearable(cap, adv, win, rem), low <= cap,
         adv2 \in {0, adv} \/ (adv2 = low /\ low = cap),
         win2 \in {0, adv2} \/ (win2 = win /\ adv2 \in {0, adv})
  PROVE  Hearable(low, adv2, win2, rem)
  BY SMT DEF Hearable, Rates

LEMMA HearMore ==
  ASSUME NEW cap \in 1..14, NEW adv \in Rates, NEW win \in Rates, NEW win2 \in {0, win},
         NEW rem \in Rates, NEW rem2 \in {0, rem, adv, win},
         Hearable(cap, adv, win, rem)
  PROVE  Hearable(cap, adv, win2, rem2)
  BY SMT DEF Hearable, Rates

LEMMA MphIs ==
  ASSUME NEW s \in Sides
  PROVE  VisibleMph(s) \in {ss[Peer(s)].last_adv, ss[s].win_mph}
  BY DEF VisibleMph

LEMMA NoRate == 0 \in Rates
  BY SMT DEF Rates

LEMMA RateTypes ==
  ASSUME CallInv, NEW s \in Sides
  PROVE  /\ ss[s].last_adv \in Rates /\ ss[s].win_mph \in Rates /\ ss[s].remote_max \in Rates
         /\ ss[s].rate_cur \in Rates /\ point[s].local_max \in 1..14 /\ point[s].srate \in Srates
         /\ VisibleMph(s) \in Rates
<1>1. ss[s] \in Sessions /\ ss[Peer(s)] \in Sessions /\ point[s] \in SafePoints
  BY EndFacts, PeerFacts
<1>2. VisibleMph(s) \in Rates
  BY <1>1, MphIs, Fields
<1>. QED BY <1>1, <1>2, Fields, PointFacts

LEMMA RateTypesNext ==
  ASSUME CallInv', NEW s \in Sides
  PROVE  /\ ss'[s].last_adv \in Rates /\ ss'[s].win_mph \in Rates /\ ss'[s].remote_max \in Rates
         /\ ss'[s].rate_cur \in Rates /\ point'[s].local_max \in 1..14 /\ point'[s].srate \in Srates
<1>1. EndOk(s, End(s))'
  BY DEF CallInv, TypeInv, EndsInv
<1>2. PICK e : e = [ss |-> ss'[s], pt |-> point'[s], t |-> t30'[s]]
  OBVIOUS
<1>3. EndOk(s, e) /\ e.ss = ss'[s] /\ e.pt = point'[s]
  BY <1>1, <1>2 DEF End, EndOk, Acked
<1>4. ss'[s] \in Sessions /\ point'[s] \in SafePoints
  BY <1>3, EndIs
<1>. QED BY <1>4, Fields, PointFacts

(* The ends stay fit.                                                       *)
LEMMA EndsKept ==
  ASSUME CallInv, RatesInv, NEW s \in Sides, NEW e, NEW r, Turned(s, e, r)
  PROVE  /\ \A q \in Sides : EndKept(q, End(q))'
         /\ EndKept(s, End(s)) /\ EndOk(s, End(s)) /\ EndOk(s, e) /\ EndKept(s, e)
<1>. DEFINE p == Peer(s)
<1>1. p \in Sides /\ p # s /\ Sides = {s, p}
  BY PeerFacts
<1>2. e = [ss |-> e.ss, pt |-> e.pt, t |-> e.t] /\ EndKept(s, e) /\ EndOk(s, e)
  BY MovesOk, Zenon DEF Turned, Moves, Steps
<1>3. [ss |-> ss'[s], pt |-> point'[s], t |-> t30'[s]] = e
  BY <1>2 DEF Turned, Changed
<1>4. PICK f : f = [ss |-> r, pt |-> point[p], t |-> t30[p]]
  OBVIOUS
<1>5. [ss |-> ss'[p], pt |-> point'[p], t |-> t30'[p]] = f
  BY <1>4 DEF Turned, Changed
<1>6. EndKept(p, f)
  <2>1. EndKept(p, End(p))
    BY <1>1 DEF RatesInv
  <2>2. PICK a : a = End(p)
    OBVIOUS
  <2>3. a.ss = ss[p] /\ f.ss = r /\ a.pt = f.pt /\ a.t = f.t
    BY <1>4, <2>2 DEF End
  <2>4. /\ f.ss.st = a.ss.st /\ f.ss.done = a.ss.done /\ f.ss.in_retrain = a.ss.in_retrain
        /\ f.ss.rate_cur = a.ss.rate_cur /\ f.ss.remote_max = a.ss.remote_max
        /\ f.ss.rx_mode = a.ss.rx_mode
    BY <2>3, Zenon DEF Turned, Heeds
  <2>5. RateKept(f)
    BY <2>1, <2>2, <2>3, <2>4, Zenon DEF EndKept, RateKept
  <2>6. StartKept(p, f)
    BY <2>1, <2>2, <2>3, <2>4, Zenon DEF EndKept, StartKept, Starting
  <2>. QED BY <2>5, <2>6 DEF EndKept
<1>7. EndKept(s, [ss |-> ss'[s], pt |-> point'[s], t |-> t30'[s]])
  BY <1>2, <1>3
<1>8. EndKept(p, [ss |-> ss'[p], pt |-> point'[p], t |-> t30'[p]])
  BY <1>5, <1>6
<1>9. \A q \in Sides : EndKept(q, [ss |-> ss'[q], pt |-> point'[q], t |-> t30'[q]])
  BY <1>1, <1>7, <1>8
<1>10. \A q \in Sides : EndKept(q, End(q))'
  BY <1>9 DEF End, EndKept, RateKept, StartKept, Starting
<1>11. EndKept(s, End(s)) /\ EndOk(s, End(s))
  BY EndFacts DEF RatesInv
<1>. QED BY <1>2, <1>10, <1>11

(* What the step leaves, in the variables.                                  *)
LEMMA TurnedSelf ==
  ASSUME CallInv, NEW s \in Sides, NEW e, NEW r, Turned(s, e, r)
  PROVE  /\ point'[s].srate = point[s].srate /\ point'[s].local_max <= point[s].local_max
         /\ s = "C" => point'[s].local_max = point[s].local_max
         /\ \/ ss'[s].last_adv \in {0, ss[s].last_adv}
            \/ /\ On(s) /\ ss'[s].last_adv = point'[s].local_max
               /\ point'[s].local_max = point[s].local_max
         /\ ss'[s].win_mph \in {0, ss[s].win_mph}
         /\ ss'[s].remote_max \in {0, ss[s].remote_max} \cup Announced(s)
         /\ ss'[s].rate_cur > 0 => /\ ss[s].rate_cur > 0 \/ Live(s)
                                  /\ ss'[s].remote_max \in {ss[s].remote_max} \cup Announced(s)
         /\ ss'[s].gate # "" => ss[s].gate # ""
         /\ ss'[s].pcm = "PRI" => ss[s].pcm = "PRI" \/ ss'[s].pcm_rate = ss[s].rate_cur
<1>1. /\ ss'[s] = e.ss /\ point'[s] = e.pt /\ End(s).ss = ss[s] /\ End(s).pt = point[s]
      /\ Steps(s, End(s), e)
  BY EndFacts DEF Turned, Changed
<1>2. Over(e.ss) => e.ss.remote_max = 0 /\ ~(e.ss.rate_cur > 0)
  BY DEF Over
<1>. QED BY <1>1, <1>2, Zenon DEF Steps

LEMMA TurnedPeer ==
  ASSUME CallInv, NEW s \in Sides, NEW e, NEW r, Turned(s, e, r), NEW p, p = Peer(s)
  PROVE  /\ point'[p] = point[p] /\ t30'[p] = t30[p] /\ ss'[p].st = ss[p].st
         /\ ss'[p].rate_cur = ss[p].rate_cur /\ ss'[p].remote_max = ss[p].remote_max
         /\ ss'[p].last_adv = ss[p].last_adv /\ ss'[p].pcm = ss[p].pcm
         /\ \/ ss'[p].win_mph \in {0, ss'[s].last_adv}
            \/ ss'[p].win_mph = ss[p].win_mph /\ ss'[s].last_adv \in {0, ss[s].last_adv}
         /\ ss'[p].gate # "" => ss[p].gate # "" \/ On(s)
<1>1. /\ ss'[s] = e.ss /\ ss'[p] = r /\ Heeds(ss[p], r, ss[s], e.ss)
      /\ point'[p] = point[p] /\ t30'[p] = t30[p]
      /\ r.gate # "" => ss[p].gate # "" \/ On(s)
  BY DEF Turned, Changed, Audible
<1>. QED BY <1>1, Zenon DEF Heeds

LEMMA PastKeep ==
  ASSUME CallInv, NEW s \in Sides, NEW e, NEW r, Turned(s, e, r)
  PROVE  /\ Past2 => Past2'
         /\ p2_state'["C"] = p2_state["C"]
         /\ s = "C" => p2_state'["A"] = p2_state["A"]
         /\ On("C") => Past2 /\ arriving["C"].sig = "SILENCE"
<1>1. PointInv /\ P2Inv
  BY DEF CallInv, TypeInv
<1>2. On("C") => Settled2
  BY DEF On, Settled2
<1>3. p2_state'["C"] = p2_state["C"] /\ (s = "C" => p2_state'["A"] = p2_state["A"])
  <2>1. CASE UNCHANGED <<p2_state, p2_info_seen>>
    BY <2>1
  <2>2. CASE s = "A" /\ p2_init("A")
    <3>1. p2_state' = [p2_state EXCEPT !["A"] = "A_SILENCE"]
      BY <2>2 DEF p2_init
    <3>. QED BY <1>1, <2>2, <3>1 DEF P2Inv, Sides
  <2>. QED BY <2>1, <2>2 DEF Turned, P2Left
<1>4. Past2 => Past2'
  <2>1. CASE s = "C"
    <3>1. SessionMoves(s, ss["C"], e.ss, e.t) /\ ss'["C"] = e.ss /\ t30'["C"] = e.t
          /\ EngineMoves(s, t30["C"], e.t, Told(s))
      BY <2>1 DEF Turned, Moves, End, Changed
    <3>2. t30["C"].sub = "DONE" => t30'["C"].sub = "DONE"
      BY <3>1 DEF EngineMoves
    <3>3. ss["C"].st \notin Beginning => ss'["C"].st \notin Beginning \/ t30'["C"].sub = "DONE"
      BY <2>1, <3>1 DEF SessionMoves
    <3>. QED BY <1>3, <3>2, <3>3 DEF Past2, Settled2, Beginning
  <2>2. CASE s = "A"
    <3>1. ss'["C"].st = ss["C"].st /\ t30'["C"] = t30["C"]
      BY <2>2 DEF Turned, Audible, Hears, Changed, Peer
    <3>. QED BY <1>3, <3>1 DEF Past2, Settled2
  <2>. QED BY <2>1, <2>2 DEF Sides
<1>. QED BY <1>1, <1>2, <1>3, <1>4 DEF PointInv, Past2

(* What was heard stays above the cap.                                      *)
LEMMA HeardKeep ==
  ASSUME CallInv, CallInv', RatesInv, NEW s \in Sides, NEW e, NEW r, Turned(s, e, r)
  PROVE  HeardInv'
<1>1. HeardInv /\ "A" \in Sides /\ "C" \in Sides
  BY DEF RatesInv, Sides
<1>2. \A q \in Sides : /\ ss[q].last_adv \in Rates /\ ss[q].win_mph \in Rates
                       /\ ss[q].remote_max \in Rates /\ point[q].local_max \in 1..14
  BY RateTypes
<1>3. CASE s = "A"
  <2>1. Peer(s) = "C"
    BY <1>3 DEF Peer
  <2>2. /\ point'["A"].local_max <= point["A"].local_max
        /\ \/ ss'["A"].last_adv \in {0, ss["A"].last_adv}
           \/ ss'["A"].last_adv = point'["A"].local_max
              /\ point'["A"].local_max = point["A"].local_max
    BY <1>3, TurnedSelf
  <2>3. /\ ss'["C"].remote_max = ss["C"].remote_max
        /\ \/ ss'["C"].win_mph \in {0, ss'["A"].last_adv}
           \/ ss'["C"].win_mph = ss["C"].win_mph /\ ss'["A"].last_adv \in {0, ss["A"].last_adv}
    BY <1>3, <2>1, TurnedPeer
  <2>4. /\ ss'["A"].last_adv \in Rates /\ ss'["C"].win_mph \in Rates
        /\ point'["A"].local_max \in 1..14
    BY <1>1, RateTypesNext
  <2>5. PICK cap, low, adv, adv2, win, win2, rem :
          /\ cap = point["A"].local_max /\ low = point'["A"].local_max
          /\ adv = ss["A"].last_adv /\ adv2 = ss'["A"].last_adv
          /\ win = ss["C"].win_mph /\ win2 = ss'["C"].win_mph
          /\ rem = ss["C"].remote_max /\ rem = ss'["C"].remote_max
    BY <2>3
  <2>6. Hearable(cap, adv, win, rem)
    BY <1>1, <2>5 DEF HeardInv
  <2>7. Hearable(low, adv2, win2, rem)
    <3>1. /\ cap \in 1..14 /\ low \in 1..14 /\ adv \in Rates /\ adv2 \in Rates
          /\ win \in Rates /\ win2 \in Rates /\ rem \in Rates
      BY <1>1, <1>2, <2>4, <2>5
    <3>2. /\ low <= cap
          /\ adv2 \in {0, adv} \/ (adv2 = low /\ low = cap)
          /\ win2 \in {0, adv2} \/ (win2 = win /\ adv2 \in {0, adv})
      BY <2>2, <2>3, <2>5
    <3>. QED BY <2>6, <3>1, <3>2, HearFalls
  <2>. QED BY <2>5, <2>7 DEF HeardInv
<1>4. CASE s = "C"
  <2>1. Peer(s) = "A"
    BY <1>4 DEF Peer
  <2>2. /\ ss'["C"].win_mph \in {0, ss["C"].win_mph}
        /\ ss'["C"].remote_max \in {0, ss["C"].remote_max, ss["A"].last_adv, ss["C"].win_mph}
    <3>1. Announced("C") \subseteq {ss["A"].last_adv, ss["C"].win_mph}
      BY <1>4, <2>1, MphIs DEF Announced
    <3>. QED BY <1>4, <3>1, TurnedSelf, Zenon
  <2>3. /\ point'["A"] = point["A"] /\ ss'["A"].last_adv = ss["A"].last_adv
    BY <1>4, <2>1, TurnedPeer
  <2>4. PICK cap, adv, win, win2, rem, rem2 :
          /\ cap = point["A"].local_max /\ cap = point'["A"].local_max
          /\ adv = ss["A"].last_adv /\ adv = ss'["A"].last_adv
          /\ win = ss["C"].win_mph /\ win2 = ss'["C"].win_mph
          /\ rem = ss["C"].remote_max /\ rem2 = ss'["C"].remote_max
    BY <2>3
  <2>5. Hearable(cap, adv, win, rem)
    BY <1>1, <2>4 DEF HeardInv
  <2>6. Hearable(cap, adv, win2, rem2)
    <3>1. cap \in 1..14 /\ adv \in Rates /\ win \in Rates /\ rem \in Rates
      BY <1>1, <1>2, <2>4
    <3>2. win2 \in {0, win} /\ rem2 \in {0, rem, adv, win}
      BY <2>2, <2>4
    <3>. QED BY <2>5, <3>1, <3>2, HearMore
  <2>. QED BY <2>4, <2>6 DEF HeardInv
<1>. QED BY <1>3, <1>4 DEF Sides

LEMMA FixedKeep ==
  ASSUME CallInv, CallInv', RatesInv, NEW s \in Sides, NEW e, NEW r, Turned(s, e, r)
  PROVE  FixedInv'
<1>1. FixedInv /\ "A" \in Sides /\ "C" \in Sides
  BY DEF RatesInv, Sides
<1>2. \A q \in Sides : /\ ss[q].rate_cur \in Rates /\ ss'[q].rate_cur \in Rates
                       /\ point[q].local_max \in 1..14
  BY RateTypes, RateTypesNext
<1>3. (Past2 => Past2') /\ (On("C") => Past2)
  BY PastKeep
<1>4. PICK cap : cap = point["C"].local_max
  OBVIOUS
<1>5. CASE s = "C"
  <2>1. Peer(s) = "A"
    BY <1>5 DEF Peer
  <2>2. /\ point'["C"].srate = point["C"].srate /\ point'["C"].local_max = cap
        /\ \/ ss'["C"].last_adv \in {0, ss["C"].last_adv}
           \/ On("C") /\ ss'["C"].last_adv = cap
        /\ ss'["C"].rate_cur > 0 => ss["C"].rate_cur > 0 \/ On("C")
    BY <1>4, <1>5, TurnedSelf, Zenon DEF Live
  <2>3. /\ ss'["A"].remote_max = ss["A"].remote_max
        /\ ss'["A"].win_mph \in {0, ss'["C"].last_adv, ss["A"].win_mph}
    BY <1>5, <2>1, TurnedPeer
  <2>4. ss'["C"].last_adv \in {0, cap} /\ ss'["A"].win_mph \in {0, cap}
        /\ ss'["A"].remote_max \in {0, cap}
    BY <1>1, <1>4, <2>2, <2>3 DEF FixedInv
  <2>5. ~Past2' => /\ cap = top_rate(Srate0) /\ ss'["C"].last_adv = 0
                   /\ ss'["A"].remote_max = 0 /\ ss'["A"].win_mph = 0
    BY <1>1, <1>3, <1>4, <2>2, <2>3, Zenon DEF FixedInv
  <2>6. ~Past2' => ss'["C"].rate_cur = 0
    <3>1. ~Past2' => ~(ss'["C"].rate_cur > 0)
      BY <1>1, <1>3, <2>2 DEF FixedInv
    <3>. QED BY <1>1, <1>2, <3>1, SMT DEF Rates
  <2>. QED BY <1>1, <1>4, <2>2, <2>4, <2>5, <2>6 DEF FixedInv
<1>6. CASE s = "A"
  <2>1. Peer(s) = "C"
    BY <1>6 DEF Peer
  <2>2. /\ point'["C"] = point["C"] /\ ss'["C"].last_adv = ss["C"].last_adv
        /\ ss'["C"].rate_cur = ss["C"].rate_cur
    BY <1>6, <2>1, TurnedPeer
  <2>3. /\ ss'["A"].win_mph \in {0, ss["A"].win_mph}
        /\ ss'["A"].remote_max \in {0, ss["A"].remote_max, ss["C"].last_adv, ss["A"].win_mph}
    <3>1. Announced("A") \subseteq {ss["C"].last_adv, ss["A"].win_mph}
      BY <1>6, <2>1, MphIs DEF Announced
    <3>. QED BY <1>6, <3>1, TurnedSelf, Zenon
  <2>4. PICK adv, rem, win, rem2, win2 :
          /\ adv = ss["C"].last_adv /\ rem = ss["A"].remote_max /\ win = ss["A"].win_mph
          /\ rem2 = ss'["A"].remote_max /\ win2 = ss'["A"].win_mph
    OBVIOUS
  <2>5. /\ adv \in {0, cap} /\ rem2 \in {0, cap} /\ win2 \in {0, cap}
        /\ ~Past2 => rem2 = 0 /\ win2 = 0
    BY <1>1, <1>4, <2>3, <2>4 DEF FixedInv
  <2>. QED BY <1>1, <1>3, <1>4, <2>2, <2>4, <2>5 DEF FixedInv
<1>. QED BY <1>5, <1>6 DEF Sides

LEMMA ProbedKeep ==
  ASSUME CallInv, RatesInv, NEW s \in Sides, NEW e, NEW r, Turned(s, e, r)
  PROVE  ProbedInv'
<1>1. ProbedInv /\ P2Inv
  BY DEF RatesInv, CallInv, TypeInv
<1>2. Past2 => Past2'
  BY PastKeep
<1>3. arriving' = arriving
  BY DEF Turned, Other
<1>4. CASE s = "C"
  <2>1. /\ ss'["A"].rate_cur = ss["A"].rate_cur
        /\ ss'["A"].gate # "" => ss["A"].gate # "" \/ On("C")
    BY <1>4, TurnedPeer DEF Peer
  <2>2. (On("C") => Past2 /\ arriving["C"].sig = "SILENCE") /\ p2_state'["A"] = p2_state["A"]
    BY <1>4, PastKeep
  <2>3. t30'["A"] = t30["A"] /\ ss'["A"].st = ss["A"].st
    BY <1>4, TurnedPeer DEF Peer
  <2>. QED BY <1>1, <1>2, <1>3, <2>1, <2>2, <2>3 DEF ProbedInv
<1>5. CASE s = "A"
  <2>1. /\ ss'["A"].rate_cur > 0 => ss["A"].rate_cur > 0 \/ Live("A")
        /\ ss'["A"].gate # "" => ss["A"].gate # ""
    BY <1>5, TurnedSelf
  <2>2. ss'["A"].rate_cur > 0 \/ ss'["A"].gate # "" => Past2 /\ arriving["C"].sig = "SILENCE"
    BY <1>1, <2>1 DEF ProbedInv, Live
  <2>3. ss'["A"].rate_cur > 0 => p2_state["A"] \in {"OFF"} \cup EarlyP2
    BY <1>1, <2>1 DEF ProbedInv, Live, On
  <2>4. p2_state'["A"] = p2_state["A"] \/ p2_state'["A"] = "A_SILENCE"
    <3>1. CASE UNCHANGED <<p2_state, p2_info_seen>>
      BY <3>1
    <3>2. CASE p2_init("A")
      <4>1. p2_state' = [p2_state EXCEPT !["A"] = "A_SILENCE"]
        BY <3>2 DEF p2_init
      <4>. QED BY <1>1, <4>1 DEF P2Inv, Sides
    <3>. QED BY <3>1, <3>2 DEF Turned, P2Left
  <2>5. p2_state'["A"] # "OFF" /\ t30'["A"].sub # "DONE" => ss'["A"].st # "IDLE"
    <3>1. /\ SessionMoves("A", ss["A"], e.ss, e.t) /\ EngineMoves("A", t30["A"], e.t, Told(s))
          /\ ss'["A"] = e.ss /\ t30'["A"] = e.t
      BY <1>5, EndFacts DEF Turned, Moves, Changed
    <3>2. /\ ss'["A"].st = "IDLE" => ss["A"].st = "IDLE" \/ t30'["A"].sub = "DONE"
          /\ t30["A"].sub = "DONE" => t30'["A"].sub = "DONE"
      BY <3>1 DEF SessionMoves, EngineMoves
    <3>3. p2_state'["A"] = p2_state["A"] \/ ss["A"].st # "IDLE"
      BY <1>5 DEF Turned, P2Left, On
    <3>. QED BY <1>1, <3>2, <3>3 DEF ProbedInv
  <2>. QED BY <1>2, <1>3, <2>2, <2>3, <2>4, <2>5 DEF ProbedInv, EarlyP2
<1>. QED BY <1>4, <1>5 DEF Sides

-----------------------------------------------------------------------------
(* A rate falls with the maxima it is the best within.                      *)
RatesFall == \A s \in Sides : ss[s].rate_cur > 0 => ss'[s].rate_cur <= ss[s].rate_cur
BurstStart ==
  ss["C"].pcm # "PRI" /\ ss'["C"].pcm = "PRI" => ss'["C"].pcm_rate = ss["C"].rate_cur

LEMMA RateFalls1 ==
  ASSUME CallInv, CallInv', RatesInv, NEW s \in Sides, NEW e, NEW r, Turned(s, e, r),
         ss[s].rate_cur > 0
  PROVE  ss'[s].rate_cur <= ss[s].rate_cur
<1>1. PICK sr, cap, rem, low, heard :
        /\ sr = point[s].srate /\ cap = point[s].local_max /\ rem = ss[s].remote_max
        /\ low = point'[s].local_max /\ heard = ss'[s].remote_max
  OBVIOUS
<1>2. /\ sr \in Srates /\ cap \in 1..14 /\ low \in 1..14 /\ rem \in Rates /\ heard \in Rates
      /\ ss[s].rate_cur \in Rates /\ ss'[s].rate_cur \in Rates
  BY <1>1, RateTypes, RateTypesNext
<1>3. ss[s].rate_cur = Best(sr, cap, rem)
  BY <1>1, EndFacts DEF RatesInv, EndKept, RateKept
<1>4. low <= cap
  BY <1>1, TurnedSelf
<1>5. CASE ss'[s].rate_cur > 0
  <2>1. ss'[s].rate_cur = Best(sr, low, heard)
    <3>1. EndKept(s, e) /\ ss'[s] = e.ss /\ point'[s] = e.pt
      BY EndsKept DEF Turned, Changed
    <3>2. e.pt.srate = sr
      BY <1>1, <3>1, TurnedSelf
    <3>. QED BY <1>1, <1>5, <3>1, <3>2 DEF EndKept, RateKept
  <2>2. heard \in {rem} \cup Announced(s)
    BY <1>1, <1>5, TurnedSelf
  <2>3. heard # rem => heard = VisibleMph(s) /\ heard > 0
    <3>1. heard # rem => heard = VisibleMph(s) /\ heard # 0
      BY <2>2 DEF Announced
    <3>. QED BY <1>2, <3>1, SMT DEF Rates
  <2>4. rem > 0 => heard > 0 /\ heard <= rem
    <3>1. SUFFICES ASSUME rem > 0, heard # rem, heard > 0
                   PROVE  heard <= rem
      BY <1>2, <2>3, SMT DEF Rates
    <3>2. heard = VisibleMph(s)
      BY <2>3, <3>1
    <3>3. CASE s = "C"
      <4>1. Hearable(point["A"].local_max, ss["A"].last_adv, ss["C"].win_mph, rem)
        BY <1>1, <3>3 DEF RatesInv, HeardInv
      <4>2. PICK adv, win : adv = ss["A"].last_adv /\ win = ss["C"].win_mph
        OBVIOUS
      <4>3. heard \in {adv, win}
        BY <3>2, <3>3, <4>2, MphIs DEF Peer
      <4>. QED BY <3>1, <4>1, <4>2, <4>3 DEF Hearable
    <3>4. CASE s = "A"
      <4>1. heard \in {ss["C"].last_adv, ss["A"].win_mph}
        BY <3>2, <3>4, MphIs DEF Peer
      <4>2. PICK top : top = point["C"].local_max
        OBVIOUS
      <4>3. rem \in {0, top} /\ heard \in {0, top}
        BY <1>1, <3>4, <4>1, <4>2 DEF RatesInv, FixedInv
      <4>4. rem # 0 /\ heard # 0
        BY <3>1, SMT
      <4>. QED BY <3>1, <4>3, <4>4
    <3>. QED BY <3>3, <3>4 DEF Sides
  <2>. QED BY <1>2, <1>3, <1>4, <2>1, <2>4, BestFalls
<1>6. CASE ~(ss'[s].rate_cur > 0)
  BY <1>2, <1>6, SMT DEF Rates
<1>. QED BY <1>5, <1>6

LEMMA RatesStep ==
  ASSUME CallInv, CallInv', RatesInv, NEW s \in Sides, NEW e, NEW r, Turned(s, e, r)
  PROVE  RatesInv' /\ RatesFall /\ BurstStart
<1>1. RatesInv'
  <2>1. \A q \in Sides : EndKept(q, End(q))'
    BY EndsKept
  <2>2. HeardInv' /\ FixedInv' /\ ProbedInv'
    BY HeardKeep, FixedKeep, ProbedKeep
  <2>. QED BY <2>1, <2>2 DEF RatesInv
<1>2. RatesFall
  <2>1. SUFFICES ASSUME NEW q \in Sides, ss[q].rate_cur > 0
                 PROVE  ss'[q].rate_cur <= ss[q].rate_cur
    BY DEF RatesFall
  <2>2. CASE q = s
    BY <2>1, <2>2, RateFalls1
  <2>3. CASE q = Peer(s)
    <3>1. ss'[q].rate_cur = ss[q].rate_cur
      BY <2>3, TurnedPeer
    <3>2. ss[q].rate_cur \in Rates
      BY RateTypes
    <3>. QED BY <3>1, <3>2, SMT DEF Rates
  <2>. QED BY <2>2, <2>3, PeerFacts
<1>3. BurstStart
  <2>1. CASE s = "C"
    BY <2>1, TurnedSelf DEF BurstStart
  <2>2. CASE s = "A"
    <3>1. ss'["C"].pcm = ss["C"].pcm
      BY <2>2, TurnedPeer DEF Peer
    <3>. QED BY <3>1 DEF BurstStart
  <2>. QED BY <2>1, <2>2 DEF Sides
<1>. QED BY <1>1, <1>2, <1>3

-----------------------------------------------------------------------------
(* The actions. Those that change an end's session only, and may advertise. *)
RatesHold == RatesInv' /\ RatesFall /\ BurstStart

Carries(r, x, cap) ==
  /\ x.st = r.st \/ (r.st # "IDLE" /\ x.st \notin {"DONE", "A_TRN_WAIT"})
  /\ x.done = r.done /\ x.in_retrain = r.in_retrain /\ x.rx_mode = r.rx_mode
  /\ x.rate_cur = r.rate_cur /\ x.remote_max = r.remote_max
  /\ x.last_adv \in {0, r.last_adv, cap} /\ x.win_mph \in {0, r.win_mph}
  /\ x.gate # "" => r.gate # ""
  /\ x.pcm = "PRI" => r.pcm = "PRI" \/ x.pcm_rate = r.rate_cur

LEMMA StillCarries ==
  ASSUME NEW r, NEW x, Still(r, x), NEW cap
  PROVE  Carries(r, x, cap) /\ x.last_adv = r.last_adv
<1>1. x.last_adv \in {0, r.last_adv, cap}
  BY DEF Still, Plain
<1>. QED BY <1>1, Zenon DEF Still, Plain, Carries

LEMMA OnCarries ==
  ASSUME CallInv, CallInv', RatesInv, NEW s \in Sides, On(s), NEW x, Onward(ss[s], x),
         Carries(ss[s], x, point[s].local_max), NEW r, Both(s, [End(s) EXCEPT !.ss = x], r),
         Hears(ss[Peer(s)], r, ss[s].saved), Heeds(ss[Peer(s)], r, ss[s], x), Rest
  PROVE  RatesHold
<1>1. PICK e : e = [End(s) EXCEPT !.ss = x]
  OBVIOUS
<1>2. PICK a : a = End(s)
  OBVIOUS
<1>3. /\ e.ss = x /\ e.pt = a.pt /\ e.t = a.t /\ a.ss = ss[s] /\ a.pt = point[s]
      /\ EndKept(s, a) /\ a.pt.local_max \in 1..14
  BY <1>1, <1>2, EndPut, EndFacts, RateTypes DEF RatesInv
<1>4. EndKept(s, e)
  <2>1. Carries(a.ss, e.ss, point[s].local_max)
    BY <1>3
  <2>2. RateKept(e)
    BY <1>3, <2>1, Zenon DEF EndKept, RateKept, Carries
  <2>3. StartKept(s, e)
    BY <1>3, <2>1, Zenon DEF EndKept, StartKept, Starting, Carries
  <2>. QED BY <2>2, <2>3 DEF EndKept
<1>5. Steps(s, a, e)
  <2>1. e.pt.local_max <= a.pt.local_max
    BY <1>3
  <2>2. \/ e.ss.last_adv \in {0, a.ss.last_adv}
        \/ On(s) /\ e.ss.last_adv = e.pt.local_max /\ e.pt.local_max = a.pt.local_max
    BY <1>3 DEF Carries
  <2>3. e.ss.remote_max \in {a.ss.remote_max} \cup Announced(s)
    BY <1>3 DEF Carries
  <2>4. e.ss.rate_cur > 0 => a.ss.rate_cur > 0
    BY <1>3 DEF Carries
  <2>. QED BY <1>3, <1>4, <2>1, <2>2, <2>3, <2>4, Zenon DEF Steps, Carries
<1>6. Changed(s, e, r)
  BY <1>1, BothIs DEF CallInv, TypeInv
<1>7. Moves(s, End(s), e, Told(s))
  BY <1>1, EndFacts, SessionOnly
<1>8. Audible(s, r) /\ P2Left(s) /\ Other
  BY DEF Audible, P2Left, Rest, P2Rest
<1>9. Heeds(ss[Peer(s)], r, ss[s], e.ss)
  BY <1>3
<1>10. Turned(s, e, r)
  BY <1>2, <1>5, <1>6, <1>7, <1>8, <1>9 DEF Turned
<1>. QED BY <1>10, RatesStep DEF RatesHold

(* What the peer hears of it.                                               *)
LEMMA SelfHeeds ==
  ASSUME NEW r, NEW old, NEW new, new.last_adv \in {0, old.last_adv}
  PROVE  Heeds(r, r, old, new)
  BY DEF Heeds

LEMMA OpensHeeds ==
  ASSUME NEW r \in Sessions, NEW what, NEW mph, NEW old, NEW new, mph \in {0, new.last_adv}
  PROVE  Heeds(r, gate_opens(r, what, mph), old, new)
  BY DEF Heeds, gate_opens, Sessions

LEMMA OntoHeeds ==
  ASSUME NEW r \in Sessions, NEW what, NEW mph, NEW old, NEW new, mph \in {0, new.last_adv},
         ~(mph > 0) => new.last_adv \in {0, old.last_adv}
  PROVE  Heeds(r, Onto(r, what, mph), old, new)
<1>1. CASE r.gate = ""
  <2>1. Onto(r, what, mph) = gate_opens(r, what, mph)
    BY <1>1 DEF Onto
  <2>. QED BY <2>1, OpensHeeds
<1>2. CASE r.gate # ""
  <2>1. PICK n : n = IF mph > 0 THEN mph ELSE r.win_mph
    OBVIOUS
  <2>2. PICK x : x = [r EXCEPT !.gate = what, !.win_mph = n]
    OBVIOUS
  <2>3. Heeds(r, x, old, new)
    BY <2>1, <2>2 DEF Heeds, Sessions
  <2>4. Onto(r, what, mph) = x
    BY <1>2, <2>1, <2>2 DEF Onto
  <2>. QED BY <2>3, <2>4
<1>. QED BY <1>1, <1>2

(* A control channel that begins advertises the cap.                        *)
LEMMA BeginCarries ==
  ASSUME NEW r \in Sessions, NEW pt, NEW startup
  PROVE  LET x == ccs_begin(r, pt, startup) IN
         /\ Carries(r, x, pt.local_max) /\ x.last_adv = pt.local_max /\ x.st = r.st
         /\ x.pcm = r.pcm
         /\ use_sh(r, pt, startup) => x.last_adv = r.last_adv
<1>1. PICK q : q = ccs_reset(r)
  OBVIOUS
<1>2. q \in Sessions /\ Still(r, q)
  BY <1>1, CcsReset1, CarrierStill DEF Alike
<1>3. PICK adv, b : /\ adv = IF use_sh(r, pt, startup) THEN q.last_adv ELSE pt.local_max
                    /\ b = (q.reneg_pending /\ ~startup)
  OBVIOUS
<1>4. adv = pt.local_max
  BY <1>2, <1>3 DEF use_sh, Still, Plain
<1>5. PICK x : x = [q EXCEPT !.ccs_state = "RUN", !.pre_mph = startup, !.form_startup = startup,
                             !.last_adv = adv, !.reneg_pending = b]
  OBVIOUS
<1>6. /\ x.st = q.st /\ x.done = q.done /\ x.in_retrain = q.in_retrain /\ x.rx_mode = q.rx_mode
      /\ x.rate_cur = q.rate_cur /\ x.remote_max = q.remote_max /\ x.win_mph = q.win_mph
      /\ x.gate = q.gate /\ x.pcm = q.pcm /\ x.last_adv = adv
  BY <1>2, <1>5 DEF Sessions
<1>7. Carries(r, x, pt.local_max) /\ x.st = r.st
  <2>1. x.last_adv \in {0, r.last_adv, pt.local_max}
    BY <1>4, <1>6
  <2>. QED BY <1>2, <1>6, <2>1, Zenon DEF Carries, Still, Plain
<1>8. ccs_begin(r, pt, startup) = x
  BY <1>1, <1>3, <1>5 DEF ccs_begin
<1>9. x.pcm = r.pcm
  <2>1. q.pcm = r.pcm
    BY <1>1 DEF ccs_reset, Sessions
  <2>. QED BY <1>6, <2>1
<1>. QED BY <1>4, <1>6, <1>7, <1>8, <1>9 DEF use_sh

LEMMA CarriesStill ==
  ASSUME NEW r, NEW x, NEW y, NEW cap, Carries(r, x, cap), Still(x, y),
         x.pcm = "PRI" => r.pcm = "PRI"
  PROVE  Carries(r, y, cap) /\ y.last_adv = x.last_adv
<1>1. y.last_adv \in {0, r.last_adv, cap} /\ y.last_adv = x.last_adv
  BY DEF Carries, Still, Plain
<1>. QED BY <1>1, Zenon DEF Carries, Still, Plain

LEMMA StillThenCarries ==
  ASSUME NEW r, NEW x, NEW y, NEW cap, Still(r, x), Carries(x, y, cap)
  PROVE  Carries(r, y, cap)
<1>1. y.last_adv \in {0, r.last_adv, cap}
  BY DEF Carries, Still, Plain
<1>. QED BY <1>1, Zenon DEF Carries, Still, Plain

LEMMA SetStCarries ==
  ASSUME NEW r, NEW x \in Sessions, NEW cap, Carries(r, x, cap), r.st # "IDLE",
         NEW st, st \notin {"DONE", "A_TRN_WAIT"}
  PROVE  Carries(r, SetSt(x, st), cap) /\ SetSt(x, st).last_adv = x.last_adv
<1>1. PICK y : y = SetSt(x, st)
  OBVIOUS
<1>2. /\ y.st = st /\ y.done = x.done /\ y.in_retrain = x.in_retrain /\ y.rx_mode = x.rx_mode
      /\ y.rate_cur = x.rate_cur /\ y.remote_max = x.remote_max /\ y.last_adv = x.last_adv
      /\ y.win_mph = x.win_mph /\ y.gate = x.gate /\ y.pcm = x.pcm /\ y.pcm_rate = x.pcm_rate
  BY <1>1 DEF SetSt, Sessions
<1>3. Carries(r, y, cap)
  BY <1>2, Zenon DEF Carries
<1>. QED BY <1>1, <1>2, <1>3

LEMMA TrnPlayedRates ==
  ASSUME CallInv, CallInv', RatesInv, NEW s \in Sides, TrnPlayed(s)
  PROVE  RatesHold
<1>1. On(s) /\ Rest /\ Becomes(s, [End(s) EXCEPT !.ss.pcm = "", !.ss.st = "C_CC_INIT_Q"])
  BY DEF TrnPlayed
<1>2. PICK y, x : y = [ss[s] EXCEPT !.pcm = ""] /\ x = SetSt(y, "C_CC_INIT_Q")
  OBVIOUS
<1>3. ss[s] \in Sessions /\ ss[s].st # "IDLE"
  BY <1>1, EndFacts, OnFacts
<1>4. Alike(ss[s], y) /\ y \in Sessions
  BY <1>2, <1>3, Set1 DEF Pcms, Alike
<1>5. Onward(ss[s], x)
  <2>1. Onward(y, x)
    BY <1>2, <1>3, <1>4, SetSt1 DEF SessionStates, Beginning, Alike
  <2>. QED BY <1>4, <2>1, AlikeOnward, OnwardOnward
<1>6. Carries(ss[s], x, point[s].local_max) /\ x.last_adv = ss[s].last_adv
  <2>1. Still(ss[s], y)
    BY <1>2, <1>3, FieldStill
  <2>2. Carries(ss[s], y, point[s].local_max) /\ y.last_adv = ss[s].last_adv
    BY <2>1, StillCarries
  <2>. QED BY <1>2, <1>3, <1>4, <2>2, SetStCarries
<1>7. [End(s) EXCEPT !.ss.pcm = "", !.ss.st = "C_CC_INIT_Q"] = [End(s) EXCEPT !.ss = x]
  BY <1>2 DEF End, SetSt
<1>8. Both(s, [End(s) EXCEPT !.ss = x], ss[Peer(s)])
  BY <1>1, <1>7 DEF Becomes
<1>9. Heeds(ss[Peer(s)], ss[Peer(s)], ss[s], x)
  BY <1>6, SelfHeeds
<1>. QED BY <1>1, <1>5, <1>6, <1>8, <1>9, SelfHears, OnCarries

LEMMA TickRates ==
  ASSUME CallInv, CallInv', RatesInv, NEW s \in Sides, Tick(s)
  PROVE  RatesHold
<1>1. On(s) /\ Rest /\ ss[s] \in Sessions /\ ss[s].st # "IDLE" /\ ss[Peer(s)] \in Sessions
  BY EndFacts, PeerFacts, OnFacts DEF Tick
<1>2. CASE Both(s, [End(s) EXCEPT !.ss.pcm = "TRN", !.ss.st = "C_PHASE3_PLAY"],
                Onto(ss[Peer(s)], "trn", 0))
  <2>1. PICK y, x : y = [ss[s] EXCEPT !.pcm = "TRN"] /\ x = SetSt(y, "C_PHASE3_PLAY")
    OBVIOUS
  <2>2. Alike(ss[s], y) /\ y \in Sessions
    BY <1>1, <2>1, Set1 DEF Pcms, Alike
  <2>3. Onward(ss[s], x)
    <3>1. Onward(y, x)
      BY <1>1, <2>1, <2>2, SetSt1 DEF SessionStates, Beginning, Alike
    <3>. QED BY <2>2, <3>1, AlikeOnward, OnwardOnward
  <2>4. Carries(ss[s], x, point[s].local_max) /\ x.last_adv = ss[s].last_adv
    <3>1. Still(ss[s], y)
      BY <1>1, <2>1, FieldStill
    <3>. QED BY <1>1, <2>1, <2>2, <3>1, StillCarries, SetStCarries
  <2>5. [End(s) EXCEPT !.ss.pcm = "TRN", !.ss.st = "C_PHASE3_PLAY"] = [End(s) EXCEPT !.ss = x]
    BY <2>1 DEF End, SetSt
  <2>6. "trn" \in Gates /\ 0 \in Rates
    BY SMT DEF Gates, Rates
  <2>7. Hears(ss[Peer(s)], Onto(ss[Peer(s)], "trn", 0), ss[s].saved)
    BY <2>6, OnPeer
  <2>8. Heeds(ss[Peer(s)], Onto(ss[Peer(s)], "trn", 0), ss[s], x)
    BY <1>1, <2>4, OntoHeeds
  <2>. QED BY <1>1, <1>2, <2>3, <2>4, <2>5, <2>7, <2>8, OnCarries
<1>3. ASSUME NEW st \in {"C_CC_INIT_PLAY", "A_CC1_PLAY"},
             Both(s, [End(s) EXCEPT !.ss = [ccs_begin(@, End(s).pt, TRUE) EXCEPT !.st = st]],
                  Onto(ss[Peer(s)], "cc", End(s).pt.local_max))
      PROVE  RatesHold
  <2>1. PICK y, x, n : /\ y = ccs_begin(ss[s], point[s], TRUE) /\ x = SetSt(y, st)
                       /\ n = point[s].local_max
    OBVIOUS
  <2>2. Alike(ss[s], y) /\ y \in Sessions
    BY <1>1, <2>1, EndFacts, CcsBegin1 DEF Alike
  <2>3. Onward(ss[s], x)
    <3>1. st \in SessionStates /\ st \notin Beginning /\ y.st # "IDLE"
      BY <1>1, <1>3, <2>2 DEF SessionStates, Beginning, Alike
    <3>2. Onward(y, x)
      BY <2>1, <2>2, <3>1, SetSt1
    <3>. QED BY <2>2, <3>2, AlikeOnward, OnwardOnward
  <2>4. Carries(ss[s], x, point[s].local_max) /\ x.last_adv = n
    <3>1. Carries(ss[s], y, n) /\ y.last_adv = n
      <4>1. PICK r, pt, on : r = ss[s] /\ pt = point[s] /\ on = TRUE
        OBVIOUS
      <4>2. y = ccs_begin(r, pt, on) /\ n = pt.local_max /\ r \in Sessions
        BY <1>1, <2>1, <4>1
      <4>3. Carries(r, ccs_begin(r, pt, on), pt.local_max)
            /\ ccs_begin(r, pt, on).last_adv = pt.local_max
        BY <4>2, BeginCarries
      <4>. QED BY <4>1, <4>2, <4>3
    <3>2. st \notin {"DONE", "A_TRN_WAIT"}
      BY <1>3
    <3>. QED BY <1>1, <2>1, <2>2, <3>1, <3>2, SetStCarries
  <2>5. /\ End(s).pt.local_max = n
        /\ [End(s) EXCEPT !.ss = [ccs_begin(@, End(s).pt, TRUE) EXCEPT !.st = st]]
             = [End(s) EXCEPT !.ss = x]
    BY <2>1, EndFacts DEF SetSt
  <2>6. "cc" \in Gates /\ n \in Rates /\ n > 0
    <3>1. n \in 1..14
      BY <2>1, RateTypes
    <3>. QED BY <3>1, SMT DEF Gates, Rates
  <2>7. Hears(ss[Peer(s)], Onto(ss[Peer(s)], "cc", n), ss[s].saved)
    BY <2>6, OnPeer
  <2>8. Heeds(ss[Peer(s)], Onto(ss[Peer(s)], "cc", n), ss[s], x)
    BY <1>1, <2>4, <2>6, OntoHeeds
  <2>. QED BY <1>1, <1>3, <2>3, <2>4, <2>5, <2>7, <2>8, OnCarries
<1>4. CASE \E q \in {<<"C_CC_INIT_Q", "C_CC_INIT_PLAY">>, <<"A_CC1_Q", "A_CC1_PLAY">>} :
             Both(s, [End(s) EXCEPT !.ss = [ccs_begin(@, End(s).pt, TRUE) EXCEPT !.st = q[2]]],
                  Onto(ss[Peer(s)], "cc", End(s).pt.local_max))
  <2>1. PICK q \in {<<"C_CC_INIT_Q", "C_CC_INIT_PLAY">>, <<"A_CC1_Q", "A_CC1_PLAY">>} :
             Both(s, [End(s) EXCEPT !.ss = [ccs_begin(@, End(s).pt, TRUE) EXCEPT !.st = q[2]]],
                  Onto(ss[Peer(s)], "cc", End(s).pt.local_max))
    BY <1>4
  <2>2. q[2] \in {"C_CC_INIT_PLAY", "A_CC1_PLAY"}
    OBVIOUS
  <2>. QED BY <1>3, <2>1, <2>2
<1>. QED BY <1>2, <1>4 DEF Tick

LEMMA RaiseStreamRates ==
  ASSUME CallInv, CallInv', RatesInv, NEW s \in Sides, RaiseStream(s)
  PROVE  RatesHold
<1>1. PICK r, pt : r = ss[s] /\ pt = point[s]
  OBVIOUS
<1>2. PICK b, sh, y, x, n : /\ b = r.reneg_pending /\ sh = use_sh(r, pt, b)
                            /\ y = ccs_begin(r, pt, b)
                            /\ x = (IF b THEN y ELSE append_frames(y))
                            /\ n = IF sh THEN 0 ELSE y.last_adv
  OBVIOUS
<1>3. On(s) /\ Rest /\ Both(s, [End(s) EXCEPT !.ss = x], Onto(ss[Peer(s)], "cc", n))
  BY <1>1, <1>2, EndFacts DEF RaiseStream
<1>4. r \in Sessions /\ b \in BOOLEAN /\ pt \in SafePoints /\ ss[Peer(s)] \in Sessions
  BY <1>1, <1>2, EndFacts, PeerFacts, Fields
<1>5. Alike(r, y) /\ y \in Sessions
  BY <1>2, <1>4, CcsBegin1 DEF Alike
<1>6. Onward(r, x)
  BY <1>2, <1>5, AlikeOnward, OnwardOnward, AppendFrames1
<1>7. /\ Carries(r, y, pt.local_max) /\ y.last_adv = pt.local_max /\ y.pcm = r.pcm
      /\ sh => y.last_adv = r.last_adv
  BY <1>2, <1>4, BeginCarries
<1>8. Carries(r, x, pt.local_max) /\ x.last_adv = y.last_adv
  <2>1. Still(y, append_frames(y))
    BY <1>5, TxStill
  <2>2. Carries(r, append_frames(y), pt.local_max) /\ append_frames(y).last_adv = y.last_adv
    BY <1>7, <2>1, CarriesStill
  <2>. QED BY <1>2, <1>7, <2>2
<1>9. y.last_adv \in Rates /\ y.last_adv > 0
  <2>1. pt.local_max \in 1..14
    BY <1>4, PointFacts
  <2>. QED BY <1>7, <2>1, SMT DEF Rates
<1>10. n \in Rates /\ "cc" \in Gates
  <2>1. 0 \in Rates
    BY SMT DEF Rates
  <2>. QED BY <1>2, <1>9, <2>1 DEF Gates
<1>11. Heeds(ss[Peer(s)], Onto(ss[Peer(s)], "cc", n), r, x)
  <2>1. CASE sh
    BY <1>2, <1>4, <1>7, <1>8, <2>1, OntoHeeds
  <2>2. CASE ~sh
    BY <1>2, <1>4, <1>8, <1>9, <2>2, OntoHeeds
  <2>. QED BY <2>1, <2>2
<1>. QED BY <1>1, <1>3, <1>6, <1>8, <1>10, <1>11, OnPeer, OnCarries

LEMMA RestartRates ==
  ASSUME CallInv, CallInv', RatesInv, NEW s \in Sides, Restart(s)
  PROVE  RatesHold
<1>1. PICK r, pt, x : r = ss[s] /\ pt = point[s] /\ x = restart(r, pt)
  OBVIOUS
<1>2. PICK peer \in {gate_opens(ss[Peer(s)], "cc", x.last_adv),
                     Onto(ss[Peer(s)], "cc", x.last_adv)} :
        Both(s, [End(s) EXCEPT !.ss = x], peer)
  BY <1>1 DEF Restart
<1>3. On(s) /\ Rest /\ r \in Sessions /\ pt \in SafePoints /\ ss[Peer(s)] \in Sessions
  BY <1>1, EndFacts, PeerFacts DEF Restart
<1>4. Onward(r, x)
  BY <1>1, <1>3, Restart1
<1>5. x.last_adv \in Rates /\ "cc" \in Gates
  BY <1>4, Fields DEF Onward, Gates
<1>6. Hears(ss[Peer(s)], peer, ss[s].saved)
  BY <1>2, <1>3, <1>5, Onto1
<1>7. PICK q, y : /\ q = IF r.frames = <<>> THEN r.saved ELSE r.frames
                  /\ y = [r EXCEPT !.frames = q]
  OBVIOUS
<1>8. y \in Sessions /\ Still(r, y)
  <2>1. q \in FrameSeqs
    BY <1>3, <1>7, Fields
  <2>. QED BY <1>3, <1>7, <2>1 DEF Sessions, Still, Plain
<1>9. x = ccs_begin(y, pt, TRUE)
  BY <1>1, <1>7 DEF restart
<1>10. PICK on : on = TRUE
  OBVIOUS
<1>11. Carries(y, x, pt.local_max) /\ x.last_adv = pt.local_max
  <2>1. Carries(y, ccs_begin(y, pt, on), pt.local_max)
        /\ ccs_begin(y, pt, on).last_adv = pt.local_max
    BY <1>8, BeginCarries
  <2>. QED BY <1>9, <1>10, <2>1
<1>12. Carries(r, x, pt.local_max)
  BY <1>8, <1>11, StillThenCarries
<1>13. x.last_adv > 0
  <2>1. pt.local_max \in 1..14
    BY <1>3, PointFacts
  <2>. QED BY <1>11, <2>1, SMT
<1>14. Heeds(ss[Peer(s)], peer, r, x)
  <2>1. Heeds(ss[Peer(s)], gate_opens(ss[Peer(s)], "cc", x.last_adv), r, x)
    BY <1>3, OpensHeeds
  <2>2. Heeds(ss[Peer(s)], Onto(ss[Peer(s)], "cc", x.last_adv), r, x)
    BY <1>3, <1>13, OntoHeeds
  <2>. QED BY <1>2, <2>1, <2>2
<1>. QED BY <1>1, <1>2, <1>3, <1>4, <1>6, <1>12, <1>14, OnCarries

(* Steps that leave every rate and every advertisement as it is.            *)
LEMMA OnStill ==
  ASSUME CallInv, CallInv', RatesInv, NEW s \in Sides, On(s), NEW x, Onward(ss[s], x),
         Still(ss[s], x), NEW r, Both(s, [End(s) EXCEPT !.ss = x], r),
         Hears(ss[Peer(s)], r, ss[s].saved), Heeds(ss[Peer(s)], r, ss[s], x), Rest
  PROVE  RatesHold
<1>1. Carries(ss[s], x, point[s].local_max)
  BY StillCarries
<1>. QED BY <1>1, OnCarries

LEMMA AloneStill ==
  ASSUME CallInv, CallInv', RatesInv, NEW s \in Sides, On(s), NEW x, Onward(ss[s], x),
         Still(ss[s], x), Both(s, [End(s) EXCEPT !.ss = x], ss[Peer(s)]), Rest
  PROVE  RatesHold
<1>1. x.last_adv = ss[s].last_adv
  BY DEF Still, Plain
<1>2. Heeds(ss[Peer(s)], ss[Peer(s)], ss[s], x)
  BY <1>1, SelfHeeds
<1>. QED BY <1>2, SelfHears, OnStill

LEMMA TurnAroundRates ==
  ASSUME CallInv, CallInv', RatesInv, NEW s \in Sides, TurnAround(s)
  PROVE  RatesHold
<1>1. PICK x : x = [ss[s] EXCEPT !.ccs_state = "ONES"]
  OBVIOUS
<1>2. On(s) /\ Rest /\ Both(s, [End(s) EXCEPT !.ss = x], ss[Peer(s)])
  BY <1>1, EndFacts DEF TurnAround, Becomes
<1>3. Onward(ss[s], x) /\ Still(ss[s], x)
  BY <1>1, EndFacts, Set1, AlikeOnward, FieldStill DEF CcStates
<1>. QED BY <1>2, <1>3, AloneStill

LEMMA AppendFramesRates ==
  ASSUME CallInv, CallInv', RatesInv, NEW s \in Sides, AppendFrames(s)
  PROVE  RatesHold
<1>1. PICK x : x = append_frames(ss[s])
  OBVIOUS
<1>2. On(s) /\ Rest /\ Both(s, [End(s) EXCEPT !.ss = x], ss[Peer(s)])
  BY <1>1, EndFacts DEF AppendFrames, Becomes
<1>3. Onward(ss[s], x) /\ Still(ss[s], x)
  BY <1>1, EndFacts, AppendFrames1, TxStill
<1>. QED BY <1>2, <1>3, AloneStill

LEMMA CarrierFallsRates ==
  ASSUME CallInv, CallInv', RatesInv, NEW s \in Sides, CarrierFalls(s)
  PROVE  RatesHold
<1>1. On(s) /\ Rest
  BY DEF CarrierFalls
<1>2. PICK x, y : x = [ss[s] EXCEPT !.ccs_state = "DRAIN"] /\ y = ccs_reset(ss[s])
  OBVIOUS
<1>3. \/ Both(s, [End(s) EXCEPT !.ss = x], ss[Peer(s)])
      \/ Both(s, [End(s) EXCEPT !.ss = y], ss[Peer(s)])
  BY <1>2, EndFacts DEF CarrierFalls, Becomes
<1>4. Onward(ss[s], x) /\ Still(ss[s], x)
  BY <1>2, EndFacts, Set1, AlikeOnward, FieldStill DEF CcStates
<1>5. Onward(ss[s], y) /\ Still(ss[s], y)
  BY <1>2, EndFacts, CcsReset1, AlikeOnward, CarrierStill
<1>. QED BY <1>1, <1>3, <1>4, <1>5, AloneStill

LEMMA InterlockRates ==
  ASSUME CallInv, CallInv', RatesInv, NEW s \in Sides, Interlock(s)
  PROVE  RatesHold
<1>1. PICK x, r : /\ x = interlock(ss[s])
                  /\ r = IF ss[Peer(s)].gate = "cc"
                           THEN [ss[Peer(s)] EXCEPT !.win_mph = ss[s].last_adv] ELSE ss[Peer(s)]
  OBVIOUS
<1>2. On(s) /\ Rest /\ Both(s, [End(s) EXCEPT !.ss = x], r)
  BY <1>1, EndFacts DEF Interlock
<1>3. Onward(ss[s], x) /\ Still(ss[s], x)
  BY <1>1, EndFacts, Interlock1, AlikeOnward, CarrierStill
<1>4. x.last_adv = ss[s].last_adv
  BY <1>3 DEF Still, Plain
<1>5. Hears(ss[Peer(s)], r, ss[s].saved) /\ Heeds(ss[Peer(s)], r, ss[s], x)
  <2>1. PICK b, n : b = ss[Peer(s)] /\ n = ss[s].last_adv
    OBVIOUS
  <2>2. b \in Sessions /\ n \in Rates
    BY <2>1, PeerFacts, EndFacts, Fields
  <2>3. PICK y : y = [b EXCEPT !.win_mph = n]
    OBVIOUS
  <2>4. Hears(b, y, ss[s].saved)
    BY <2>2, <2>3, Set1, AlikeHears
  <2>5. Heeds(b, y, ss[s], x)
    BY <1>4, <2>1, <2>2, <2>3 DEF Heeds, Sessions
  <2>6. r = y \/ r = b
    BY <1>1, <2>1, <2>3
  <2>. QED BY <1>4, <2>1, <2>4, <2>5, <2>6, SelfHears, SelfHeeds
<1>. QED BY <1>2, <1>3, <1>5, OnStill

LEMMA RaisePriRates ==
  ASSUME CallInv, CallInv', RatesInv, NEW s \in Sides, RaisePri(s)
  PROVE  RatesHold
<1>1. PICK b, n : b = ss[s] /\ n = ss[s].rate_cur
  OBVIOUS
<1>2. PICK x1, x2, x : /\ x1 = [b EXCEPT !.pri_pending = FALSE] /\ x2 = [x1 EXCEPT !.pcm = "PRI"]
                       /\ x = [x2 EXCEPT !.pcm_rate = n]
  OBVIOUS
<1>3. On(s) /\ Rest
      /\ Both(s, [End(s) EXCEPT !.ss.pri_pending = FALSE, !.ss.pcm = "PRI",
                                !.ss.pcm_rate = ss[s].rate_cur], Onto(ss[Peer(s)], "pri", 0))
  BY DEF RaisePri
<1>4. [End(s) EXCEPT !.ss.pri_pending = FALSE, !.ss.pcm = "PRI", !.ss.pcm_rate = ss[s].rate_cur]
        = [End(s) EXCEPT !.ss = x]
  BY <1>1, <1>2, EndFacts
<1>5. b \in Sessions /\ n \in Rates /\ ss[Peer(s)] \in Sessions
  BY <1>1, EndFacts, PeerFacts, Fields
<1>6. Alike(b, x1) /\ x1 \in Sessions
  BY <1>2, <1>5, Set1 DEF Alike
<1>7. Alike(x1, x2) /\ x2 \in Sessions
  BY <1>2, <1>6, Set1 DEF Pcms, Alike
<1>8. Alike(x2, x)
  <2>1. x2 \in Sessions /\ n \in Rates /\ x = [x2 EXCEPT !.pcm_rate = n]
    BY <1>2, <1>5, <1>7
  <2>. QED BY <2>1 DEF Alike, Sessions
<1>9. Onward(b, x)
  BY <1>6, <1>7, <1>8, AlikeAlike, AlikeOnward
<1>10. Carries(b, x, point[s].local_max) /\ x.last_adv = b.last_adv
  <2>1. Still(b, x1)
    BY <1>2, <1>5, FieldStill
  <2>2. /\ x.st = x1.st /\ x.done = x1.done /\ x.in_retrain = x1.in_retrain
        /\ x.rx_mode = x1.rx_mode /\ x.rate_cur = x1.rate_cur /\ x.remote_max = x1.remote_max
        /\ x.last_adv = x1.last_adv /\ x.win_mph = x1.win_mph /\ x.gate = x1.gate
        /\ x.pcm_rate = n
    BY <1>2, <1>6, <1>7 DEF Sessions
  <2>3. x.last_adv = b.last_adv
    BY <2>1, <2>2 DEF Still, Plain
  <2>. QED BY <1>1, <2>1, <2>2, <2>3, Zenon DEF Carries, Still, Plain
<1>11. "pri" \in Gates /\ 0 \in Rates /\ ~(0 > 0)
  BY SMT DEF Gates, Rates
<1>12. Heeds(ss[Peer(s)], Onto(ss[Peer(s)], "pri", 0), ss[s], x)
  BY <1>1, <1>5, <1>10, <1>11, OntoHeeds
<1>. QED BY <1>1, <1>3, <1>4, <1>9, <1>10, <1>11, <1>12, OnPeer, OnCarries

-----------------------------------------------------------------------------
(* The actions that turn the end's record.                                  *)
LEMMA BothTurns ==
  ASSUME CallInv, CallInv', RatesInv, NEW s \in Sides, NEW e, NEW r, Both(s, e, r),
         Moves(s, End(s), e, Told(s)), Turns(s, End(s), e, Announced(s), Live(s)),
         Audible(s, r), P2Left(s), Other, Heeds(ss[Peer(s)], r, ss[s], e.ss)
  PROVE  RatesHold
<1>1. Changed(s, e, r)
  BY BothIs DEF CallInv, TypeInv
<1>2. Steps(s, End(s), e)
  BY TurnsSteps
<1>3. Turned(s, e, r)
  BY <1>1, <1>2 DEF Turned
<1>. QED BY <1>3, RatesStep DEF RatesHold

LEMMA BecomesTurns ==
  ASSUME CallInv, CallInv', RatesInv, NEW s \in Sides, NEW e, Becomes(s, e),
         Moves(s, End(s), e, Told(s)), Turns(s, End(s), e, Announced(s), Live(s)),
         P2Left(s), Other
  PROVE  RatesHold
<1>1. Both(s, e, ss[Peer(s)]) /\ Audible(s, ss[Peer(s)])
  BY SelfHears DEF Becomes, Audible
<1>2. e.ss.last_adv \in {0, ss[s].last_adv}
  BY EndFacts DEF Turns
<1>3. Heeds(ss[Peer(s)], ss[Peer(s)], ss[s], e.ss)
  BY <1>2, SelfHeeds
<1>. QED BY <1>1, <1>3, BothTurns

LEMMA KeptNow ==
  ASSUME CallInv, RatesInv, NEW s \in Sides
  PROVE  /\ EndOk(s, End(s)) /\ EndKept(s, End(s)) /\ End(s).ss = ss[s] /\ End(s).pt = point[s]
         /\ End(s).t = t30[s] /\ ss[s] \in Sessions
  BY EndFacts DEF RatesInv

(* A change of the session only, and then another of the whole end.         *)
LEMMA StillThenTurns ==
  ASSUME CallInv, RatesInv, NEW s \in Sides, NEW x, Onward(ss[s], x), Still(ss[s], x)
  PROVE  LET e == [End(s) EXCEPT !.ss = x] IN
         /\ Moves(s, End(s), e, Told(s)) /\ Turns(s, End(s), e, Announced(s), Live(s))
         /\ EndOk(s, e) /\ EndKept(s, e) /\ e.ss = x /\ e.pt = point[s] /\ e.t = t30[s]
<1>1. PICK e : e = [End(s) EXCEPT !.ss = x]
  OBVIOUS
<1>2. Moves(s, End(s), e, Told(s))
  BY <1>1, EndFacts, SessionOnly
<1>3. Turns(s, End(s), e, Announced(s), Live(s))
  BY <1>1, KeptNow, StillTurns
<1>4. EndOk(s, e) /\ EndKept(s, e)
  BY <1>2, <1>3, MovesOk DEF Turns
<1>. QED BY <1>1, <1>2, <1>3, <1>4, EndPut

LEMMA BothMove ==
  ASSUME NEW s, NEW a, NEW b, NEW c, EndOk(s, a), NEW told, NEW m, NEW live,
         Moves(s, a, b, told), Turns(s, a, b, m, live),
         Moves(s, b, c, told), Turns(s, b, c, m, live)
  PROVE  Moves(s, a, c, told) /\ Turns(s, a, c, m, live)
  BY MovesOk, MovesMoves, TurnsTurns

LEMMA SectionOutRates ==
  ASSUME CallInv, CallInv', RatesInv, NEW s \in Sides, SectionOut(s)
  PROVE  RatesHold
<1>1. PICK x, e, f, r : /\ x = [ss[s] EXCEPT !.data_pending = FALSE]
                        /\ e = [End(s) EXCEPT !.ss = x] /\ f = on_complete(e)
                        /\ r = IF ss[Peer(s)].gate = "cc" THEN captured(ss[Peer(s)], ss[s].saved)
                               ELSE ss[Peer(s)]
  OBVIOUS
<1>2. On(s) /\ Rest /\ Both(s, f, r)
  BY <1>1, EndFacts DEF SectionOut
<1>3. Onward(ss[s], x) /\ Still(ss[s], x)
  BY <1>1, EndFacts, Set1, AlikeOnward, FieldStill
<1>4. /\ Moves(s, End(s), e, Told(s)) /\ Turns(s, End(s), e, Announced(s), Live(s))
      /\ EndOk(s, e) /\ EndKept(s, e)
  BY <1>1, <1>3, StillThenTurns
<1>5. Moves(s, e, f, Told(s)) /\ Turns(s, e, f, Announced(s), Live(s))
  BY <1>1, <1>4, CallerComplete, AnswererComplete, CompleteTurns DEF Sides
<1>6. Moves(s, End(s), f, Told(s)) /\ Turns(s, End(s), f, Announced(s), Live(s))
  BY <1>4, <1>5, KeptNow, BothMove
<1>7. Hears(ss[Peer(s)], r, ss[s].saved) /\ Heeds(ss[Peer(s)], r, ss[s], f.ss)
  <2>1. PICK b, q : b = ss[Peer(s)] /\ q = ss[s].saved
    OBVIOUS
  <2>2. q \in FrameSeqs /\ b \in Sessions
    BY <2>1, PeerFacts, EndFacts, Fields
  <2>3. f.ss.last_adv \in {0, ss[s].last_adv}
    BY <1>6, EndFacts DEF Turns
  <2>4. PICK c : c = captured(b, q)
    OBVIOUS
  <2>5. Hears(b, c, q)
    BY <2>2, <2>4, Captured1
  <2>6. Heeds(b, c, ss[s], f.ss)
    BY <2>2, <2>3, <2>4 DEF Heeds, captured, Sessions
  <2>7. r = c \/ r = b
    BY <1>1, <2>1, <2>4
  <2>. QED BY <2>1, <2>3, <2>5, <2>6, <2>7, SelfHears, SelfHeeds
<1>8. Audible(s, r) /\ P2Left(s) /\ Other
  BY <1>2, <1>7 DEF Audible, P2Left, Rest, P2Rest
<1>. QED BY <1>2, <1>6, <1>7, <1>8, BothTurns

LEMMA PriPlayedRates ==
  ASSUME CallInv, CallInv', RatesInv, NEW s \in Sides, PriPlayed(s)
  PROVE  RatesHold
<1>1. PICK x, e, f : /\ x = [ss[s] EXCEPT !.pcm = ""] /\ e = [End(s) EXCEPT !.ss = x]
                     /\ f = on_complete(e)
  OBVIOUS
<1>2. Rest /\ Becomes(s, f)
  BY <1>1, EndFacts DEF PriPlayed
<1>3. Onward(ss[s], x) /\ Still(ss[s], x)
  BY <1>1, EndFacts, Set1, AlikeOnward, FieldStill DEF Pcms
<1>4. /\ Moves(s, End(s), e, Told(s)) /\ Turns(s, End(s), e, Announced(s), Live(s))
      /\ EndOk(s, e) /\ EndKept(s, e)
  BY <1>1, <1>3, StillThenTurns
<1>5. Moves(s, e, f, Told(s)) /\ Turns(s, e, f, Announced(s), Live(s))
  BY <1>1, <1>4, CallerComplete, AnswererComplete, CompleteTurns DEF Sides
<1>6. Moves(s, End(s), f, Told(s)) /\ Turns(s, End(s), f, Announced(s), Live(s))
  BY <1>4, <1>5, KeptNow, BothMove
<1>. QED BY <1>2, <1>6, BecomesTurns DEF Rest, P2Rest, P2Left

LEMMA T30TimerRates ==
  ASSUME CallInv, CallInv', RatesInv, NEW s \in Sides, T30Timer(s)
  PROVE  RatesHold
<1>1. PICK e : e = on_timer(End(s))
  OBVIOUS
<1>2. Becomes(s, e) /\ Rest
  BY <1>1 DEF T30Timer
<1>3. Moves(s, End(s), e, Told(s)) /\ Turns(s, End(s), e, Announced(s), Live(s))
  BY <1>1, KeptNow, TimerMoves, TimerTurns
<1>. QED BY <1>2, <1>3, BecomesTurns DEF Rest, P2Rest, P2Left

LEMMA HangUpRates ==
  ASSUME CallInv, CallInv', RatesInv, NEW s \in Sides, HangUp(s)
  PROVE  RatesHold
<1>1. PICK e : e = finish(End(s), "HUNG_UP")
  OBVIOUS
<1>2. Becomes(s, e) /\ Rest
  BY <1>1 DEF HangUp
<1>3. Moves(s, End(s), e, Told(s)) /\ Turns(s, End(s), e, Announced(s), Live(s))
  BY <1>1, KeptNow, FinishMoves, FinishTurns
<1>. QED BY <1>2, <1>3, BecomesTurns DEF Rest, P2Rest, P2Left

LEMMA HoldoffEndsRates ==
  ASSUME CallInv, CallInv', RatesInv, NEW s \in Sides, HoldoffEnds(s)
  PROVE  RatesHold
<1>1. PICK x, e : x = [ss[s] EXCEPT !.holdoff = FALSE] /\ e = [End(s) EXCEPT !.ss = x]
  OBVIOUS
<1>2. Becomes(s, e) /\ Rest
  BY <1>1, EndFacts DEF HoldoffEnds
<1>3. Onward(ss[s], x) /\ Still(ss[s], x)
  BY <1>1, EndFacts, Set1, AlikeOnward, FieldStill
<1>4. Moves(s, End(s), e, Told(s)) /\ Turns(s, End(s), e, Announced(s), Live(s))
  BY <1>1, <1>3, StillThenTurns
<1>. QED BY <1>2, <1>4, BecomesTurns DEF Rest, P2Rest, P2Left

LEMMA IgnoredRates ==
  ASSUME CallInv, CallInv', RatesInv, NEW s \in Sides, Ignored(s)
  PROVE  RatesHold
<1>1. PICK x, e : x = gate_shut(ss[s]) /\ e = [End(s) EXCEPT !.ss = x]
  OBVIOUS
<1>2. Becomes(s, e) /\ Rest
  BY <1>1, EndFacts DEF Ignored
<1>3. Onward(ss[s], x) /\ Still(ss[s], x)
  BY <1>1, EndFacts, GateShut1, ShutStill
<1>4. Moves(s, End(s), e, Told(s)) /\ Turns(s, End(s), e, Announced(s), Live(s))
  BY <1>1, <1>3, StillThenTurns
<1>. QED BY <1>2, <1>4, BecomesTurns DEF Rest, P2Rest, P2Left

(* No end scans for the control channel while it waits for the training.    *)
LEMMA ScansTrained ==
  ASSUME CallInv, RatesInv, NEW s \in Sides, On(s),
         RxMode(s) \in {"CC", "PRI"} \/ CanEstablish(ss[s])
  PROVE  ss[s].st \notin {"IDLE", "A_TRN_WAIT"}
<1>1. ss[s].st # "IDLE"
  BY OnFacts
<1>2. SUFFICES ASSUME ss[s].st = "A_TRN_WAIT"
               PROVE  FALSE
  BY <1>1
<1>3. StartKept(s, End(s)) /\ End(s).ss = ss[s]
  BY KeptNow DEF EndKept
<1>4. s = "A" /\ ~ss[s].done
  BY <1>2, <1>3 DEF StartKept, Sides
<1>5. ~ss[s].in_retrain => ss[s].rx_mode = "STARTUP"
  BY <1>2, <1>3, <1>4 DEF StartKept, Starting
<1>6. RxMode(s) = "STARTUP"
  BY <1>5 DEF RxMode
<1>. QED BY <1>2, <1>6 DEF CanEstablish

LEMMA PassRates ==
  ASSUME CallInv, CallInv', RatesInv, NEW s \in Sides, Listening(s), ss[s].gate # "",
         NEW final, Pass(s, final), Rest
  PROVE  RatesHold
<1>1. On(s) /\ ss[s].st \notin {"IDLE", "A_TRN_WAIT"}
  BY ScansTrained DEF Listening
<1>0. VisibleMph(s) \in Rates /\ 0 \in Rates
  BY RateTypes, NoRate
<1>2. PICK mph \in {0, VisibleMph(s)}, opens \in BOOLEAN, got \in SUBSET Range(ss[s].win) :
        LET e == ScanCc(s, mph, opens, got) IN
        Becomes(s, IF final THEN [e EXCEPT !.ss = gate_shut(@)] ELSE e)
  BY DEF Pass
<1>3. mph \in Rates
  BY <1>0
<1>4. PICK e, f : e = ScanCc(s, mph, opens, got) /\ f = [e EXCEPT !.ss = gate_shut(@)]
  OBVIOUS
<1>5. Moves(s, End(s), e, Told(s)) /\ EndOk(s, e)
  BY <1>1, <1>3, <1>4, ScanMoves, MovesOk DEF CallInv, TypeInv, Told
<1>6. Turns(s, End(s), e, Announced(s), Live(s)) /\ EndKept(s, e)
  <2>1. mph # 0 => mph \in Announced(s) /\ Live(s)
    BY <1>1 DEF Announced, Live
  <2>2. Turns(s, End(s), e, Announced(s), Live(s))
    BY <1>1, <1>3, <1>4, <2>1, KeptNow, ScanTurns DEF CallInv, TypeInv
  <2>. QED BY <2>2 DEF Turns
<1>7. Moves(s, End(s), f, Told(s)) /\ Turns(s, End(s), f, Announced(s), Live(s))
  <2>1. Moves(s, End(s), f, Told(s)) /\ EndOk(s, f)
    BY <1>4, <1>5, ShutMoves, MovesOk
  <2>2. PICK x : x = gate_shut(e.ss)
    OBVIOUS
  <2>3. Still(e.ss, x)
    BY <1>5, <2>2, EndIs, ShutStill
  <2>4. f = [e EXCEPT !.ss = x]
    BY <1>4, <2>2
  <2>5. Turns(s, e, f, Announced(s), Live(s))
    BY <1>5, <1>6, <2>3, <2>4, StillTurns
  <2>. QED BY <1>5, <1>6, <2>1, <2>5, KeptNow, TurnsTurns
<1>8. Becomes(s, e) \/ Becomes(s, f)
  BY <1>2, <1>4
<1>9. P2Left(s) /\ Other
  BY DEF Rest, P2Rest, P2Left
<1>. QED BY <1>5, <1>6, <1>7, <1>8, <1>9, BecomesTurns

LEMMA CcRates ==
  ASSUME CallInv, CallInv', RatesInv, NEW s \in Sides, CcScan(s) \/ CcDone(s)
  PROVE  RatesHold
<1>1. CASE CcScan(s)
  BY <1>1, PassRates DEF CcScan
<1>2. CASE CcDone(s)
  BY <1>2, PassRates DEF CcDone
<1>. QED BY <1>1, <1>2

(* A start-up that fails.                                                   *)
LEMMA FailedTurns ==
  ASSUME NEW s \in Sides, NEW a, NEW e, EndOk(s, a), NEW told, NEW m, NEW live,
         Moves(s, a, e, told), Turns(s, a, e, m, live), e.ss.st # "IDLE"
  PROVE  LET f == [e EXCEPT !.ss = report_v34(@, FALSE)] IN
         /\ Moves(s, a, f, told) /\ Turns(s, a, f, m, live)
         /\ Moves(s, a, on_startup(f, FALSE), told) /\ Turns(s, a, on_startup(f, FALSE), m, live)
<1>1. PICK no : no = FALSE
  OBVIOUS
<1>2. PICK x, f : x = report_v34(e.ss, no) /\ f = [e EXCEPT !.ss = x]
  OBVIOUS
<1>3. EndOk(s, e) /\ EndKept(s, e) /\ no \in BOOLEAN /\ ~no
  BY <1>1, MovesOk DEF Turns
<1>4. Moves(s, e, f, told) /\ EndOk(s, f)
  <2>1. Onward(e.ss, x)
    BY <1>1, <1>2, <1>3, EndIs, Report1
  <2>. QED BY <1>2, <1>3, <2>1, SessionOnly, MovesOk
<1>5. Turns(s, e, f, m, live) /\ EndKept(s, f)
  <2>1. Turns(s, e, f, m, live)
    BY <1>2, <1>3, ReportTurns
  <2>. QED BY <2>1 DEF Turns
<1>6. Moves(s, a, f, told) /\ Turns(s, a, f, m, live)
  BY <1>4, <1>5, BothMove
<1>7. PICK g : g = on_startup(f, no)
  OBVIOUS
<1>8. Moves(s, f, g, told) /\ Turns(s, f, g, m, live)
  BY <1>3, <1>4, <1>5, <1>7, StartupMoves, StartupTurns
<1>9. Moves(s, a, g, told) /\ Turns(s, a, g, m, live)
  BY <1>6, <1>8, BothMove
<1>10. [e EXCEPT !.ss = report_v34(@, FALSE)] = f
  BY <1>1, <1>2
<1>. QED BY <1>1, <1>6, <1>7, <1>9, <1>10

LEMMA DeadlineRates ==
  ASSUME CallInv, CallInv', RatesInv, NEW s \in Sides, Deadline(s)
  PROVE  RatesHold
<1>1. PICK e, f : e = [End(s) EXCEPT !.ss = report_v34(@, FALSE)] /\ f = on_startup(e, FALSE)
  OBVIOUS
<1>2. (Becomes(s, e) \/ Becomes(s, f)) /\ Rest /\ ss[s].st # "IDLE"
  BY <1>1 DEF Deadline
<1>3. Moves(s, End(s), End(s), Told(s)) /\ Turns(s, End(s), End(s), Announced(s), Live(s))
  BY KeptNow, MovesSelf, TurnsSelf
<1>4. /\ Moves(s, End(s), e, Told(s)) /\ Turns(s, End(s), e, Announced(s), Live(s))
      /\ Moves(s, End(s), f, Told(s)) /\ Turns(s, End(s), f, Announced(s), Live(s))
  BY <1>1, <1>2, <1>3, KeptNow, FailedTurns
<1>5. P2Left(s) /\ Other
  BY <1>2 DEF Rest, P2Rest, P2Left
<1>. QED BY <1>2, <1>4, <1>5, BecomesTurns

LEMMA TrnDoneRates ==
  ASSUME CallInv, CallInv', RatesInv, NEW s \in Sides, TrnDone(s)
  PROVE  RatesHold
<1>1. PICK x, e : x = gate_shut(ss[s]) /\ e = [End(s) EXCEPT !.ss = x]
  OBVIOUS
<1>2. PICK f, o : f = [e EXCEPT !.ss = report_v34(@, FALSE)] /\ o = on_startup(f, FALSE)
  OBVIOUS
<1>3. ss[s].st = "A_TRN_WAIT" /\ Rest
  BY DEF TrnDone
<1>4. \/ \E n \in rate_mask[point[s].srate] : Becomes(s, train(e, n))
      \/ Becomes(s, f) \/ Becomes(s, o)
  <2>1. [End(s) EXCEPT !.ss = gate_shut(@)] = e
    BY <1>1, KeptNow
  <2>. QED BY <1>2, <2>1 DEF TrnDone
<1>5. Onward(ss[s], x) /\ Still(ss[s], x)
  BY <1>1, KeptNow, GateShut1, ShutStill
<1>6. /\ Moves(s, End(s), e, Told(s)) /\ Turns(s, End(s), e, Announced(s), Live(s))
      /\ EndOk(s, e) /\ EndKept(s, e) /\ e.pt = point[s] /\ e.ss.st = "A_TRN_WAIT"
  <2>1. x.st = "A_TRN_WAIT"
    BY <1>3, <1>5 DEF Still, Plain
  <2>. QED BY <1>1, <1>5, <2>1, StillThenTurns
<1>7. s = "A"
  <2>1. StartKept(s, End(s)) /\ End(s).ss = ss[s]
    BY KeptNow DEF EndKept
  <2>. QED BY <1>3, <2>1 DEF StartKept, Sides
<1>8. P2Left(s) /\ Other
  BY <1>3 DEF Rest, P2Rest, P2Left
<1>9. CASE \E n \in rate_mask[point[s].srate] : Becomes(s, train(e, n))
  <2>1. PICK n \in rate_mask[e.pt.srate] : Becomes(s, train(e, n))
    BY <1>6, <1>9
  <2>2. PICK g : g = train(e, n)
    OBVIOUS
  <2>3. Moves(s, e, g, Told(s)) /\ Turns(s, e, g, Announced(s), Live(s))
    BY <1>6, <1>7, <2>2, TrainMoves, TrainTurns
  <2>4. Moves(s, End(s), g, Told(s)) /\ Turns(s, End(s), g, Announced(s), Live(s))
    BY <1>6, <2>3, KeptNow, BothMove
  <2>. QED BY <1>8, <2>1, <2>2, <2>4, BecomesTurns
<1>10. CASE Becomes(s, f) \/ Becomes(s, o)
  <2>1. /\ Moves(s, End(s), f, Told(s)) /\ Turns(s, End(s), f, Announced(s), Live(s))
        /\ Moves(s, End(s), o, Told(s)) /\ Turns(s, End(s), o, Announced(s), Live(s))
    BY <1>2, <1>6, KeptNow, FailedTurns
  <2>. QED BY <1>8, <1>10, <2>1, BecomesTurns
<1>. QED BY <1>4, <1>9, <1>10

LEMMA PriDoneRates ==
  ASSUME CallInv, CallInv', RatesInv, NEW s \in Sides, PriDone(s)
  PROVE  RatesHold
<1>1. On(s) /\ RxMode(s) = "PRI" /\ Other /\ UNCHANGED p2_roll /\ ss[s].gate # "" /\ Live(s)
  BY DEF PriDone, CarrierGone, Live
<1>2. s = "A" /\ ss[s].st \notin {"IDLE", "A_TRN_WAIT"}
  BY <1>1, PriListens, ScansTrained
<1>3. PICK x1, x2, e : /\ x1 = gate_shut(ss[s]) /\ x2 = [x1 EXCEPT !.pri_skip = FALSE]
                       /\ e = [End(s) EXCEPT !.ss = x2]
  OBVIOUS
<1>4. e = [End(s) EXCEPT !.ss = [gate_shut(@) EXCEPT !.pri_skip = FALSE]]
  BY <1>3, EndFacts
<1>5. Onward(ss[s], x2) /\ Still(ss[s], x2)
  <2>1. Onward(ss[s], x1) /\ Still(ss[s], x1) /\ x1 \in Sessions
    BY <1>3, KeptNow, GateShut1, ShutStill DEF Onward
  <2>2. Onward(x1, x2) /\ Still(x1, x2)
    BY <1>3, <2>1, Set1, AlikeOnward, FieldStill
  <2>. QED BY <2>1, <2>2, OnwardOnward, StillStill
<1>6. /\ Moves(s, End(s), e, Told(s)) /\ Turns(s, End(s), e, Announced(s), Live(s))
      /\ EndOk(s, e) /\ EndKept(s, e) /\ e.ss.st = ss[s].st
  <2>1. x2.st = ss[s].st
    BY <1>5 DEF Still, Plain
  <2>2. /\ Moves(s, End(s), e, Told(s)) /\ Turns(s, End(s), e, Announced(s), Live(s))
        /\ EndOk(s, e) /\ EndKept(s, e) /\ e.ss = x2
    <3>1. e = [End(s) EXCEPT !.ss = x2]
      BY <1>3
    <3>. QED BY <1>5, <3>1, StillThenTurns
  <2>. QED BY <2>1, <2>2
<1>7. ASSUME NEW f, Becomes(s, f), Moves(s, e, f, Told(s)),
             Turns(s, e, f, Announced(s), Live(s)),
             UNCHANGED <<p2_state, p2_info_seen>> \/ p2_init(s)
      PROVE  RatesHold
  <2>1. P2Left(s)
    BY <1>1, <1>2, <1>7 DEF P2Left
  <2>2. Moves(s, End(s), f, Told(s)) /\ Turns(s, End(s), f, Announced(s), Live(s))
    BY <1>6, <1>7, KeptNow, BothMove
  <2>. QED BY <1>1, <1>7, <2>1, <2>2, BecomesTurns
<1>8. CASE Becomes(s, e) /\ UNCHANGED <<p2_state, p2_info_seen>>
  BY <1>6, <1>7, <1>8, MovesSelf, TurnsSelf
<1>9. ASSUME NEW f, Becomes(s, on_carrier_down(f)), Moves(s, e, f, Told(s)),
             Turns(s, e, f, Announced(s), Live(s)),
             IF f.ss.in_retrain THEN p2_init(s) ELSE UNCHANGED <<p2_state, p2_info_seen>>
      PROVE  RatesHold
  <2>1. PICK g : g = on_carrier_down(f)
    OBVIOUS
  <2>2. EndOk(s, f) /\ EndKept(s, f)
    BY <1>9, MovesOk DEF Turns
  <2>3. Moves(s, f, g, Told(s)) /\ Turns(s, f, g, Announced(s), Live(s))
    BY <2>1, <2>2, CarrierDownMoves, CarrierDownTurns
  <2>4. Moves(s, e, g, Told(s)) /\ Turns(s, e, g, Announced(s), Live(s))
    BY <1>6, <1>9, <2>3, BothMove
  <2>. QED BY <1>7, <1>9, <2>1, <2>4
<1>10. PICK c : c = [e EXCEPT !.ss.floor_hard_fails = 0, !.t.missing = FALSE]
  OBVIOUS
<1>11. Moves(s, e, c, Told(s)) /\ Turns(s, e, c, Announced(s), Live(s))
  BY <1>2, <1>6, <1>10, CleanBurst, CleanTurns
<1>12. PICK rates : rates = IF fallbacks(e) = {} THEN {0} ELSE fallbacks(e)
  OBVIOUS
<1>13. \A n \in rates : n \in Nat /\ (n > 0 => n \in fallbacks(e))
  <2>1. fallbacks(e) \subseteq 1..14
    BY <1>6, EndIs, PointFacts, RateFacts DEF fallbacks
  <2>2. \A n \in 1..14 : n \in Nat
    BY SMT
  <2>3. \A n \in {0} : n \in Nat /\ ~(n > 0)
    BY SMT
  <2>. QED BY <1>12, <2>1, <2>2, <2>3, Zenon
<1>14. \A n \in rates, hard \in BOOLEAN :
         /\ Moves(s, e, judge_burst(e, hard, n), Told(s))
         /\ Turns(s, e, judge_burst(e, hard, n), Announced(s), Live(s))
  <2>1. \A n \in rates, hard \in BOOLEAN : Moves(s, e, judge_burst(e, hard, n), Told(s))
    BY <1>2, <1>6, <1>13, JudgeMoves
  <2>2. \A n \in rates, hard \in BOOLEAN :
          Turns(s, e, judge_burst(e, hard, n), Announced(s), Live(s))
    BY <1>1, <1>2, <1>6, <1>13, JudgeTurns
  <2>. QED BY <2>1, <2>2
<1>. DEFINE Goes(f) ==
       /\ Becomes(s, on_carrier_down(f))
       /\ IF f.ss.in_retrain THEN p2_init(s) ELSE UNCHANGED <<p2_state, p2_info_seen>>
<1>15. \/ Becomes(s, e) /\ UNCHANGED <<p2_state, p2_info_seen>>
       \/ Goes(c) \/ \E n \in rates : Goes(judge_burst(e, FALSE, n))
       \/ \E n \in rates : Goes(judge_burst(e, TRUE, n))
  BY <1>4, <1>10, <1>12, Zenon DEF PriDone
<1>16. CASE Goes(c)
  BY <1>9, <1>11, <1>16
<1>17. CASE \E n \in rates : Goes(judge_burst(e, FALSE, n))
  BY <1>9, <1>14, <1>17
<1>18. CASE \E n \in rates : Goes(judge_burst(e, TRUE, n))
  BY <1>9, <1>14, <1>18
<1>. QED BY <1>8, <1>15, <1>16, <1>17, <1>18

-----------------------------------------------------------------------------
(* The steps before the control channel change no rate.                      *)
Quiet ==
  \A q \in Sides :
    /\ ss'[q].rate_cur = ss[q].rate_cur /\ ss'[q].remote_max = ss[q].remote_max
    /\ ss'[q].last_adv = ss[q].last_adv /\ ss'[q].win_mph \in {0, ss[q].win_mph}
    /\ ss'[q].pcm = ss[q].pcm /\ ss'[q].gate = ss[q].gate

LEMMA QuietFixed ==
  ASSUME RatesInv, Quiet, point'["C"] = point["C"], Past2 => Past2'
  PROVE  FixedInv'
<1>1. FixedInv
  BY DEF RatesInv
<1>2. "A" \in Sides /\ "C" \in Sides
  BY DEF Sides
<1>3. /\ ss'["C"].last_adv = ss["C"].last_adv /\ ss'["C"].rate_cur = ss["C"].rate_cur
      /\ ss'["A"].remote_max = ss["A"].remote_max /\ ss'["A"].win_mph \in {0, ss["A"].win_mph}
  BY <1>2 DEF Quiet
<1>4. PICK adv, rem, win, win2, cap : /\ adv = ss["C"].last_adv /\ rem = ss["A"].remote_max
                                      /\ win = ss["A"].win_mph /\ win2 = ss'["A"].win_mph
                                      /\ cap = point["C"].local_max
  OBVIOUS
<1>5. /\ adv \in {0, cap} /\ rem \in {0, cap} /\ win2 \in {0, cap}
      /\ ~Past2 => /\ cap = top_rate(Srate0) /\ adv = 0 /\ rem = 0 /\ win2 = 0
                   /\ ss["C"].rate_cur = 0
  BY <1>1, <1>3, <1>4 DEF FixedInv
<1>. QED BY <1>1, <1>3, <1>4, <1>5 DEF FixedInv

LEMMA QuietRates ==
  ASSUME CallInv, CallInv', RatesInv, Quiet, \A q \in Sides : EndKept(q, End(q))',
         point'["A"].local_max <= point["A"].local_max, FixedInv', ProbedInv'
  PROVE  RatesHold
<1>1. "A" \in Sides /\ "C" \in Sides
  BY DEF Sides
<1>2. HeardInv'
  <2>1. PICK cap, low, adv, win, win2, rem :
          /\ cap = point["A"].local_max /\ low = point'["A"].local_max
          /\ adv = ss["A"].last_adv /\ win = ss["C"].win_mph /\ win2 = ss'["C"].win_mph
          /\ rem = ss["C"].remote_max
    OBVIOUS
  <2>2. /\ ss'["A"].last_adv = adv /\ ss'["C"].remote_max = rem /\ win2 \in {0, win}
    BY <1>1, <2>1 DEF Quiet
  <2>3. /\ cap \in 1..14 /\ low \in 1..14 /\ adv \in Rates /\ win \in Rates /\ win2 \in Rates
        /\ rem \in Rates
    BY <1>1, <2>1, RateTypes, RateTypesNext
  <2>4. Hearable(cap, adv, win, rem)
    BY <2>1 DEF RatesInv, HeardInv
  <2>5. Hearable(low, adv, win2, rem)
    <3>1. low <= cap
      BY <2>1
    <3>2. win2 \in {0, adv} \/ (win2 = win /\ adv \in {0, adv})
      BY <2>2
    <3>. QED BY <2>3, <2>4, <3>1, <3>2, HearFalls
  <2>. QED BY <2>1, <2>2, <2>5 DEF HeardInv
<1>3. RatesFall
  <2>1. \A q \in Sides : ss[q].rate_cur \in Rates /\ ss'[q].rate_cur = ss[q].rate_cur
    BY RateTypes DEF Quiet
  <2>. QED BY <2>1, SMT DEF RatesFall, Rates
<1>4. BurstStart
  BY <1>1 DEF BurstStart, Quiet
<1>. QED BY <1>2, <1>3, <1>4 DEF RatesHold, RatesInv

(* The sessions and the operating points stay as they are.                   *)
LEMMA QuietSessions ==
  ASSUME UNCHANGED ss
  PROVE  Quiet
  BY DEF Quiet

LEMMA ClassicStepRates ==
  ASSUME CallInv, CallInv', RatesInv, ClassicStep
  PROVE  RatesHold
<1>1. UNCHANGED <<arriving, p2_state, point, ss>>
  BY DEF ClassicStep, p2Vars
<1>2. DOMAIN t30 = Sides /\ "A" \in Sides /\ "C" \in Sides
  BY DEF CallInv, TypeInv, EndsInv, Sides
<1>3. \A q \in Sides : t30'[q].sub = t30[q].sub
                       \/ (t30[q].sub # "A_WAIT_V34" /\ t30[q].sub # "DONE")
  <2>1. \/ t30["A"].sub \in {"A_SEND_CED", "A_CLASSIC_DIS"} /\ t30'["C"] = t30["C"]
        \/ t30["C"].sub = "C_WAIT_DIS" /\ t30'["A"] = t30["A"]
    <3>1. \/ t30["A"].sub = "A_SEND_CED" /\ t30' = [t30 EXCEPT !["A"].sub = "A_CLASSIC_DIS"]
          \/ t30["C"].sub = "C_WAIT_DIS" /\ t30' = [t30 EXCEPT !["C"].sub = "PHASE_B"]
          \/ t30["A"].sub = "A_CLASSIC_DIS" /\ t30' = [t30 EXCEPT !["A"].sub = "PHASE_B"]
          \/ /\ t30["A"].sub = "A_CLASSIC_DIS"
             /\ t30' = [t30 EXCEPT !["A"].sub = "DONE", !["A"].result = "ERR"]
      BY Zenon DEF ClassicStep
    <3>2. CASE t30["A"].sub = "A_SEND_CED" /\ t30' = [t30 EXCEPT !["A"].sub = "A_CLASSIC_DIS"]
      BY <1>2, <3>2
    <3>3. CASE t30["C"].sub = "C_WAIT_DIS" /\ t30' = [t30 EXCEPT !["C"].sub = "PHASE_B"]
      BY <1>2, <3>3
    <3>4. CASE t30["A"].sub = "A_CLASSIC_DIS" /\ t30' = [t30 EXCEPT !["A"].sub = "PHASE_B"]
      BY <1>2, <3>4
    <3>5. CASE /\ t30["A"].sub = "A_CLASSIC_DIS"
               /\ t30' = [t30 EXCEPT !["A"].sub = "DONE", !["A"].result = "ERR"]
      BY <1>2, <3>5
    <3>. QED BY <3>1, <3>2, <3>3, <3>4, <3>5, Zenon
  <2>. QED BY <1>2, <2>1 DEF Sides
<1>4. \A q \in Sides : EndKept(q, End(q))'
  <2>1. ASSUME NEW q \in Sides
        PROVE  EndKept(q, [ss |-> ss'[q], pt |-> point'[q], t |-> t30'[q]])
    <3>1. PICK b : b = [ss |-> ss'[q], pt |-> point'[q], t |-> t30'[q]]
      OBVIOUS
    <3>2. /\ b.ss = ss[q] /\ b.pt = point[q] /\ b.t = t30'[q]
      BY <1>1, <3>1
    <3>3. Plain(End(q).ss, b.ss) /\ b.pt = End(q).pt
      BY <3>2, KeptNow DEF Plain
    <3>4. \/ End(q).t.sub # "A_WAIT_V34" \/ End(q).ss.done
          \/ b.t.sub = End(q).t.sub /\ b.ss.rx_mode = End(q).ss.rx_mode
      BY <1>3, <3>2, KeptNow
    <3>5. EndKept(q, b)
      BY <3>3, <3>4, KeptNow, KeptPlain
    <3>. QED BY <3>1, <3>5
  <2>. QED BY <2>1 DEF End, EndKept, RateKept, StartKept, Starting
<1>5. Past2 => Past2'
  BY <1>1, <1>2, <1>3 DEF Past2, Settled2
<1>6. ProbedInv'
  <2>1. ProbedInv
    BY DEF RatesInv
  <2>2. t30["A"].sub = "DONE" => t30'["A"].sub = "DONE"
    BY <1>2, <1>3
  <2>. QED BY <1>1, <1>5, <2>1, <2>2 DEF ProbedInv
<1>7. point'["A"].local_max <= point["A"].local_max
  <2>1. PICK n : n = point["A"].local_max
    OBVIOUS
  <2>2. n \in 1..14
    BY <1>2, <2>1, RateTypes
  <2>. QED BY <1>1, <2>1, <2>2, SMT
<1>8. Quiet /\ FixedInv'
  BY <1>1, <1>5, QuietSessions, QuietFixed
<1>. QED BY <1>4, <1>6, <1>7, <1>8, QuietRates

LEMMA EndsUnchanged ==
  ASSUME RatesInv, UNCHANGED <<ss, point, t30>>
  PROVE  /\ \A q \in Sides : EndKept(q, End(q))'
         /\ Quiet
<1>1. \A q \in Sides : EndKept(q, End(q))
  BY DEF RatesInv
<1>2. \A q \in Sides : EndKept(q, End(q))'
  BY <1>1 DEF End, EndKept, RateKept, StartKept, Starting
<1>. QED BY <1>2, QuietSessions

LEMMA SameCap ==
  ASSUME CallInv, NEW s \in Sides
  PROVE  point[s].local_max <= point[s].local_max
<1>1. PICK n : n = point[s].local_max
  OBVIOUS
<1>2. n \in 1..14
  BY <1>1, RateTypes
<1>. QED BY <1>1, <1>2, SMT

LEMMA LineCarriesRates ==
  ASSUME CallInv, CallInv', RatesInv, NEW s \in Sides, LineCarries(s)
  PROVE  RatesHold
<1>1. PICK sig : sig = Emits(s)
  OBVIOUS
<1>2. arriving' = [arriving EXCEPT ![s] = sig] /\ UNCHANGED <<p2_state, point, ss, t30>>
  BY <1>1 DEF LineCarries, Carry, sessVars
<1>3. DOMAIN arriving = Sides /\ "A" \in Sides /\ "C" \in Sides
  BY DEF CallInv, TypeInv, LineInv, Sides
<1>4. Past2' = Past2
  BY <1>2 DEF Past2, Settled2
<1>5. ProbedInv'
  <2>1. ProbedInv
    BY DEF RatesInv
  <2>2. Past2 /\ arriving["C"].sig = "SILENCE" => arriving'["C"].sig = "SILENCE"
    <3>1. CASE s = "A"
      BY <1>2, <1>3, <3>1
    <3>2. CASE s = "C"
      <4>1. Past2 => sig.sig = "SILENCE"
        <5>1. Settled2 => sig.sig = "SILENCE"
          BY <1>1, <3>2, EmitsFacts
        <5>2. t30["C"].sub = "DONE" => sig.sig = "SILENCE"
          BY <1>1, <3>2, SignalIs DEF Emits
        <5>. QED BY <5>1, <5>2 DEF Past2
      <4>. QED BY <1>2, <1>3, <3>2, <4>1
    <3>. QED BY <3>1, <3>2 DEF Sides
  <2>. QED BY <1>2, <1>4, <2>1, <2>2 DEF ProbedInv
<1>6. (\A q \in Sides : EndKept(q, End(q))') /\ Quiet
  BY <1>2, EndsUnchanged
<1>7. point'["A"].local_max <= point["A"].local_max
  BY <1>2, <1>3, SameCap
<1>8. FixedInv'
  BY <1>2, <1>4, <1>6, QuietFixed
<1>. QED BY <1>5, <1>6, <1>7, <1>8, QuietRates

-----------------------------------------------------------------------------
(* Phase 2. What it leaves of the session of the end that steps.             *)
Finished(r, x, st) ==
  /\ x.st = st /\ x.done = r.done /\ x.in_retrain = r.in_retrain /\ x.rx_mode = r.rx_mode
  /\ x.rate_cur = r.rate_cur /\ x.remote_max = r.remote_max /\ x.last_adv = r.last_adv
  /\ x.win_mph \in {0, r.win_mph} /\ x.gate = r.gate /\ x.pcm = r.pcm

LEMMA FinishedIs ==
  ASSUME NEW r \in Sessions, NEW st
  PROVE  Finished(r, SetSt(regate(r), st), st)
<1>1. PICK y, x : y = regate(r) /\ x = SetSt(y, st)
  OBVIOUS
<1>2. y \in Sessions /\ y.gate = r.gate
  <2>1. y \in Sessions
    BY <1>1, GateShut1 DEF Onward
  <2>2. y.gate = r.gate
    BY <1>1 DEF regate, gate_opens, Sessions
  <2>. QED BY <2>1, <2>2
<1>3. Still(r, y) /\ y.pcm = r.pcm
  <2>1. Still(r, y)
    BY <1>1, ShutStill
  <2>2. y.pcm = r.pcm
    BY <1>1 DEF regate, gate_opens, Sessions
  <2>. QED BY <2>1, <2>2
<1>4. Finished(y, x, st)
  BY <1>1, <1>2 DEF Finished, SetSt, Sessions
<1>5. Finished(r, x, st)
  BY <1>2, <1>3, <1>4, Zenon DEF Finished, Still, Plain
<1>. QED BY <1>1, <1>5

LEMMA P2Sessions2 ==
  ASSUME CallInv, NEW s \in Sides, P2Steps(s), P2Sessions
  PROVE  /\ ss'[Peer(s)] = ss[Peer(s)] /\ Quiet
         /\ \/ ss'[s] = ss[s] /\ (p2_state'[s] # "OFF" \/ ss[s].done)
            \/ /\ Finished(ss[s], ss'[s], IF s = "C" THEN "C_PHASE3_Q" ELSE "A_TRN_WAIT")
               /\ p2_state'[s] = "OFF" /\ ~ss[s].done
<1>1. ~Phase2Ends(Peer(s)) /\ Peer(s) \in Sides /\ Sides = {s, Peer(s)}
  BY PeerFacts DEF P2Steps, Phase2Ends
<1>2. ss'[Peer(s)] = ss[Peer(s)]
  BY <1>1 DEF P2Sessions
<1>3. PICK st, x : st = (IF s = "C" THEN "C_PHASE3_Q" ELSE "A_TRN_WAIT")
                   /\ x = SetSt(regate(ss[s]), st)
  OBVIOUS
<1>4. ss'[s] = IF ~Phase2Ends(s) \/ ss[s].done THEN ss[s] ELSE x
  BY <1>3 DEF P2Sessions, SetSt
<1>5. Finished(ss[s], x, st)
  BY <1>3, EndFacts, FinishedIs
<1>6. Phase2Ends(s) <=> p2_state'[s] = "OFF"
  BY DEF P2Steps, Phase2Ends
<1>7. \/ ss'[s] = ss[s] /\ (p2_state'[s] # "OFF" \/ ss[s].done)
      \/ Finished(ss[s], ss'[s], st) /\ p2_state'[s] = "OFF" /\ ~ss[s].done
  BY <1>4, <1>5, <1>6
<1>8. Quiet
  <2>1. \A q \in Sides : ss'[q] = ss[q] \/ Finished(ss[q], ss'[q], st)
    BY <1>1, <1>2, <1>7
  <2>. QED BY <2>1, Zenon DEF Quiet, Finished
<1>. QED BY <1>2, <1>3, <1>7, <1>8

(* The caller adopts a symbol rate whose floor its cap reaches.              *)
LEMMA AdoptedFloor ==
  ASSUME CallInv, AdoptInfoh, point["C"].local_max = top_rate(Srate0)
  PROVE  floor_rate(point'["C"].srate) <= point'["C"].local_max
<1>1. PICK sr, a, b, n : /\ sr = p2_roll["C"].srate /\ a = point["C"].local_max
                         /\ b = top_rate(sr) /\ n = Lower(a, b)
  OBVIOUS
<1>2. point' = [point EXCEPT !["C"] = [srate |-> sr, local_max |-> n]] /\ p2_roll["C"].sig = "INFOH"
  BY <1>1 DEF AdoptInfoh
<1>3. sr \in Srates
  BY <1>1, <1>2 DEF CallInv, TypeInv, LineInv
<1>4. floor_rate(sr) <= a /\ floor_rate(sr) <= b
  BY <1>1, <1>3, FloorInStart, FloorIs, RateFacts
<1>5. n = a \/ n = b
  BY <1>1 DEF Lower
<1>6. point'["C"] = [srate |-> sr, local_max |-> n]
  BY <1>2, ModeFacts DEF CallInv, TypeInv, EndsInv
<1>. QED BY <1>4, <1>5, <1>6

LEMMA CallerPhase2Rates ==
  ASSUME CallInv, CallInv', RatesInv, C_Phase2, t30["C"].sub # "DONE", P2Lines, P2Sessions,
         UNCHANGED t30
  PROVE  RatesHold
<1>1. P2Inv /\ PointInv /\ FixedInv /\ ProbedInv /\ "A" \in Sides /\ "C" \in Sides
  BY DEF RatesInv, CallInv, TypeInv, Sides
<1>2. P2Steps("C") /\ ((p2_state'["C"] # "OFF" /\ UNCHANGED point)
                       \/ (p2_state'["C"] = "OFF" /\ AdoptInfoh))
  BY <1>1, CallerPhase2
<1>3. ~Past2
  BY <1>2 DEF Past2, Settled2, P2Steps
<1>4. ss'["A"] = ss["A"] /\ Quiet
      /\ (ss'["C"].st = ss["C"].st \/ ss'["C"].st = "C_PHASE3_Q")
  <2>1. Peer("C") = "A"
    BY DEF Peer
  <2>2. ss'["A"] = ss["A"] /\ Quiet
        /\ (ss'["C"] = ss["C"] \/ Finished(ss["C"], ss'["C"], "C_PHASE3_Q"))
    BY <1>1, <1>2, <2>1, P2Sessions2
  <2>. QED BY <2>2 DEF Finished
<1>5. point'["A"] = point["A"] /\ p2_state'["A"] = p2_state["A"]
  BY <1>2, AdoptPoint DEF P2Steps, Peer
<1>6. /\ point["C"].local_max = top_rate(Srate0) /\ ss["C"].rate_cur = 0
      /\ ss["C"].last_adv = 0 /\ ss["A"].remote_max = 0 /\ ss["A"].win_mph = 0
      /\ floor_rate(point["C"].srate) <= point["C"].local_max
  BY <1>1, <1>3 DEF FixedInv
<1>7. ASSUME NEW q \in Sides PROVE EndKept(q, End(q))'
  <2>1. EndKept(q, End(q)) /\ End(q).ss = ss[q] /\ End(q).pt = point[q] /\ End(q).t = t30[q]
    BY KeptNow
  <2>2. PICK b : b = [ss |-> ss'[q], pt |-> point'[q], t |-> t30[q]]
    OBVIOUS
  <2>3. b.ss = ss'[q] /\ b.pt = point'[q] /\ b.t = t30[q]
    BY <2>2
  <2>4. EndKept(q, b)
    <3>1. CASE q = "A"
      <4>1. b.ss = End(q).ss /\ b.pt = End(q).pt /\ b.t = End(q).t
        BY <1>4, <1>5, <2>1, <2>3, <3>1
      <4>. QED BY <2>1, <4>1, Zenon DEF EndKept, RateKept, StartKept
    <3>2. CASE q = "C"
      <4>1. b.ss.rate_cur = 0 /\ (b.ss.st = ss["C"].st \/ b.ss.st = "C_PHASE3_Q")
        BY <1>1, <1>4, <1>6, <2>3, <3>2 DEF Quiet
      <4>2. ~(0 > 0)
        BY SMT
      <4>3. ss["C"].st # "DONE" /\ ss["C"].st # "A_TRN_WAIT"
        BY <1>6, <2>1, <3>2, <4>2 DEF EndKept, RateKept, StartKept
      <4>4. RateKept(b)
        BY <4>1, <4>2, <4>3 DEF RateKept
      <4>5. StartKept(q, b)
        BY <3>2, <4>1, <4>3 DEF StartKept
      <4>. QED BY <4>4, <4>5 DEF EndKept
    <3>. QED BY <3>1, <3>2 DEF Sides
  <2>5. EndKept(q, [ss |-> ss'[q], pt |-> point'[q], t |-> t30'[q]])
    BY <2>2, <2>4
  <2>. QED BY <2>5 DEF End, EndKept, RateKept, StartKept, Starting
<1>8. FixedInv'
  <2>1. /\ ss'["C"].last_adv = 0 /\ ss'["A"].remote_max = 0 /\ ss'["A"].win_mph = 0
        /\ ss'["C"].rate_cur = 0
    BY <1>1, <1>4, <1>6 DEF Quiet
  <2>2. floor_rate(point'["C"].srate) <= point'["C"].local_max
    BY <1>2, <1>6, AdoptedFloor
  <2>3. ~Past2' => point'["C"].local_max = top_rate(Srate0)
    <3>1. CASE UNCHANGED point
      BY <1>6, <3>1
    <3>2. CASE p2_state'["C"] = "OFF"
      <4>1. ss["C"].done \/ ss'["C"].st \notin Beginning
        BY <1>1, <1>2, <3>2, P2SessionsAre
      <4>2. ss["C"].done => ss["C"].st \notin Beginning
        BY <1>1, EndFacts DEF EndOk
      <4>3. ss'["C"].st \notin Beginning
        BY <1>4, <4>1, <4>2 DEF Beginning
      <4>. QED BY <3>2, <4>3 DEF Past2, Settled2, Beginning
    <3>. QED BY <1>2, <3>1, <3>2
  <2>. QED BY <2>1, <2>2, <2>3 DEF FixedInv
<1>9. ProbedInv'
  <2>1. ~(ss["A"].rate_cur > 0) /\ ~(ss["A"].gate # "")
    BY <1>1, <1>3 DEF ProbedInv
  <2>. QED BY <1>1, <1>4, <1>5, <2>1 DEF ProbedInv
<1>10. point'["A"].local_max <= point["A"].local_max
  BY <1>1, <1>5, SameCap
<1>. QED BY <1>4, <1>7, <1>8, <1>9, <1>10, QuietRates

LEMMA AnswererPhase2Rates ==
  ASSUME CallInv, CallInv', RatesInv, A_Phase2, t30["A"].sub # "DONE", P2Lines, P2Sessions,
         UNCHANGED t30
  PROVE  RatesHold
<1>1. P2Inv /\ FixedInv /\ ProbedInv /\ "A" \in Sides /\ "C" \in Sides
  BY DEF RatesInv, CallInv, TypeInv, Sides
<1>2. /\ P2Steps("A")
      /\ \/ /\ p2_state'["A"] # "OFF"
            /\ UNCHANGED point \/ (p2_state["A"] = "A_PROBE" /\ analyze_probe)
            /\ p2_state["A"] \in EarlyP2 => p2_state'["A"] \in EarlyP2 \/ PeerSends("A", "TONE")
         \/ p2_state["A"] = "A_INFOH" /\ p2_state'["A"] = "OFF" /\ UNCHANGED point
  BY <1>1, AnswererPhase2
<1>3. p2_state["A"] # "OFF" /\ p2_state'["C"] = p2_state["C"] /\ Peer("A") = "C"
  BY <1>2 DEF P2Steps, Peer
<1>4. /\ ss'["C"] = ss["C"] /\ Quiet
      /\ \/ ss'["A"] = ss["A"] /\ (p2_state'["A"] # "OFF" \/ ss["A"].done)
         \/ Finished(ss["A"], ss'["A"], "A_TRN_WAIT") /\ p2_state'["A"] = "OFF" /\ ~ss["A"].done
  BY <1>1, <1>2, <1>3, P2Sessions2
<1>5. arriving'["C"] = arriving["C"]
  BY <1>1, <1>2, <1>3, P2SessionsAre
<1>6. point'["C"] = point["C"] /\ point'["A"].local_max <= point["A"].local_max
      /\ (point'["A"] = point["A"] \/ p2_state["A"] = "A_PROBE")
  <2>1. CASE UNCHANGED point
    BY <1>1, <2>1, SameCap
  <2>2. CASE p2_state["A"] = "A_PROBE" /\ analyze_probe
    BY <2>2, ProbePoint
  <2>. QED BY <1>2, <2>1, <2>2
<1>7. Past2' = Past2
  BY <1>3, <1>4 DEF Past2, Settled2
<1>8. p2_state["A"] \in {"A_PROBE", "A_INFOH"} => ~(ss["A"].rate_cur > 0)
  BY <1>1 DEF ProbedInv, EarlyP2
<1>9. ss["A"].st # "IDLE"
  BY <1>1, <1>3 DEF ProbedInv
<1>10. ASSUME NEW q \in Sides PROVE EndKept(q, End(q))'
  <2>1. EndKept(q, End(q)) /\ End(q).ss = ss[q] /\ End(q).pt = point[q] /\ End(q).t = t30[q]
    BY KeptNow
  <2>2. PICK b : b = [ss |-> ss'[q], pt |-> point'[q], t |-> t30[q]]
    OBVIOUS
  <2>3. b.ss = ss'[q] /\ b.pt = point'[q] /\ b.t = t30[q]
    BY <2>2
  <2>4. EndKept(q, b)
    <3>1. CASE b.ss = End(q).ss /\ b.pt = End(q).pt
      <4>1. b.t = End(q).t
        BY <2>1, <2>3
      <4>. QED BY <2>1, <3>1, <4>1, Zenon DEF EndKept, RateKept, StartKept
    <3>2. CASE q = "A" /\ b.ss = End(q).ss /\ p2_state["A"] = "A_PROBE"
      <4>1. ~(b.ss.rate_cur > 0) /\ b.t = End(q).t
        BY <1>8, <2>1, <2>3, <3>2
      <4>2. RateKept(b)
        BY <2>1, <3>2, <4>1, Zenon DEF EndKept, RateKept
      <4>3. StartKept(q, b)
        BY <2>1, <3>2, <4>1, Zenon DEF EndKept, StartKept
      <4>. QED BY <4>2, <4>3 DEF EndKept
    <3>3. CASE q = "A" /\ Finished(ss["A"], ss'["A"], "A_TRN_WAIT") /\ ~ss["A"].done
               /\ p2_state'["A"] = "OFF"
      <4>1. p2_state["A"] = "A_INFOH"
        BY <1>2, <3>3
      <4>2. ~(ss["A"].rate_cur > 0) /\ ss["A"].rate_cur = 0
        <5>1. ss["A"].rate_cur \in Rates /\ ~(ss["A"].rate_cur > 0)
          BY <1>1, <1>8, <4>1, RateTypes
        <5>. QED BY <5>1, SMT DEF Rates
      <4>3. /\ b.ss.st = "A_TRN_WAIT" /\ ~b.ss.done /\ b.ss.in_retrain = ss["A"].in_retrain
            /\ b.ss.rx_mode = ss["A"].rx_mode /\ b.ss.rate_cur = 0 /\ ~(b.ss.rate_cur > 0)
        BY <2>3, <3>3, <4>2, Zenon DEF Finished
      <4>4. RateKept(b)
        BY <4>3 DEF RateKept
      <4>5. ~ss["A"].in_retrain => t30["A"].sub = "A_WAIT_V34" /\ ss["A"].rx_mode = "STARTUP"
        BY <1>9, <2>1, <3>3 DEF EndKept, StartKept, Starting
      <4>6. StartKept(q, b)
        BY <2>3, <3>3, <4>3, <4>5 DEF StartKept, Starting
      <4>. QED BY <4>4, <4>6 DEF EndKept
    <3>4. CASE q = "C"
      <4>1. b.ss = End(q).ss /\ b.pt = End(q).pt
        BY <1>4, <1>6, <2>1, <2>3, <3>4
      <4>. QED BY <3>1, <4>1
    <3>5. CASE q = "A" /\ ss'["A"] = ss["A"]
      <4>1. b.ss = End(q).ss
        BY <2>1, <2>3, <3>5
      <4>2. b.pt = End(q).pt \/ p2_state["A"] = "A_PROBE"
        BY <1>6, <2>1, <2>3, <3>5
      <4>. QED BY <3>1, <3>2, <3>5, <4>1, <4>2
    <3>. QED BY <1>4, <3>3, <3>4, <3>5 DEF Sides
  <2>5. EndKept(q, [ss |-> ss'[q], pt |-> point'[q], t |-> t30'[q]])
    BY <2>2, <2>4
  <2>. QED BY <2>5 DEF End, EndKept, RateKept, StartKept, Starting
<1>11. FixedInv'
  BY <1>4, <1>6, <1>7, QuietFixed
<1>12. ProbedInv'
  <2>1. ss'["A"].rate_cur = ss["A"].rate_cur /\ ss'["A"].gate = ss["A"].gate
    BY <1>1, <1>4 DEF Quiet
  <2>2. ss["A"].rate_cur > 0 => p2_state'["A"] \in {"OFF"} \cup EarlyP2
    <3>1. SUFFICES ASSUME ss["A"].rate_cur > 0 PROVE p2_state'["A"] \in {"OFF"} \cup EarlyP2
      OBVIOUS
    <3>2. p2_state["A"] \in EarlyP2 /\ arriving["C"].sig = "SILENCE"
      BY <1>1, <1>3, <3>1 DEF ProbedInv
    <3>3. ~PeerSends("A", "TONE")
      BY <1>3, <3>2 DEF PeerSends
    <3>. QED BY <1>2, <3>2, <3>3
  <2>3. p2_state'["A"] # "OFF" => ss'["A"].st # "IDLE"
    BY <1>4, <1>9
  <2>. QED BY <1>1, <1>5, <1>7, <2>1, <2>2, <2>3 DEF ProbedInv
<1>. QED BY <1>4, <1>6, <1>10, <1>11, <1>12, QuietRates

LEMMA Phase2StepRates ==
  ASSUME CallInv, CallInv', RatesInv, Phase2Step
  PROVE  RatesHold
<1>1. P2Lines /\ P2Sessions /\ UNCHANGED t30
  BY DEF Phase2Step, P2Lines, P2Sessions
<1>. QED BY <1>1, CallerPhase2Rates, AnswererPhase2Rates DEF Phase2Step

-----------------------------------------------------------------------------
(* V.8. T.30 begins a V.34 session with its result, or goes on without one; *)
(* an answerer without one has not begun another before.                    *)
ClassicInv == V8Runs("A") => ~t30["A"].v34

Begun(r, x) ==
  /\ x.st = "START" /\ x.rx_mode = "STARTUP" /\ x.done = r.done /\ x.in_retrain = r.in_retrain
  /\ x.rate_cur = r.rate_cur /\ x.remote_max = r.remote_max /\ x.last_adv = r.last_adv
  /\ x.win_mph = r.win_mph /\ x.gate = r.gate /\ x.pcm = r.pcm

LEMMA BegunIs ==
  ASSUME NEW r \in Sessions
  PROVE  Begun(r, V34Begins(r))
  BY DEF Begun, V34Begins, Sessions

LEMMA V34TurnIs ==
  ASSUME NEW s, NEW e, EndOk(s, e), NEW sub, NEW x
  PROVE  LET f == V34Turn(e, sub, x) IN f.ss = x /\ f.t.sub = sub
<1>1. PICK r, p, t, u, w : /\ r = e.ss /\ p = e.pt /\ t = e.t
                           /\ u = [t EXCEPT !.sub = sub] /\ w = [u EXCEPT !.v34 = TRUE]
  OBVIOUS
<1>2. e = [ss |-> r, pt |-> p, t |-> t] /\ t \in Engines
  BY <1>1, EndIs
<1>3. w.sub = sub
  <2>1. u.sub = sub
    BY <1>1, <1>2 DEF Engines
  <2>. QED BY <1>1, <2>1
<1>4. PICK g : g = [e EXCEPT !.t = u]
  OBVIOUS
<1>5. g = [ss |-> r, pt |-> p, t |-> u] /\ g.t = u
  BY <1>2, <1>4
<1>6. PICK h : h = [g EXCEPT !.t = w]
  OBVIOUS
<1>7. h = [ss |-> r, pt |-> p, t |-> w]
  BY <1>5, <1>6
<1>8. [h EXCEPT !.ss = x] = [ss |-> x, pt |-> p, t |-> w]
  BY <1>7
<1>9. g = [e EXCEPT !.t = [e.t EXCEPT !.sub = sub]] /\ h = [g EXCEPT !.t = [g.t EXCEPT !.v34 = TRUE]]
  BY <1>1, <1>4, <1>5, <1>6
<1>10. V34Turn(e, sub, x) = [h EXCEPT !.ss = x]
  BY <1>9, Zenon DEF V34Turn
<1>. QED BY <1>3, <1>8, <1>10

LEMMA OnV8Rates ==
  ASSUME NEW s \in Sides, NEW e, EndOk(s, e), NEW status, NEW mods
  PROVE  LET f == on_v8(e, s, status, mods) IN
         \/ f.ss = e.ss /\ f.t.v34 = e.t.v34
         \/ Begun(e.ss, f.ss) /\ (s = "A" => f.t.sub = "A_WAIT_V34")
<1>1. PICK r, p, t, f : r = e.ss /\ p = e.pt /\ t = e.t /\ f = on_v8(e, s, status, mods)
  OBVIOUS
<1>2. e = [ss |-> r, pt |-> p, t |-> t] /\ r \in Sessions /\ t \in Engines
  BY <1>1, EndIs
<1>3. CASE status = "V8_CALL" /\ "V34HDX" \in mods
  <2>1. PICK sub : sub = IF s = "C" THEN "C_WAIT_V34" ELSE "A_WAIT_V34"
    OBVIOUS
  <2>2. f = V34Turn(e, sub, V34Begins(r))
    <3>1. f = [e EXCEPT !.t.sub = (IF s = "C" THEN "C_WAIT_V34" ELSE "A_WAIT_V34"), !.t.v34 = TRUE,
                        !.ss = [@ EXCEPT !.st = "START", !.tx_mode = "STARTUP", !.rx_mode = "STARTUP"]]
      BY <1>1, <1>3, Zenon DEF on_v8
    <3>. QED BY <1>1, <2>1, <3>1 DEF V34Turn, V34Begins
  <2>3. f.ss = V34Begins(r) /\ f.t.sub = sub
    BY <2>2, V34TurnIs
  <2>4. Begun(r, f.ss)
    BY <1>2, <2>3, BegunIs
  <2>. QED BY <1>1, <2>1, <2>3, <2>4
<1>4. CASE ~(status = "V8_CALL" /\ "V34HDX" \in mods)
  <2>1. PICK sub : f = to(e, sub)
    <3>1. CASE s = "C"
      BY <1>1, <1>4, <3>1, Zenon DEF on_v8
    <3>2. CASE s = "A"
      BY <1>1, <1>4, <3>2, ModeFacts, Zenon DEF on_v8
    <3>. QED BY <3>1, <3>2, ModeFacts
  <2>2. PICK u : u = [t EXCEPT !.sub = sub]
    OBVIOUS
  <2>3. f = [ss |-> r, pt |-> p, t |-> u]
    BY <1>2, <2>1, <2>2, ToIs
  <2>4. u.v34 = t.v34
    BY <1>2, <2>2 DEF Engines
  <2>. QED BY <1>1, <2>3, <2>4
<1>. QED BY <1>3, <1>4

LEMMA V8StepRates ==
  ASSUME CallInv, CallInv', RatesInv, ClassicInv, V8Step
  PROVE  RatesHold
<1>1. /\ nf_v8_rx /\ (\A s \in Sides : v8'[s] # v8[s] => t30[s].sub # "DONE") /\ UNCHANGED point
  BY DEF V8Step
<1>2. V8Inv /\ P2Inv /\ ProbedInv /\ "A" \in Sides /\ "C" \in Sides
  BY DEF RatesInv, CallInv, TypeInv, Sides
<1>3. UNCHANGED arriving /\ \E q \in Sides : V8Advances(q)
  BY <1>1, <1>2, V8Cases, CallerV8Keeps, AnswererV8Keeps, ModeFacts
<1>4. PICK q \in Sides : V8Advances(q)
  BY <1>3
<1>5. \A s \in Sides : Reports(s) => s = q
  <2>1. ~Reports(Peer(q))
    BY <1>4 DEF V8Advances, Reports
  <2>. QED BY <2>1, PeerFacts
<1>6. point'["A"].local_max <= point["A"].local_max
  BY <1>1, <1>2, SameCap
<1>7. PICK s \in Sides :
        IF Reports(s)
          THEN LET e == on_v8(End(s), s, v8_status'[s], modulations[s]) IN
               /\ ss' = [ss EXCEPT ![s] = e.ss] /\ t30' = [t30 EXCEPT ![s] = e.t]
               /\ IF e.t.v34 THEN p2_init(s) ELSE UNCHANGED <<p2_state, p2_info_seen>>
          ELSE ~Reports(Peer(s)) /\ UNCHANGED <<ss, t30, p2_state, p2_info_seen>>
  BY DEF V8Step
<1>8. CASE ~Reports(s)
  <2>1. UNCHANGED <<ss, point, t30, p2_state>>
    BY <1>1, <1>7, <1>8
  <2>2. (\A i \in Sides : EndKept(i, End(i))') /\ Quiet
    BY <2>1, EndsUnchanged
  <2>3. Past2' = Past2
    BY <2>1 DEF Past2, Settled2
  <2>4. FixedInv' /\ ProbedInv'
    <3>1. FixedInv'
      BY <2>1, <2>2, <2>3, QuietFixed
    <3>. QED BY <1>2, <1>3, <2>1, <2>3, <3>1 DEF ProbedInv
  <2>. QED BY <1>6, <2>2, <2>4, QuietRates
<1>9. CASE Reports(s)
  <2>1. s = q /\ "A_SILENCE" \in EarlyP2
    BY <1>5, <1>9 DEF EarlyP2
  <2>2. PICK f : f = on_v8(End(q), q, v8_status'[q], modulations[q])
    OBVIOUS
  <2>3. /\ ss' = [ss EXCEPT ![q] = f.ss] /\ t30' = [t30 EXCEPT ![q] = f.t]
        /\ IF f.t.v34 THEN p2_init(q) ELSE UNCHANGED <<p2_state, p2_info_seen>>
    BY <1>7, <1>9, <2>1, <2>2
  <2>4. /\ V8Runs(q) /\ ss[q].st = "IDLE" /\ p2_state[q] = "OFF"
        /\ t30[q].sub \in {"C_WAIT_V8", "A_SEND_V8"}
    BY <1>1, <1>2, <1>4 DEF V8Advances, V8Inv
  <2>5. /\ EndOk(q, End(q)) /\ EndKept(q, End(q)) /\ End(q).ss = ss[q] /\ End(q).pt = point[q]
        /\ End(q).t = t30[q]
    BY KeptNow
  <2>6. \/ f.ss = ss[q] /\ f.t.v34 = t30[q].v34
        \/ Begun(ss[q], f.ss) /\ (q = "A" => f.t.sub = "A_WAIT_V34")
    BY <2>2, <2>5, OnV8Rates
  <2>7. DOMAIN ss = Sides /\ DOMAIN t30 = Sides
    BY DEF CallInv, TypeInv, EndsInv
  <2>8. /\ ss'[q] = f.ss /\ t30'[q] = f.t
        /\ ss'[Peer(q)] = ss[Peer(q)] /\ t30'[Peer(q)] = t30[Peer(q)]
    BY <2>3, <2>7, PeerFacts
  <2>9. Quiet
    <3>1. f.ss = ss[q] \/ Begun(ss[q], f.ss)
      BY <2>6
    <3>2. ASSUME NEW i \in Sides
          PROVE  /\ ss'[i].rate_cur = ss[i].rate_cur /\ ss'[i].remote_max = ss[i].remote_max
                 /\ ss'[i].last_adv = ss[i].last_adv /\ ss'[i].win_mph \in {0, ss[i].win_mph}
                 /\ ss'[i].pcm = ss[i].pcm /\ ss'[i].gate = ss[i].gate
      <4>1. CASE i = q
        BY <2>8, <3>1, <4>1 DEF Begun
      <4>2. CASE i = Peer(q)
        BY <2>8, <4>2
      <4>. QED BY <4>1, <4>2, PeerFacts
    <3>. QED BY <3>2 DEF Quiet
  <2>10. ASSUME NEW i \in Sides PROVE EndKept(i, End(i))'
    <3>1. PICK b : b = [ss |-> ss'[i], pt |-> point'[i], t |-> t30'[i]]
      OBVIOUS
    <3>2. b.ss = ss'[i] /\ b.pt = point[i] /\ b.t = t30'[i]
      BY <1>1, <3>1
    <3>3. EndKept(i, b)
      <4>1. EndKept(i, End(i)) /\ End(i).ss = ss[i] /\ End(i).pt = point[i] /\ End(i).t = t30[i]
        BY KeptNow
      <4>2. CASE b.ss = ss[i] /\ b.t = t30[i]
        BY <3>2, <4>1, <4>2, Zenon DEF EndKept, RateKept, StartKept
      <4>3. CASE i = q /\ f.ss = ss[q]
        <5>1. RateKept(b)
          BY <2>8, <3>2, <4>1, <4>3, Zenon DEF EndKept, RateKept
        <5>2. b.ss.st = "IDLE"
          BY <2>4, <2>8, <3>2, <4>3
        <5>3. StartKept(i, b)
          BY <5>2 DEF StartKept, Starting
        <5>. QED BY <5>1, <5>3 DEF EndKept
      <4>4. CASE i = q /\ Begun(ss[q], f.ss) /\ (q = "A" => f.t.sub = "A_WAIT_V34")
        <5>1. /\ b.ss.st = "START" /\ b.ss.rate_cur = ss[i].rate_cur
              /\ b.ss.remote_max = ss[i].remote_max /\ b.ss.rx_mode = "STARTUP"
          BY <2>8, <3>2, <4>4, Zenon DEF Begun
        <5>2. b.ss.st # "DONE" /\ b.ss.st # "A_TRN_WAIT"
          BY <5>1
        <5>3. RateKept(b)
          BY <3>2, <4>1, <5>1, <5>2, Zenon DEF EndKept, RateKept
        <5>4. StartKept(i, b)
          BY <2>8, <3>2, <4>4, <5>1, <5>2 DEF StartKept, Starting
        <5>. QED BY <5>3, <5>4 DEF EndKept
      <4>. QED BY <2>6, <2>8, <3>2, <4>2, <4>3, <4>4, PeerFacts
    <3>4. EndKept(i, [ss |-> ss'[i], pt |-> point'[i], t |-> t30'[i]])
      BY <3>1, <3>3
    <3>. QED BY <3>4 DEF End, EndKept, RateKept, StartKept, Starting
  <2>11. p2_state'[Peer(q)] = p2_state[Peer(q)]
         /\ (q = "A" => \/ p2_state'["A"] = "OFF" /\ ~f.t.v34
                        \/ p2_state'["A"] = "A_SILENCE" /\ f.t.v34)
    <3>1. CASE ~f.t.v34
      BY <2>3, <2>4, <3>1
    <3>2. CASE f.t.v34
      <4>1. PICK c : c = IF q = "C" THEN "C_SILENCE" ELSE "A_SILENCE"
        OBVIOUS
      <4>2. p2_state' = [p2_state EXCEPT ![q] = c]
        BY <2>3, <3>2, <4>1 DEF p2_init
      <4>3. DOMAIN p2_state = Sides
        BY <1>2 DEF P2Inv
      <4>. QED BY <3>2, <4>1, <4>2, <4>3, PeerFacts, ModeFacts
    <3>. QED BY <3>1, <3>2
  <2>12. Past2 => Past2'
    <3>1. CASE q = "C"
      BY <2>4, <3>1 DEF Past2, Settled2
    <3>2. CASE Peer(q) = "C"
      BY <2>8, <2>11, <3>2 DEF Past2, Settled2
    <3>. QED BY <1>2, <3>1, <3>2, PeerFacts
  <2>13. FixedInv'
    BY <1>1, <2>9, <2>12, QuietFixed
  <2>14. ProbedInv'
    <3>1. ss'["A"].rate_cur = ss["A"].rate_cur /\ ss'["A"].gate = ss["A"].gate
      BY <1>2, <2>9 DEF Quiet
    <3>2. CASE q = "A"
      <4>1. f.t.v34 => ss'["A"].st = "START"
        <5>1. ~t30["A"].v34
          BY <2>4, <3>2 DEF ClassicInv
        <5>. QED BY <2>6, <2>8, <3>2, <5>1 DEF Begun
      <4>. QED BY <1>2, <1>3, <2>1, <2>11, <2>12, <3>1, <3>2, <4>1 DEF ProbedInv
    <3>3. CASE Peer(q) = "A"
      <4>1. ss'["A"] = ss["A"] /\ t30'["A"] = t30["A"] /\ p2_state'["A"] = p2_state["A"]
        BY <2>8, <2>11, <3>3
      <4>. QED BY <1>2, <1>3, <2>12, <4>1 DEF ProbedInv
    <3>. QED BY <1>2, <3>2, <3>3, PeerFacts
  <2>. QED BY <1>6, <2>9, <2>10, <2>13, <2>14, QuietRates
<1>. QED BY <1>8, <1>9

(* Before the answerer's V.8 reports, nothing starts a V.34 session there.  *)
LEMMA V8StepClassic ==
  ASSUME CallInv, ClassicInv, V8Step
  PROVE  ClassicInv'
<1>1. nf_v8_rx /\ V8Inv /\ "A" \in Sides
  BY DEF V8Step, CallInv, TypeInv, Sides
<1>2. PICK q \in Sides : V8Advances(q)
  BY <1>1, V8Cases, CallerV8Keeps, AnswererV8Keeps, ModeFacts
<1>3. V8Runs("A")' => V8Runs("A") /\ v8_status'["A"] = ""
  <2>1. CASE q = "A"
    BY <1>2, <2>1 DEF V8Advances, V8Runs
  <2>2. CASE Peer(q) = "A"
    BY <1>1, <1>2, <2>2 DEF V8Advances, V8Runs, V8Inv
  <2>. QED BY <1>1, <2>1, <2>2, PeerFacts
<1>4. v8_status'["A"] = "" => t30'["A"] = t30["A"]
  <2>1. SUFFICES ASSUME v8_status'["A"] = "" PROVE t30'["A"] = t30["A"]
    OBVIOUS
  <2>2. ~Reports("A") /\ DOMAIN t30 = Sides
    BY <2>1 DEF Reports, CallInv, TypeInv, EndsInv
  <2>3. \/ UNCHANGED t30
        \/ \E s \in Sides : \E u : Reports(s) /\ t30' = [t30 EXCEPT ![s] = u]
    BY DEF V8Step
  <2>. QED BY <1>1, <2>2, <2>3
<1>. QED BY <1>3, <1>4 DEF ClassicInv

LEMMA SessionV8 ==
  ASSUME NEW s \in Sides, Pump(s) \/ Slow(s) \/ CcScan(s) \/ HoldoffEnds(s)
  PROVE  UNCHANGED v8
<1>1. Pump(s) => UNCHANGED v8
  BY DEF Pump, RaiseStream, Restart, Interlock, TurnAround, AppendFrames, Rest, Other, v8Vars
<1>2. Sends(s) => UNCHANGED v8
  BY DEF Sends, Tick, TrnPlayed, CarrierFalls, SectionOut, RaisePri, PriPlayed, Rest, Other, v8Vars
<1>3. Ends(s) \/ CcScan(s) \/ HoldoffEnds(s) => UNCHANGED v8
  BY DEF Ends, CcDone, CcScan, TrnDone, PriDone, Ignored, HoldoffEnds, Rest, Other, v8Vars
<1>4. Timer(s) \/ HangUp(s) => UNCHANGED v8
  BY DEF Timer, Deadline, T30Timer, HangUp, Rest, Other, v8Vars
<1>. QED BY <1>1, <1>2, <1>3, <1>4 DEF Slow

LEMMA IdleActs ==
  ASSUME CallInv, V8Runs("A"), NEW s \in Sides,
         Pump(s) \/ Slow(s) \/ CcScan(s) \/ HoldoffEnds(s)
  PROVE  t30'["A"].v34 = t30["A"].v34
<1>1. ss["A"].st = "IDLE" /\ t30["A"].sub \notin Waiting /\ ~On("A") /\ "A" \in Sides
  <2>1. ss["A"].st = "IDLE" /\ t30["A"].sub \in {"C_WAIT_V8", "A_SEND_V8", "DONE"}
    BY DEF CallInv, TypeInv, V8Inv, Sides
  <2>. QED BY <2>1 DEF Waiting, On, Sides
<1>2. DOMAIN t30 = Sides /\ "C" \in Sides
  BY DEF CallInv, TypeInv, EndsInv, Sides
<1>3. ASSUME NEW e, NEW r, Both("C", e, r) PROVE t30'["A"] = t30["A"]
  BY <1>1, <1>2, <1>3 DEF Both
<1>4. ASSUME NEW e, Becomes("C", e) PROVE t30'["A"] = t30["A"]
  BY <1>3, <1>4 DEF Becomes
<1>5. ASSUME NEW e, Becomes("A", e) PROVE t30'["A"] = e.t
  BY <1>1, <1>2, <1>5 DEF Becomes, Both
<1>6. CASE s = "C"
  <2>1. CASE Pump(s)
    <3>1. CASE RaiseStream(s)
      BY <1>3, <1>6, <3>1 DEF RaiseStream
    <3>2. CASE Restart(s)
      BY <1>3, <1>6, <3>2 DEF Restart
    <3>3. CASE Interlock(s)
      BY <1>3, <1>6, <3>3 DEF Interlock
    <3>4. CASE TurnAround(s) \/ AppendFrames(s)
      BY <1>4, <1>6, <3>4 DEF TurnAround, AppendFrames
    <3>. QED BY <2>1, <3>1, <3>2, <3>3, <3>4 DEF Pump
  <2>2. CASE Sends(s)
    <3>1. CASE Tick(s)
      BY <1>3, <1>6, <3>1 DEF Tick
    <3>2. CASE TrnPlayed(s) \/ CarrierFalls(s) \/ PriPlayed(s)
      BY <1>4, <1>6, <3>2 DEF TrnPlayed, CarrierFalls, PriPlayed
    <3>3. CASE SectionOut(s)
      BY <1>3, <1>6, <3>3 DEF SectionOut
    <3>4. CASE RaisePri(s)
      BY <1>3, <1>6, <3>4 DEF RaisePri
    <3>. QED BY <2>2, <3>1, <3>2, <3>3, <3>4 DEF Sends
  <2>3. CASE CcDone(s) \/ CcScan(s)
    BY <1>4, <1>6, <2>3 DEF CcDone, CcScan, Pass
  <2>4. CASE TrnDone(s)
    BY <1>4, <1>6, <2>4 DEF TrnDone
  <2>5. CASE PriDone(s)
    BY <1>4, <1>6, <2>5 DEF PriDone
  <2>6. CASE Ignored(s) \/ HoldoffEnds(s) \/ Timer(s) \/ HangUp(s)
    BY <1>4, <1>6, <2>6 DEF Ignored, HoldoffEnds, Timer, Deadline, T30Timer, HangUp
  <2>. QED BY <2>1, <2>2, <2>3, <2>4, <2>5, <2>6 DEF Slow, Ends
<1>7. CASE s = "A"
  <2>1. Ignored(s) \/ HangUp(s) \/ HoldoffEnds(s)
    <3>1. ~Pump(s)
      BY <1>1, <1>7 DEF Pump, RaiseStream, Restart, Interlock, TurnAround, AppendFrames
    <3>2. ~Sends(s)
      BY <1>1, <1>7 DEF Sends, Tick, TrnPlayed, CarrierFalls, SectionOut, RaisePri, PriPlayed
    <3>3. ~CcDone(s) /\ ~CcScan(s) /\ ~TrnDone(s) /\ ~PriDone(s)
      BY <1>1, <1>7 DEF CcDone, CcScan, Listening, TrnDone, PriDone
    <3>4. ~Timer(s)
      BY <1>1, <1>7 DEF Timer, Deadline, T30Timer
    <3>. QED BY <3>1, <3>2, <3>3, <3>4 DEF Slow, Ends
  <2>2. CASE Ignored(s) \/ HoldoffEnds(s)
    <3>1. PICK x : Becomes("A", [End("A") EXCEPT !.ss = x])
      BY <1>7, <2>2 DEF Ignored, HoldoffEnds
    <3>2. t30'["A"] = [End("A") EXCEPT !.ss = x].t
      BY <1>5, <3>1
    <3>3. [End("A") EXCEPT !.ss = x].t = t30["A"]
      BY EndPut
    <3>. QED BY <3>2, <3>3
  <2>3. CASE HangUp(s)
    <3>1. PICK e, r, p, t : /\ e = End("A") /\ r = e.ss /\ p = e.pt /\ t = e.t
      OBVIOUS
    <3>2. e = [ss |-> r, pt |-> p, t |-> t] /\ t = t30["A"] /\ t \in Engines
      BY <1>1, <3>1, EndFacts, EndIs
    <3>3. PICK u, v, n : /\ u = [t EXCEPT !.sub = "DONE"] /\ v = [u EXCEPT !.result = "HUNG_UP"]
                         /\ n = NewSession
      OBVIOUS
    <3>4. v.v34 = t.v34
      BY <3>2, <3>3 DEF Engines
    <3>5. PICK g, h : g = [e EXCEPT !.t = u] /\ h = [g EXCEPT !.t = v]
      OBVIOUS
    <3>6. g = [ss |-> r, pt |-> p, t |-> u] /\ g.t = u /\ h = [ss |-> r, pt |-> p, t |-> v]
      BY <3>2, <3>5
    <3>7. g = [e EXCEPT !.t = [e.t EXCEPT !.sub = "DONE"]]
          /\ h = [g EXCEPT !.t = [g.t EXCEPT !.result = "HUNG_UP"]]
      BY <3>1, <3>3, <3>5, <3>6
    <3>8. finish(e, "HUNG_UP") = [h EXCEPT !.ss = n]
      BY <3>3, <3>7, Zenon DEF finish
    <3>9. finish(e, "HUNG_UP").t = v
      BY <3>6, <3>8
    <3>10. t30'["A"] = finish(e, "HUNG_UP").t
      BY <1>5, <1>7, <2>3, <3>1 DEF HangUp
    <3>. QED BY <3>2, <3>4, <3>9, <3>10
  <2>. QED BY <2>1, <2>2, <2>3
<1>. QED BY <1>6, <1>7 DEF Sides

LEMMA ClassicStays ==
  ASSUME CallInv, ClassicInv, [Next]_vars
  PROVE  ClassicInv'
<1>1. DOMAIN t30 = Sides /\ "A" \in Sides
  BY DEF CallInv, TypeInv, EndsInv, Sides
<1>2. CASE V8Step
  BY <1>2, V8StepClassic
<1>3. ASSUME UNCHANGED v8, V8Runs("A") => t30'["A"].v34 = t30["A"].v34 PROVE ClassicInv'
  BY <1>3 DEF ClassicInv, V8Runs
<1>4. CASE ClassicStep
  <2>1. ASSUME V8Runs("A") PROVE t30'["A"] = t30["A"]
    <3>1. t30["A"].sub \in {"C_WAIT_V8", "A_SEND_V8", "DONE"}
      BY <1>1, <2>1 DEF CallInv, TypeInv, V8Inv
    <3>2. t30' = [t30 EXCEPT !["C"].sub = "PHASE_B"]
      BY <1>4, <3>1 DEF ClassicStep
    <3>. QED BY <1>1, <3>2
  <2>2. UNCHANGED v8
    BY <1>4 DEF ClassicStep, v8Vars
  <2>. QED BY <1>3, <2>1, <2>2
<1>5. CASE Phase2Step
  BY <1>3, <1>5 DEF Phase2Step, v8Vars
<1>6. ASSUME NEW s \in Sides, LineCarries(s) PROVE ClassicInv'
  BY <1>3, <1>6 DEF LineCarries, v8Vars, sessVars
<1>7. ASSUME NEW s \in Sides, Pump(s) \/ Slow(s) \/ CcScan(s) \/ HoldoffEnds(s) PROVE ClassicInv'
  <2>1. V8Runs("A") => t30'["A"].v34 = t30["A"].v34
    BY <1>7, IdleActs
  <2>2. UNCHANGED v8
    BY <1>7, SessionV8
  <2>. QED BY <1>3, <2>1, <2>2
<1>8. CASE UNCHANGED vars
  BY <1>3, <1>8 DEF vars, v8Vars, sessVars
<1>. QED BY <1>2, <1>4, <1>5, <1>6, <1>7, <1>8 DEF Next

-----------------------------------------------------------------------------
(* The rates hold in every step of a call.                                  *)
LEMMA InitRates ==
  ASSUME Init
  PROVE  RatesInv /\ ClassicInv
<1>1. /\ arriving = [s \in Sides |-> Silence] /\ ss = [s \in Sides |-> NewSession]
      /\ p2_state = [s \in Sides |-> "OFF"]
      /\ t30 = [s \in Sides |-> start(s, our_modulations[s] # {})]
      /\ "A" \in Sides /\ "C" \in Sides
  BY DEF Init, LineInit, P2Init, Sides
<1>2. PICK p : p = [srate |-> Srate0, local_max |-> top_rate(Srate0)]
  OBVIOUS
<1>3. point = [s \in Sides |-> p] /\ p.srate = Srate0 /\ p.local_max = top_rate(Srate0)
  BY <1>2 DEF Init, P2Init
<1>4. ~(0 > 0)
  BY SMT
<1>5. PICK x : x = NewSession
  OBVIOUS
<1>6. /\ x.st = "IDLE" /\ x.done = FALSE /\ x.rate_cur = 0 /\ x.remote_max = 0
      /\ x.last_adv = 0 /\ x.win_mph = 0 /\ x.gate = "" /\ x.pcm = ""
  BY <1>5 DEF NewSession
<1>7. \A s \in Sides : ss[s] = x /\ point[s] = p
  BY <1>1, <1>3, <1>5
<1>8. ASSUME NEW s \in Sides PROVE EndKept(s, End(s))
  <2>1. PICK e : e = End(s)
    OBVIOUS
  <2>2. e.ss = x
    BY <1>7, <2>1 DEF End
  <2>3. RateKept(e)
    BY <1>4, <1>6, <2>2 DEF RateKept
  <2>4. StartKept(s, e)
    BY <1>6, <2>2 DEF StartKept, Starting
  <2>. QED BY <2>1, <2>3, <2>4 DEF EndKept
<1>9. HeardInv
  BY <1>1, <1>4, <1>6, <1>7 DEF HeardInv, Hearable
<1>10. FixedInv
  <2>1. Srate0 \in Srates
    BY RateAssumption
  <2>2. floor_rate(Srate0) <= top_rate(Srate0)
    BY <2>1, FloorInStart
  <2>. QED BY <1>1, <1>3, <1>6, <1>7, <2>2 DEF FixedInv
<1>11. ProbedInv
  BY <1>1, <1>4, <1>6, <1>7 DEF ProbedInv
<1>12. ClassicInv
  <2>1. PICK sub : t30["A"] = NewEngine(sub)
    BY <1>1 DEF start
  <2>2. ~NewEngine(sub).v34
    BY DEF NewEngine
  <2>. QED BY <2>1, <2>2 DEF ClassicInv
<1>. QED BY <1>8, <1>9, <1>10, <1>11, <1>12 DEF RatesInv

LEMMA IdleRates ==
  ASSUME CallInv, CallInv', RatesInv, UNCHANGED vars
  PROVE  RatesHold
<1>1. UNCHANGED <<arriving, p2_state, point, ss, t30>>
  BY DEF vars, p2Vars, sessVars
<1>2. (\A q \in Sides : EndKept(q, End(q))') /\ Quiet
  BY <1>1, EndsUnchanged
<1>3. Past2' = Past2
  BY <1>1 DEF Past2, Settled2
<1>4. FixedInv'
  BY <1>1, <1>2, <1>3, QuietFixed
<1>5. ProbedInv'
  BY <1>1, <1>3 DEF RatesInv, ProbedInv
<1>6. point'["A"].local_max <= point["A"].local_max
  BY <1>1, SameCap, ModeFacts
<1>. QED BY <1>2, <1>4, <1>5, <1>6, QuietRates

LEMMA NextRates ==
  ASSUME CallInv, CallInv', RatesInv, ClassicInv, [Next]_vars
  PROVE  RatesHold
<1>1. CASE V8Step
  BY <1>1, V8StepRates
<1>2. CASE ClassicStep
  BY <1>2, ClassicStepRates
<1>3. CASE Phase2Step
  BY <1>3, Phase2StepRates
<1>4. ASSUME NEW s \in Sides, LineCarries(s) \/ Pump(s) PROVE RatesHold
  BY <1>4, LineCarriesRates, RaiseStreamRates, RestartRates, InterlockRates, TurnAroundRates,
     AppendFramesRates DEF Pump
<1>5. ASSUME NEW s \in Sides, Slow(s) \/ CcScan(s) \/ HoldoffEnds(s) PROVE RatesHold
  <2>1. CASE Sends(s)
    BY <2>1, TickRates, TrnPlayedRates, CarrierFallsRates, SectionOutRates, RaisePriRates,
       PriPlayedRates DEF Sends
  <2>2. CASE Ends(s)
    BY <2>2, CcRates, TrnDoneRates, PriDoneRates, IgnoredRates DEF Ends
  <2>3. CASE Timer(s) \/ HangUp(s) \/ CcScan(s) \/ HoldoffEnds(s)
    BY <2>3, DeadlineRates, T30TimerRates, HangUpRates, CcRates, HoldoffEndsRates DEF Timer
  <2>. QED BY <1>5, <2>1, <2>2, <2>3 DEF Slow
<1>6. CASE UNCHANGED vars
  BY <1>6, IdleRates
<1>. QED BY <1>1, <1>2, <1>3, <1>4, <1>5, <1>6 DEF Next

(* A burst that the caller begins is within its cap, and at the answerer's  *)
(* rate when the caller has heard the cap the answerer has.                 *)
LEMMA BurstAgrees ==
  ASSUME CallInv, RatesInv, Established
  PROVE  /\ ss["C"].rate_cur <= point["C"].local_max
         /\ ss["C"].rate_cur # ss["A"].rate_cur =>
              \/ ss["A"].last_adv # point["A"].local_max
              \/ ss["C"].remote_max # ss["A"].last_adv
<1>1. /\ "A" \in Sides /\ "C" \in Sides /\ On("C") /\ ss["C"].st = "DONE" /\ ss["A"].st = "DONE"
  BY DEF Established, Sides
<1>2. PICK sr, capc, capa, remc, rema :
        /\ sr = point["C"].srate /\ capc = point["C"].local_max /\ capa = point["A"].local_max
        /\ remc = ss["C"].remote_max /\ rema = ss["A"].remote_max
  OBVIOUS
<1>3. sr \in Srates /\ capc \in 1..14 /\ capa \in 1..14 /\ remc \in Rates /\ rema \in Rates
  BY <1>1, <1>2, RateTypes
<1>4. point["A"].srate = sr
  <2>1. Settled2
    BY <1>1 DEF On, Settled2
  <2>. QED BY <1>2, <2>1 DEF CallInv, PointInv
<1>5. /\ ss["C"].rate_cur = Best(sr, capc, remc) /\ remc > 0
      /\ ss["A"].rate_cur = Best(sr, capa, rema) /\ rema > 0
  BY <1>1, <1>2, <1>4, KeptNow DEF EndKept, RateKept
<1>6. ss["C"].rate_cur <= capc
  <2>1. floor_rate(sr) <= capc
    BY <1>2 DEF RatesInv, FixedInv
  <2>. QED BY <1>3, <1>5, <2>1, BestWithin
<1>7. rema = capc
  <2>1. rema \in {0, capc}
    BY <1>2 DEF RatesInv, FixedInv
  <2>. QED BY <1>3, <1>5, <2>1
<1>8. remc = capa => Best(sr, capc, remc) = Best(sr, capa, rema)
  BY <1>3, <1>7, BestAgrees
<1>. QED BY <1>2, <1>5, <1>6, <1>8

LEMMA RatesSafe == Spec => [](CallInv /\ RatesInv /\ ClassicInv)
<1>1. Init => RatesInv /\ ClassicInv
  BY InitRates
<1>2. CallInv /\ CallInv' /\ RatesInv /\ ClassicInv /\ [Next]_vars => RatesInv' /\ ClassicInv'
  BY NextRates, ClassicStays DEF RatesHold
<1>. QED BY <1>1, <1>2, CallSafe, PTL DEF Spec

(* The rate of the image channel never rises within a call (pick_rate and    *)
(* the fallback of nf_v34.c): each end's rate is the best within its own cap *)
(* and the one it heard, the caps only fall, and no scan takes an MPh of the *)
(* peer that is older, and higher, than one it has already heeded.           *)
THEOREM RateNeverRises == Spec => RateFalls
<1>1. CallInv /\ CallInv' /\ RatesInv /\ ClassicInv /\ [Next]_vars =>
        [\A s \in Sides : ss[s].rate_cur > 0 => ss'[s].rate_cur <= ss[s].rate_cur]_vars
  BY NextRates DEF RatesHold, RatesFall
<1>. QED BY <1>1, RatesSafe, PTL DEF Spec, RateFalls

(* The source begins an image burst within its own cap (v34_sess_build_pri), *)
(* and at the rate at which the recipient decodes, unless the recipient has  *)
(* not advertised the cap it has, or the source missed the last it did.      *)
THEOREM BurstsAgree == Spec => BurstRate
<1>1. CallInv /\ CallInv' /\ RatesInv /\ ClassicInv /\ [Next]_vars =>
        [ss["C"].pcm # "PRI" /\ ss'["C"].pcm = "PRI" /\ Established =>
           /\ ss'["C"].pcm_rate <= point["C"].local_max
           /\ ss'["C"].pcm_rate # ss["A"].rate_cur =>
                \/ ss["A"].last_adv # point["A"].local_max
                \/ ss["C"].remote_max # ss["A"].last_adv]_vars
  BY NextRates, BurstAgrees DEF RatesHold, BurstStart
<1>. QED BY <1>1, RatesSafe, PTL DEF Spec, BurstRate
==============================================================================
