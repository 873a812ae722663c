------------------------------ MODULE EcmLine ------------------------------
(***************************************************************************)
(* What T30Ecm takes a line to do, against the coding that does it: the    *)
(* framer of nf_hdlc.c under a classic burst, the primary channel under a  *)
(* V.34 burst, and the control channel under the V.34 answers.  T30Ecm     *)
(* loses frames and whole messages and alters none; here each block about  *)
(* to be sent, and each answer on its way, is coded, damaged and decoded.  *)
(***************************************************************************)
EXTENDS T30Ecm, V34Cc

CONSTANT PrimaryModes   \* the V.34 rates to consider: bit rate and rings

(* FCD frames as on_get_frame builds them, with one octet of the page; the *)
(* control frames of the answerer.                                         *)
on_get_frame(n) == Octet(255) \o Octet(3) \o Octet(6) \o Octet(n) \o Octet(248)
FramesOf(set) == LET Fcd(i) == on_get_frame(i - 1)
                     Sent(i) == i - 1 \in set
                 IN [k \in 1..Cardinality(set) |-> Fcd(SelectSeq(Numbers(FRAMES), Sent)[k])]

send_simple(kind) ==
  Octet(255) \o Octet(19)
    \o Octet(CASE kind = "MCF" -> 140 [] kind = "PPR" -> 188
               [] kind = "CTR" -> 196 [] OTHER -> 28)

Payloads(accepted) == [i \in 1..Len(accepted) |-> accepted[i].payload]
Bursts == {{n} \cup set : n \in FrameNo, set \in SUBSET FrameNo}
Inverted(bits, i) == [bits EXCEPT ![i] = 1 - @]
Dropped(bits, i) == SubSeq(bits, 1, i - 1) \o SubSeq(bits, i + 1, Len(bits))
Without(frames, i) == SubSeq(frames, 1, i - 1) \o SubSeq(frames, i + 1, Len(frames))
AtMostOneLost(got, frames) == got \in {frames} \cup {Without(frames, i) : i \in 1..Len(frames)}

-----------------------------------------------------------------------------
(* A classic burst: two flags between frames, and twelve in front, enough  *)
(* for the five the receiver settles on to come again after a hit in them. *)
ClassicBurst(set) == StreamBits(12, 2, FramesOf(set))
HitOnce(set) ==
  LET bits == ClassicBurst(set) IN
  /\ Payloads(Accepted(5, bits)) = FramesOf(set)
  /\ \A i \in 1..Len(bits) : \A hit \in {Inverted(bits, i), Dropped(bits, i)} :
       AtMostOneLost(Payloads(Accepted(5, hit)), FramesOf(set))
HitBursts == {set \in Bursts : HitOnce(set)}

(* A bit inverted or lost anywhere in a classic burst costs the block at    *)
(* most one frame, and brings none that was not sent: what one hit on the   *)
(* line does to the framer is among the losses T30Ecm lets PPR repair.      *)
FramesSurvive ==
  [][link = "AUDIO" /\ cst' = "C_SEND_ECM" /\ ecm_send' \in Bursts => ecm_send' \in HitBursts]_vars

-----------------------------------------------------------------------------
(* A V.34 burst: four flags in front, one between frames.  One wrong       *)
(* decision at symbol i spoils its mapping frame, the turn the next one    *)
(* starts from, and the descrambler for 23 bits more.                      *)
v34_sess_build_pri(set) == StreamBits(4, 1, FramesOf(set))
Parameters(mode) == nf_v34_pcparams_init(6, mode.rate, mode.rings)
Turned(sym, n) == [i \in 1..Len(sym) |-> [lab |-> sym[i].lab, rot |-> (sym[i].rot + n) % 4]]
Mistaken(sym, i) == [sym EXCEPT ![i] = [lab |-> (@.lab + 1) % 4, rot |-> (@.rot + 1) % 4]]

Framed(bits) == Payloads(Accepted(1, bits))
Starts(seq, part) == SubSeq(seq, 1, Len(part)) = part
Ends(seq, part) == SubSeq(seq, Len(seq) - Len(part) + 1, Len(seq)) = part
InOrder(got, frames) == \E kept \in SUBSET (1..Len(frames)) :
  LET Kept(i) == i \in kept
      which == SelectSeq(Numbers(Len(frames)), Kept) IN
  got = [k \in 1..Len(which) |-> frames[which[k]]]

Spoils(pp, sym, bits, frames, i) ==
  LET f == (i - 1) \div 8 - pp.P
      clean == BitsBefore(pp, f)
      before == SubSeq(bits, 1, IF clean < Len(bits) THEN clean ELSE Len(bits))
      after == SubSeq(bits, BitsBefore(pp, f + 2) + 24, Len(bits))
      got == Framed(BurstBits(pp, Mistaken(sym, i))) IN
  InOrder(got, frames) /\ Starts(got, Framed(before)) /\ Ends(got, Framed(after))

BurstArrives(mode, set) ==
  LET pp == Parameters(mode)
      frames == FramesOf(set)
      bits == v34_sess_build_pri(set)
      sym == nf_v34_pc_burst_build(pp, bits) IN
  /\ \A n \in {0, 3} : Framed(BurstBits(pp, Turned(sym, n))) = frames
  /\ mode.hits => \A i \in 8 * pp.P + 1..Len(sym) : i % 3 = 0 => Spoils(pp, sym, bits, frames, i)
PrimaryBursts == {set \in Bursts : \A mode \in PrimaryModes : BurstArrives(mode, set)}

(* Whatever the rate and the quarter turn the receiver locked to, a V.34    *)
(* burst yields exactly its frames; a wrong decision costs only the frames  *)
(* that share bits with it, and makes up none.  The shell mapper, the       *)
(* differential and the trellis bits are undone by other code than makes    *)
(* them.                                                                    *)
BurstSurvives ==
  [][link = "V34" /\ cst' = "C_SEND_ECM" /\ ecm_send' \in Bursts => ecm_send' \in PrimaryBursts]_vars

-----------------------------------------------------------------------------
(* The control channel: an MPh of each type, INFO fields as sent in phase 2. *)
Capabilities == << Zeros(9) \o <<1>> \o Zeros(3) \o <<1, 1, 0>>, Ones(8) \o Zeros(8), Zeros(16) >>
Coefficients == << <<1>> \o Tail(Capabilities[1]), Capabilities[2] >>
                  \o [g \in 1..7 |-> Octet(37 * g) \o Octet(255 - g)]
Info0 == <<1, 1, 1, 1, 1, 1, 1, 1, 1, 0, 1, 0, 0, 0, 0, 0, 1>>
Infoh == <<0, 0, 0, 1, 1, 0, 0, 0, 0, 0, 1, 1, 0, 0, 0, 1, 0, 1, 0>>

InfoArrives(info, is_infoh) ==
  LET signs == <<0, 0, 1, 1>> \o nf_v34_info_tx(info) \o <<1, 0>>
      Reversed(from) == [i \in 1..Len(signs) |-> IF i < from THEN signs[i] ELSE 1 - signs[i]] IN
  /\ nf_v34_info_rx_batch(signs, is_infoh) = {info}
  /\ nf_v34_info_rx_batch(signs, ~is_infoh) = {}
  /\ \A i \in 5..Len(signs) - 2 :
       /\ nf_v34_info_rx_batch(Inverted(signs, i), is_infoh) \subseteq {info}
       /\ nf_v34_info_rx_batch(Reversed(i), is_infoh) \subseteq {info}

(* MPh sent twice, heard from any symbol on and with one turn mistaken.  A  *)
(* mistake at the end of the first echoes into the second; one in the type  *)
(* bit of a short MPh makes the receiver read on through the second.        *)
MphArrives(groups) ==
  LET twice == nf_v34_cc_tx_mph(nf_v34_cc_tx_mph(
                 nf_v34_cc_tx_alt(nf_v34_cc_tx_init, 20), groups), groups).sym
      n == (Len(twice) - 20) \div 2
      Found(z) == Scan(nf_v34_mp_feed_symbol, nf_v34_mp_rx_init, z).found
      Mistake(i, by) == [twice EXCEPT ![i].rot = (@ + by) % 4] IN
  /\ \A from \in 1..20 : Found(SubSeq(twice, from, Len(twice))) \in {<<groups, groups>>}
                           \cup (IF from > 8 THEN {<<groups>>} ELSE {})
  /\ \A i \in 20..Len(twice), by \in 1..2 :
       LET found == Found(Mistake(i, by)) IN
       /\ \A k \in 1..Len(found) : found[k] = groups
       /\ found = <<>> => \/ i \in 20 + n - 12..20 + n
                          \/ Len(groups) = 3 /\ i \in 29..30

Answer(kind, use_sh, rate_2400) ==
  LET line == v34_ccs_append_frames(v34_ccs_begin(use_sh, Capabilities, rate_2400),
                                    rate_2400, <<send_simple(kind)>>).sym
      got == v34_sess_process_cc(line, rate_2400) IN
  /\ Payloads(got.frames) = <<send_simple(kind)>>
  /\ got.mph = IF use_sh THEN <<>> ELSE <<Capabilities, Capabilities>>
  /\ got.reneg = ~use_sh

Answers == {kind \in {"MCF", "PPR", "CTR", "ERR"} :
              \A use_sh, rate_2400 \in BOOLEAN : Answer(kind, use_sh, rate_2400)}
StartUp == /\ InfoArrives(Info0, FALSE) /\ InfoArrives(Infoh, TRUE)
           /\ MphArrives(Capabilities) /\ MphArrives(Coefficients)

(* An answer on the control channel arrives as it was sent behind either    *)
(* preamble and at either rate, a restart is told from a resynchronisation, *)
(* and what start-up exchanged (INFO, MPh) is what was sent or nothing,     *)
(* whichever symbol of it is mistaken.                                      *)
ControlSurvives ==
  [][link = "V34" => StartUp /\ \A i \in 1..Len(a2c') : a2c'[i].m \in Answers]_vars
=============================================================================
