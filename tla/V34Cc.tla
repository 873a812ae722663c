------------------------------- MODULE V34Cc -------------------------------
(***************************************************************************)
(* The control channel of nf_v34.c, symbol by symbol: the INFO frames of   *)
(* phase 2 and their search, the MPh frames that carry the capabilities,   *)
(* the start-up and resynchronisation preambles, and the user data in HDLC *)
(* at 1200 or 2400 bit/s.  A symbol is one of the sixteen points: a base   *)
(* label and a number of clockwise quarter turns, as the receiver slices   *)
(* it; at 1200 bit/s and in training the base is 0.                        *)
(***************************************************************************)
EXTENDS V34Map

Zeros(n) == [i \in 1..n |-> 0]
Repeat(bits, n) == [i \in 1..n * Len(bits) |-> bits[((i - 1) % Len(bits)) + 1]]

-----------------------------------------------------------------------------
(* INFO frames: fill and sync, 17 (INFO0) or 19 (INFOh) bits, CRC, fill.   *)
v34_info_sync == <<1, 1, 1, 1, 0, 1, 1, 1, 0, 0, 1, 0>>
v34_info_crc_bits(bits) == nf_crc16(bits)
InfoLen(is_infoh) == IF is_infoh THEN 19 ELSE 17

v34_info_build_bits(info) == v34_info_sync \o info \o v34_info_crc_bits(info) \o Ones(4)

(* DPSK: one point, then a reversal for every one. *)
nf_v34_info_tx(info) ==
  LET Turn(sign, bit) == (sign + bit) % 2
  IN <<0>> \o Steps(Turn, 0, v34_info_build_bits(info))

(* The fields of the frame that starts at bit st, or none. *)
v34_info_parse(bits, st, is_infoh) ==
  LET n == InfoLen(is_infoh)
      info == SubSeq(bits, st + 12, st + 11 + n) IN
  IF st + 11 + n + 16 > Len(bits) THEN {}
  ELSE IF SubSeq(bits, st, st + 11) # v34_info_sync THEN {}
  ELSE IF v34_info_crc_bits(info) # SubSeq(bits, st + 12 + n, st + 27 + n) THEN {}
  ELSE {info}

(* nf_v34_info_rx_batch over the signs of the grid: both polarities of the *)
(* differential bit, every start.                                          *)
nf_v34_info_rx_batch(signs, is_infoh) ==
  UNION {LET bits == [i \in 1..Len(signs) - 1 |-> (signs[i] + signs[i + 1] + pol) % 2]
         IN UNION {v34_info_parse(bits, st, is_infoh) : st \in 1..Len(bits) - 11}
         : pol \in 0..1}

-----------------------------------------------------------------------------
(* Control channel transmitter: h the scrambler, zn the turn, sym the line. *)
nf_v34_cc_tx_init == [h |-> NoHistory, zn |-> 0, sym |-> <<>>]

Push(s, points) == [s EXCEPT !.sym = @ \o points]
Inner(rot) == [base |-> 0, rot |-> rot % 4]

Scrambled(h, raw) ==
  LET Next1(s, bit) == LET v == Xor(bit, Feedback(s.h)) IN
                       [h |-> Shifted(s.h, v), out |-> Append(s.out, v)]
  IN Scan(Next1, [h |-> h, out |-> <<>>], raw)

v34_cc_tx_dibit(s, raw) ==
  LET c == Scrambled(s.h, raw)
      zn == (s.zn + c.out[1] + 2 * c.out[2]) % 4 IN
  [h |-> c.h, zn |-> zn, sym |-> Append(s.sym, Inner(zn))]

v34_cc_tx_quad(s, raw) ==
  LET c == Scrambled(s.h, raw)
      zn == (s.zn + c.out[1] + 2 * c.out[2]) % 4 IN
  [h |-> c.h, zn |-> zn,
   sym |-> Append(s.sym, [base |-> 2 * c.out[4] + c.out[3], rot |-> zn])]

nf_v34_cc_tx_bits(s, rate_2400, bits) ==
  LET w == IF rate_2400 THEN 4 ELSE 2
      Next1(t, i) == LET raw == SubSeq(bits, w * i - w + 1, w * i) IN
                     IF rate_2400 THEN v34_cc_tx_quad(t, raw) ELSE v34_cc_tx_dibit(t, raw)
  IN Scan(Next1, s, Numbers(Len(bits) \div w))

nf_v34_cc_tx_pph(s) ==
  Push(s, [i \in 1..32 |-> LET k == (i - 1) \div 2 IN Inner(-k * (k - ((i - 1) % 2)))])
nf_v34_cc_tx_sh(s) ==
  Push(s, [i \in 1..32 |-> Inner((IF i <= 24 THEN 0 ELSE 2) - ((i - 1) % 2))])
nf_v34_cc_tx_alt(s, nsym) == nf_v34_cc_tx_bits(s, FALSE, Repeat(<<0, 1>>, nsym))
nf_v34_cc_tx_e(s) == nf_v34_cc_tx_bits(s, FALSE, Ones(20))

(* MPh: type 0 has three data groups, type 1 nine; each follows a start bit. *)
Groups(type) == IF type = 0 THEN 3 ELSE 9
v34_mph_build_bits(groups) ==
  LET Group(acc, g) == acc \o g \o <<0>>
      AddCrc(crc, g) == Scan(CrcBit, crc, g)
      crc == Scan(AddCrc, Ones(16), groups)
      body == Scan(Group, <<>>, groups) \o crc IN
  Ones(17) \o <<0>> \o body \o Zeros(IF Len(groups) = 3 THEN 3 ELSE 1)
nf_v34_cc_tx_mph(s, groups) == nf_v34_cc_tx_bits(s, FALSE, v34_mph_build_bits(groups))

v34_ccs_flags(s, rate_2400, n) == nf_v34_cc_tx_bits(s, rate_2400, Repeat(FlagOctet, n))

(* The resynchronisation without MPh, and the restart with two of them.    *)
v34_ccs_begin(use_sh, groups, rate_2400) ==
  LET sh == nf_v34_cc_tx_alt(nf_v34_cc_tx_sh(nf_v34_cc_tx_init), 100)
      pph == nf_v34_cc_tx_alt(nf_v34_cc_tx_pph(nf_v34_cc_tx_init), 100)
      two == nf_v34_cc_tx_mph(nf_v34_cc_tx_mph(pph, groups), groups) IN
  v34_ccs_flags(nf_v34_cc_tx_e(IF use_sh THEN sh ELSE two), rate_2400, 4)

(* Padded to whole symbols with ones, as v34_sess_collect_bits pads. *)
v34_sess_collect_bits(bits) == bits \o Ones((4 - (Len(bits) % 4)) % 4)
v34_ccs_append_frames(s, rate_2400, frames) ==
  v34_ccs_flags(nf_v34_cc_tx_bits(s, rate_2400, v34_sess_collect_bits(StreamBits(8, 2, frames))),
                rate_2400, 2)

-----------------------------------------------------------------------------
(* MPh receiver: pos is -1 in the search, else the bits read of a frame.   *)
nf_v34_mp_rx_init == [h |-> NoHistory, prev |-> -1, pos |-> -1, ones |-> 0, buf |-> <<>>,
                      found |-> <<>>]

Group(buf, g) == SubSeq(buf, 17 * g + 1, 17 * g + 16)
FrameOk(buf, n) ==
  LET AddCrc(crc, g) == Scan(CrcBit, crc, Group(buf, g - 1)) IN
  /\ \A g \in 1..n : buf[17 * g] = 0
  /\ Scan(AddCrc, Ones(16), Numbers(n)) = Group(buf, n)
  /\ n = 9 => buf[170] = 0

Dev_Resumed(s) == [s EXCEPT !.pos = 0, !.ones = 0, !.buf = <<>>]
Resumed(s) == [s EXCEPT !.pos = -1, !.ones = 0, !.buf = <<>>]

v34_mp_feed_bit(s, raw) ==
  LET bit == Xor(raw, Feedback(s.h))
      d == [s EXCEPT !.h = Shifted(@, raw)]
      t == [d EXCEPT !.buf = Append(@, bit), !.pos = @ + 1]
      n == Groups(t.buf[1])
      full == t.pos = (IF n = 3 THEN 70 ELSE 170) IN
  IF s.pos < 0
    THEN [d EXCEPT !.pos = IF bit = 0 /\ s.ones >= 17 THEN 0 ELSE -1,
                   !.ones = IF bit = 1 THEN @ + 1 ELSE 0]
  ELSE IF ~full THEN t
  ELSE Resumed([t EXCEPT !.found =
         IF FrameOk(t.buf, n) THEN Append(@, [g \in 1..n |-> Group(t.buf, g - 1)]) ELSE @])

(* The differential demapper, four-point: quadrants of the sliced points.  *)
nf_v34_mp_feed_symbol(s, z) ==
  LET delta == (z.rot - s.prev) % 4
      t == [s EXCEPT !.prev = z.rot] IN
  IF s.prev < 0 THEN t
  ELSE v34_mp_feed_bit(v34_mp_feed_bit(t, delta % 2), delta \div 2)

-----------------------------------------------------------------------------
(* User data receiver: sixteen is set once E has passed at 2400 bit/s.     *)
nf_v34_ccdata_rx_init(rate_2400) ==
  [h |-> NoHistory, prev |-> -1, ones |-> 0, rate_2400 |-> rate_2400, sixteen |-> FALSE,
   hdlc |-> HdlcRx(1)]

DataBits(s, raw) ==
  LET Next1(t, b) == LET bit == Xor(b, Feedback(t.h)) IN
        [t EXCEPT !.h = Shifted(@, b), !.hdlc = nf_hdlc_rx_put_bit(@, bit),
                  !.ones = IF bit = 1 THEN @ + 1 ELSE 0]
  IN Scan(Next1, s, raw)

EPassed(t) == t.rate_2400 /\ t.ones >= 20

nf_v34_ccdata_feed_symbol(s, z) ==
  LET delta == (z.rot - s.prev) % 4
      turn == <<delta % 2, delta \div 2>>
      moved == [s EXCEPT !.prev = z.rot] IN
  IF s.prev < 0 THEN moved
  ELSE IF s.sixteen THEN DataBits(moved, turn \o <<z.base % 2, z.base \div 2>>)
  ELSE LET t == DataBits(moved, turn) IN [t EXCEPT !.sixteen = EPassed(t)]

-----------------------------------------------------------------------------
(* Which preamble a burst opens with: quarter turns of Sh among sixteen    *)
(* steps, and the correlation with PPh squared (both scores against 3/4).  *)
v34_cc_sh_score(z) ==
  LET lim == IF Len(z) < 48 THEN Len(z) ELSE 48
      Good(i) == {k \in i..i + 15 : (z[k + 1].rot - z[k].rot) % 2 = 1}
  IN lim >= 18 /\ \E i \in 1..lim - 16 : 4 * Cardinality(Good(i)) >= 3 * 16

v34_cc_pph_score(z) ==
  LET ref == nf_v34_cc_tx_pph(nf_v34_cc_tx_init).sym
      At1(a, d) == Cardinality({i \in 1..32 : (z[a + i].rot - ref[i].rot) % 4 = d})
  IN \E a \in 0..Len(z) - 32 :
       LET x == At1(a, 0) - At1(a, 2)
           y == At1(a, 1) - At1(a, 3) IN 16 * (x * x + y * y) >= 9 * 32 * 32

(* v34_sess_process_cc: the MPh frames, the T.30 frames and whether the    *)
(* burst starts the control channel anew.                                  *)
v34_sess_process_cc(z, rate_2400) ==
  LET mp == Scan(nf_v34_mp_feed_symbol, nf_v34_mp_rx_init, z)
      cc == Scan(nf_v34_ccdata_feed_symbol, nf_v34_ccdata_rx_init(rate_2400), z)
      Good(f) == f.ok IN
  [mph |-> mp.found, frames |-> SelectSeq(cc.hdlc.out, Good),
   reneg |-> mp.found # <<>> \/ (v34_cc_pph_score(z) /\ ~v34_cc_sh_score(z))]
=============================================================================
