-------------------------------- MODULE Hdlc --------------------------------
(***************************************************************************)
(* The HDLC framer of nf_hdlc.c, bit by bit: flags, zero insertion after   *)
(* five ones, the 16-bit CRC, and the receiver's hunt for flags.           *)
(* A transmitter or a receiver is a record; an operator of the code's name *)
(* maps it to its next value.  Octets are bits, least significant first.   *)
(* Of the shift register the receiver keeps of the last bits only the run  *)
(* of ones they end with is ever tested, so the run is what is kept here.  *)
(***************************************************************************)
EXTENDS Scan

END == 2                  \* NF_SIG_END_OF_DATA in place of a bit
NF_HDLC_MAXFRAME == 400

Octet(v) == [i \in 1..8 |-> (v \div 2^(i - 1)) % 2]
FlagOctet == Octet(126)

-----------------------------------------------------------------------------
(* The CRC: 0x8408 is fed back into bits 3, 10 and 15 of the register.     *)
CrcBit(crc, bit) ==
  LET fb == (crc[1] + bit) % 2 IN
  [i \in 1..16 |-> IF i = 16 THEN fb
                   ELSE IF i \in {4, 11} THEN (crc[i + 1] + fb) % 2
                   ELSE crc[i + 1]]

nf_crc16(bits) == Scan(CrcBit, [i \in 1..16 |-> 1], bits)

Residue == Octet(184) \o Octet(240)     \* 0xF0B8

-----------------------------------------------------------------------------
(* Transmitter.  queue holds the frames the underflow callback has yet to  *)
(* supply; stream is FALSE for a single frame, whose callback does nothing. *)
HdlcTx(inter, stream) ==
  [inter |-> inter, stream |-> stream, queue |-> <<>>, buf |-> <<>>, pos |-> 1,
   ones |-> 0, stuff |-> FALSE, sending |-> FALSE, bitpos |-> 0, flags |-> 0,
   report |-> FALSE, end |-> FALSE]

nf_hdlc_tx_frame(s, payload) ==
  IF payload = <<>> THEN [s EXCEPT !.end = TRUE]
  ELSE IF s.buf # <<>> \/ Len(payload) > 8 * NF_HDLC_MAXFRAME THEN s
  ELSE [s EXCEPT !.buf = payload \o [i \in 1..16 |-> 1 - nf_crc16(payload)[i]],
                 !.pos = 1, !.end = FALSE]

nf_hdlc_tx_flags(s, count) ==
  [s EXCEPT !.flags = count, !.report = TRUE, !.end = FALSE]

(* hdlc_underflow_handler, v34_pri_underflow, v34_cc_underflow. *)
underflow(s) ==
  IF ~s.stream THEN s
  ELSE IF s.queue = <<>> THEN nf_hdlc_tx_frame([s EXCEPT !.stream = FALSE], <<>>)
  ELSE nf_hdlc_tx_frame([s EXCEPT !.queue = Tail(@)], Head(s.queue))

FrameDone(s) ==
  LET u == underflow([s EXCEPT !.sending = FALSE, !.bitpos = 0, !.buf = <<>>,
                               !.report = FALSE]) IN
  [u EXCEPT !.flags = IF u.buf # <<>> THEN s.inter ELSE 3]

DataBit(s) ==
  LET bit == s.buf[s.pos]
      run == IF bit = 1 THEN s.ones + 1 ELSE 0 IN
  [bit |-> bit, tx |-> [s EXCEPT !.pos = @ + 1, !.ones = run, !.stuff = run = 5]]

FlagBit(s) ==
  LET t == [s EXCEPT !.bitpos = (@ + 1) % 8]
      u == IF t.bitpos = 0 /\ s.flags > 0 THEN [t EXCEPT !.flags = @ - 1] ELSE t
      last == t.bitpos = 0 /\ s.flags = 1 /\ s.report
      v == IF last THEN [u EXCEPT !.report = FALSE] ELSE u IN
  [bit |-> FlagOctet[s.bitpos + 1],
   tx |-> IF last /\ s.buf = <<>> THEN underflow(v) ELSE v]

nf_hdlc_tx_get_bit(s) ==
  LET done == s.sending /\ ~s.stuff /\ s.pos > Len(s.buf)
      t == IF done THEN FrameDone(s) ELSE s
      idle == t.bitpos = 0 /\ t.flags = 0 IN
  IF s.sending /\ s.stuff
    THEN [bit |-> 0, tx |-> [s EXCEPT !.stuff = FALSE, !.ones = 0]]
  ELSE IF t.sending THEN DataBit(t)
  ELSE IF idle /\ t.buf # <<>>
    THEN DataBit([t EXCEPT !.sending = TRUE, !.pos = 1, !.ones = 0, !.stuff = FALSE])
  ELSE IF idle /\ t.end THEN [bit |-> END, tx |-> [t EXCEPT !.end = FALSE]]
  ELSE FlagBit(t)

(* The bits up to the end of the transmission. *)
RECURSIVE TxBits(_)
TxBits(s) == LET r == nf_hdlc_tx_get_bit(s) IN
  IF r.bit = END THEN <<>> ELSE <<r.bit>> \o TxBits(r.tx)

(* A burst of frames streamed behind a preamble of flags. *)
StreamBits(preamble, inter, frames) ==
  TxBits(nf_hdlc_tx_flags([HdlcTx(inter, TRUE) EXCEPT !.queue = frames], preamble))

(* One control frame, closed by three flags. *)
SingleBits(preamble, inter, frame) ==
  TxBits([nf_hdlc_tx_frame(nf_hdlc_tx_flags(HdlcTx(inter, FALSE), preamble), frame)
            EXCEPT !.end = TRUE])

-----------------------------------------------------------------------------
(* Receiver.  ones is capped at 7; data are the bits since the last flag.  *)
HdlcRx(threshold) ==
  [threshold |-> threshold, ones |-> 0, seen |-> 0, num |-> 0, data |-> <<>>,
   out |-> <<>>]

(* What synchronisation is left after a break in the flags. *)
Dev_Unsettled(s) == 0
Unsettled(s) == IF s.seen < s.threshold - 1 THEN 0 ELSE s.threshold - 1

HandlerCall(s) ==
  LET octets == SubSeq(s.data, 1, Len(s.data) - s.num)
      whole == s.num = 7 /\ Len(octets) >= 16 IN
  IF octets = <<>> THEN s.out
  ELSE Append(s.out,
         [payload |-> IF whole THEN SubSeq(octets, 1, Len(octets) - 16) ELSE <<>>,
          ok |-> whole /\ nf_crc16(octets) = Residue])

rx_flag(s) ==
  LET kept == IF s.seen # s.threshold - 1 /\ s.num # 7 THEN Unsettled(s) ELSE s.seen IN
  IF s.seen >= s.threshold THEN [s EXCEPT !.out = HandlerCall(s)]
                           ELSE [s EXCEPT !.seen = kept + 1]

rx_flag_or_abort(s, abort) ==
  LET t == IF abort THEN [s EXCEPT !.seen = Unsettled(s)] ELSE rx_flag(s) IN
  [t EXCEPT !.num = 0, !.data = <<>>]

(* A bit of a frame, or of what lies before the first flags. *)
DataIn(s, bit) ==
  LET t == [s EXCEPT !.num = @ + 1]
      u == [t EXCEPT !.data = Append(@, bit), !.num = @ % 8] IN
  IF s.seen < s.threshold THEN t
  ELSE IF u.num = 0 /\ Len(u.data) > 8 * (NF_HDLC_MAXFRAME + 2)
    THEN [u EXCEPT !.data = <<>>, !.seen = s.threshold - 1]
  ELSE u

nf_hdlc_rx_put_bit(s, bit) ==
  LET t == CASE s.ones = 5 /\ bit = 0 -> s
             [] s.ones = 6 -> rx_flag_or_abort(s, bit = 1)
             [] OTHER -> DataIn(s, bit) IN
  [t EXCEPT !.ones = IF bit = 0 THEN 0 ELSE IF @ = 7 THEN 7 ELSE @ + 1]

RxAfter(s, bits) == Scan(nf_hdlc_rx_put_bit, s, bits)

(* The frames handed up with a good CRC. *)
Accepted(threshold, bits) ==
  LET Good(f) == f.ok IN SelectSeq(RxAfter(HdlcRx(threshold), bits).out, Good)
=============================================================================
