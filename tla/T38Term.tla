------------------------------- MODULE T38Term -------------------------------
(***************************************************************************)
(* The T.38 terminal (nf_t38.c): one end transmits bursts for its T.30     *)
(* engine, the other turns the packets it hears into the calls a modem     *)
(* would have made. Between them is Udptl. The T.30 engines are            *)
(* represented by the calls they may make.                                 *)
(***************************************************************************)
EXTENDS Udptl, SequencesExt

CONSTANTS
  Redundancy,  \* UDPTL redundancy of the call, 2 in the program
  Repeats,     \* T38_IND_REPEAT
  Bursts,      \* how many bursts the sending engine asks for
  Frames,      \* frames of a streamed burst
  Chunks,      \* packets a frame, or the image data of a burst, takes
  HalfDuplex   \* the receiving engine retunes only between frames

ASSUME T38Assumption ==
  /\ Redundancy \in Nat /\ Redundancy + 2 < BUF /\ Repeats \in Nat \ {0}
  /\ Bursts \in Nat /\ Frames \in Nat \ {0} /\ Chunks \in Nat \ {0}
  /\ HalfDuplex \in BOOLEAN

red_hs == Redundancy
red_ls == Redundancy + 2

VARIABLES
  tx_phase, tx_next_phase,
  tx_ind_left,   \* repeats of the indicator still to send
  burst,         \* what set_tx_type and send_hdlc asked for
  asked,         \* bursts asked for so far; the number of the present one
  frame,         \* frames of the burst taken from the engine
  chunk,         \* packets sent of the present frame, or of the image
  completed,     \* history: SEND_STEP_COMPLETE was given for the present burst
  said,          \* history: what a perfect line would let the far engine hear
  rx_hdlc,       \* the frame being received
  rx_carrier, rx_is_fast,
  rx_on,         \* the receiving engine has not finished
  heard          \* history: the calls made to the receiving engine

burstVars == <<burst, asked>>
txState == <<tx_phase, tx_next_phase, tx_ind_left, burst, asked, frame, chunk, completed, said>>
rxState == <<rx_hdlc, rx_carrier, rx_is_fast, rx_on, heard>>
vars == <<out, rxVars, txState, rxState>>

(* What the engine asks for: a tone, a pause, silence, one control frame, a  *)
(* stream of frames, or image data; on V.21 or on a fast modem.              *)
Tones == {[kind |-> "CED", fast |-> FALSE], [kind |-> "CNG", fast |-> FALSE]}
Silence == [kind |-> "NONE", fast |-> FALSE]
Pause == [kind |-> "PAUSE", fast |-> FALSE]
WithData ==
  {[kind |-> "frame", fast |-> FALSE], [kind |-> "stream", fast |-> FALSE],
   [kind |-> "stream", fast |-> TRUE], [kind |-> "image", fast |-> TRUE]}
Requests == Tones \cup {Silence, Pause} \cup WithData

(* map_modem *)
tx_ind ==
  CASE burst \in Tones -> burst.kind
    [] burst.fast -> "TRAINING"
    [] burst \in WithData /\ ~burst.fast -> "V21_PREAMBLE"
    [] OTHER -> "NO_SIGNAL"

Ind(v) == [ind |-> v]
Data(ft, payload) == [ind |-> "data", ft |-> ft, p |-> payload]

emit_indicator(o, v) == nf_udptl_build(o, Ind(v), red_ls)
emit_data(o, ft, payload) ==
  nf_udptl_build(o, Data(ft, payload), IF burst.fast THEN red_hs ELSE red_ls)

(* A call to the receiving engine: the carrier comes or goes, a frame, data. *)
Event(what) == [call |-> what, p |-> <<>>]
FrameEvent(chunks) == [call |-> "FRAME", p |-> chunks]
DataEvent(payload) == [call |-> "DATA", p |-> payload]

(* A fast carrier is up: begun by its indicator, not yet ended. *)
OnAir == Len(said) > 0 /\ \E i \in 1..Len(said) :
           said[i] = Event("UP") /\ \A j \in i+1..Len(said) : said[j] # Event("DOWN")

-----------------------------------------------------------------------------
(* The sender. *)

(* What the engine may ask for now: a tone when it starts; a control frame   *)
(* when idle or in the middle of its tone, for an answer came; a pause or a  *)
(* fast burst after a control frame; silence at any time, and nothing after. *)
MayAsk(req) ==
  CASE req \in Tones -> asked = 0
    [] req = Silence -> asked > 0 /\ burst # Silence
    [] req = Pause \/ req.fast -> completed /\ burst \notin Tones
    [] OTHER -> completed \/ burst \in Tones

Dev_set_tx_type(req) ==
  /\ asked < Bursts /\ MayAsk(req)
  /\ burst' = req /\ asked' = asked + 1
  /\ tx_phase' = (IF req = Pause THEN "TX_PAUSE_WAIT" ELSE "TX_IND")
  /\ tx_ind_left' = (IF req = Pause \/ req.fast THEN 0 ELSE Repeats)
  /\ frame' = 0 /\ chunk' = 0 /\ completed' = FALSE
  /\ said' = (IF OnAir THEN Append(said, Event("DOWN")) ELSE said)
  /\ UNCHANGED <<tx_next_phase, out>>

(* set_tx_type, and send_hdlc or begin_hdlc_stream after it. *)
set_tx_type(req) ==
  /\ asked < Bursts /\ MayAsk(req)
  /\ burst' = req /\ asked' = asked + 1
  /\ tx_phase' = (IF req = Pause THEN "TX_PAUSE_WAIT" ELSE "TX_IND")
  /\ tx_ind_left' = (IF req = Pause \/ req.fast THEN 0 ELSE Repeats - 1)
  /\ frame' = 0 /\ chunk' = 0 /\ completed' = FALSE
  /\ said' = (IF OnAir THEN Append(said, Event("DOWN")) ELSE said)
  /\ UNCHANGED <<tx_next_phase, out>>

(* TX_IND: send the indicator, repeat it, and decide what follows. *)
PumpIndicator ==
  /\ tx_phase = "TX_IND"
  /\ out' = emit_indicator(out, tx_ind)
  /\ said' = (IF burst.fast THEN Append(said, Event("UP")) ELSE said)
  /\ IF tx_ind_left > 0
     THEN /\ tx_ind_left' = tx_ind_left - 1
          /\ UNCHANGED <<tx_phase, tx_next_phase>>
     ELSE /\ tx_phase' = (CASE burst = Silence -> "TX_IDLE"
                            [] burst \in Tones -> "TX_TONE_WAIT"
                            [] OTHER -> "TX_IND_WAIT")
          /\ tx_next_phase' = (IF burst \notin WithData THEN tx_next_phase
                               ELSE IF burst.kind = "image" THEN "TX_NONECM"
                               ELSE "TX_HDLC_DATA")
          /\ UNCHANGED tx_ind_left
  /\ UNCHANGED <<burstVars, frame, chunk, completed>>

(* TX_IND_WAIT: the gateway has had its time for training or preamble. *)
PumpIndicatorWait ==
  /\ tx_phase = "TX_IND_WAIT"
  /\ tx_phase' = tx_next_phase
  /\ UNCHANGED <<tx_next_phase, tx_ind_left, burstVars, frame, chunk, completed, said, out>>

FramesOf(b) == IF b.kind = "stream" THEN Frames ELSE 1

(* TX_HDLC_DATA: take a frame when the last is sent, send a chunk of it. *)
PumpHdlcData ==
  /\ tx_phase = "TX_HDLC_DATA"
  /\ IF chunk = 0 /\ frame = FramesOf(burst)
     THEN /\ tx_phase' = "TX_HDLC_DRAIN"
          /\ UNCHANGED <<frame, chunk, out>>
     ELSE LET f == IF chunk = 0 THEN frame + 1 ELSE frame IN
          /\ out' = emit_data(out, "HDLC_DATA", <<asked, f, chunk + 1>>)
          /\ frame' = f
          /\ chunk' = (chunk + 1) % Chunks
          /\ tx_phase' = (IF chunk + 1 = Chunks THEN "TX_HDLC_FCS" ELSE tx_phase)
  /\ UNCHANGED <<tx_next_phase, tx_ind_left, burstVars, completed, said>>

Frame(b, f) == [k \in 1..Chunks |-> <<b, f, k>>]

Dev_PumpHdlcFcs ==
  /\ tx_phase = "TX_HDLC_FCS"
  /\ out' = emit_data(out, "HDLC_FCS_OK", <<>>)
  /\ said' = Append(said, FrameEvent(Frame(asked, frame)))
  /\ tx_phase' = "TX_HDLC_DRAIN"
  /\ UNCHANGED <<tx_next_phase, tx_ind_left, burstVars, frame, chunk, completed>>

(* TX_HDLC_FCS *)
PumpHdlcFcs ==
  /\ tx_phase = "TX_HDLC_FCS"
  /\ out' = emit_data(out, "HDLC_FCS_OK", <<>>)
  /\ said' = Append(said, FrameEvent(Frame(asked, frame)))
  /\ tx_phase' = (IF burst.kind = "stream" THEN "TX_HDLC_DATA" ELSE "TX_HDLC_DRAIN")
  /\ UNCHANGED <<tx_next_phase, tx_ind_left, burstVars, frame, chunk, completed>>

Dev_PumpHdlcDrain ==
  /\ tx_phase = "TX_HDLC_DRAIN" /\ ~burst.fast
  /\ tx_phase' = "TX_HDLC_END"
  /\ UNCHANGED <<tx_next_phase, tx_ind_left, burstVars, frame, chunk, completed, said, out>>

(* TX_HDLC_DRAIN: the modem at the gateway has played the burst out. *)
PumpHdlcDrain ==
  /\ tx_phase = "TX_HDLC_DRAIN"
  /\ tx_phase' = "TX_HDLC_END"
  /\ UNCHANGED <<tx_next_phase, tx_ind_left, burstVars, frame, chunk, completed, said, out>>

step_complete ==
  /\ tx_phase' = "TX_IDLE" /\ completed' = TRUE
  /\ UNCHANGED <<tx_next_phase, tx_ind_left, burstVars, frame, chunk>>

(* TX_HDLC_END, TX_NONECM_END: the end of the data and of the signal. *)
PumpEnd ==
  /\ tx_phase \in {"TX_HDLC_END", "TX_NONECM_END"}
  /\ LET ft == IF tx_phase = "TX_HDLC_END" THEN "HDLC_SIG_END" ELSE "T4_NON_ECM_SIG_END" IN
     out' = emit_indicator(emit_data(out, ft, <<>>), "NO_SIGNAL")
  /\ said' = (IF burst.fast THEN Append(said, Event("DOWN")) ELSE said)
  /\ step_complete

(* TX_NONECM, TX_NONECM_TRAIL: image data, then a tail of zeros. *)
PumpImage ==
  /\ tx_phase = "TX_NONECM"
  /\ out' = emit_data(out, "T4_NON_ECM_DATA", <<asked, 0, chunk + 1>>)
  /\ said' = Append(said, DataEvent(<<asked, 0, chunk + 1>>))
  /\ chunk' = chunk + 1
  /\ tx_phase' = (IF chunk + 1 = Chunks THEN "TX_NONECM_TRAIL" ELSE tx_phase)
  /\ UNCHANGED <<tx_next_phase, tx_ind_left, burstVars, frame, completed>>

PumpTrail ==
  /\ tx_phase = "TX_NONECM_TRAIL"
  /\ out' = emit_data(out, "T4_NON_ECM_DATA", <<asked, 0, 0>>)
  /\ said' = Append(said, DataEvent(<<asked, 0, 0>>))
  /\ tx_phase' = "TX_NONECM_END"
  /\ UNCHANGED <<tx_next_phase, tx_ind_left, burstVars, frame, chunk, completed>>

(* TX_TONE_WAIT, TX_PAUSE_WAIT *)
PumpWait ==
  /\ tx_phase \in {"TX_TONE_WAIT", "TX_PAUSE_WAIT"}
  /\ step_complete
  /\ UNCHANGED <<said, out>>

nf_t38_pump ==
  \/ PumpIndicator \/ PumpIndicatorWait \/ PumpHdlcData \/ PumpHdlcFcs
  \/ PumpHdlcDrain \/ PumpEnd \/ PumpImage \/ PumpTrail \/ PumpWait

-----------------------------------------------------------------------------
(* The receiver. r is its state while it goes through what arrived. *)

Tell(r, event) == [r EXCEPT !.heard = IF r.on THEN Append(@, event) ELSE @]

Dev_rx_carrier_down(r) == IF r.carrier /\ r.fast THEN Tell(r, Event("DOWN")) ELSE r

rx_carrier_down(r) ==
  [(IF r.carrier /\ r.fast THEN Tell(r, Event("DOWN")) ELSE r) EXCEPT !.carrier = FALSE]

rx_indicator(r, ind) ==
  LET d == [rx_carrier_down(r) EXCEPT !.hdlc = <<>>] IN
  CASE ind \in {"NO_SIGNAL", "CED", "CNG"} -> [d EXCEPT !.fast = FALSE]
    [] ind = "V21_PREAMBLE" -> [d EXCEPT !.fast = FALSE, !.carrier = TRUE]
    [] OTHER -> Tell([d EXCEPT !.fast = TRUE, !.carrier = TRUE], Event("UP"))

(* A frame marked good goes up as good; a bad one the engine drops. *)
rx_hdlc_frame(r) ==
  [(IF r.hdlc = <<>> THEN r ELSE Tell(r, FrameEvent(r.hdlc))) EXCEPT !.hdlc = <<>>]

rx_data_field(r, ft, payload) ==
  CASE ft = "HDLC_DATA" -> [r EXCEPT !.hdlc = Append(@, payload)]
    [] ft = "HDLC_FCS_OK" -> rx_hdlc_frame(r)
    [] ft = "HDLC_SIG_END" -> rx_carrier_down(rx_hdlc_frame(r))
    [] ft = "T4_NON_ECM_DATA" -> Tell(r, DataEvent(payload))
    [] ft = "T4_NON_ECM_SIG_END" -> rx_carrier_down(r)

rx_ifp(r, item) ==
  IF item.ifp.ind = "data" THEN rx_data_field(r, item.ifp.ft, item.ifp.p)
  ELSE rx_indicator(r, item.ifp.ind)

(* nf_t38_rx_datagram: every packet UDPTL hands up, in its order. *)
RxDatagram(n) ==
  /\ nf_udptl_rx(n)
  /\ LET before == [hdlc |-> rx_hdlc, carrier |-> rx_carrier, fast |-> rx_is_fast,
                    on |-> rx_on, heard |-> heard]
         after == FoldLeft(rx_ifp, before,
                           IF IsOld(out.sent[n].seq) THEN <<>> ELSE HandedUp(n)) IN
     /\ rx_hdlc' = after.hdlc /\ rx_carrier' = after.carrier
     /\ rx_is_fast' = after.fast /\ heard' = after.heard
  /\ UNCHANGED <<out, txState, rx_on>>

(* set_rx_type. The engine retunes after a frame (nothing is half received)  *)
(* or, when a transmission of its own is complete, in the middle of one.     *)
set_rx_type(type) ==
  /\ rx_on /\ (HalfDuplex => rx_hdlc = <<>>)
  /\ rx_hdlc' = <<>>
  /\ rx_carrier' = (rx_carrier /\ type # "NONE")
  /\ rx_on' = (type # "NONE")
  /\ UNCHANGED <<out, rxVars, txState, rx_is_fast, heard>>

-----------------------------------------------------------------------------
Init ==
  /\ UdptlInit
  /\ tx_phase = "TX_IDLE" /\ tx_next_phase = "TX_IDLE" /\ tx_ind_left = 0
  /\ burst = Silence /\ asked = 0 /\ frame = 0 /\ chunk = 0
  /\ completed = FALSE /\ said = <<>>
  /\ rx_hdlc = <<>> /\ rx_carrier = FALSE /\ rx_is_fast = FALSE
  /\ rx_on = TRUE /\ heard = <<>>

Ask == \E req \in Requests : set_tx_type(req)
Pump == nf_t38_pump /\ UNCHANGED <<rxVars, rxState>>
Arrive == \E n \in 1..Len(out.sent) : RxDatagram(n)
Retune == \E type \in {"V21", "NONE"} : set_rx_type(type)

Next ==
  \/ Ask /\ UNCHANGED <<rxVars, rxState>>
  \/ Pump \/ Arrive \/ Retune

Spec == Init /\ [][Next]_vars

(* The call loop pumps the terminal every tick. *)
FairSpec == Spec /\ WF_vars(Pump)

-----------------------------------------------------------------------------
TypeOK ==
  /\ tx_phase \in {"TX_IDLE", "TX_IND", "TX_IND_WAIT", "TX_HDLC_DATA", "TX_HDLC_FCS",
                  "TX_HDLC_DRAIN", "TX_HDLC_END", "TX_NONECM", "TX_NONECM_TRAIL",
                  "TX_NONECM_END", "TX_TONE_WAIT", "TX_PAUSE_WAIT"}
  /\ tx_next_phase \in {"TX_IDLE", "TX_NONECM", "TX_HDLC_DATA"}
  /\ tx_ind_left \in 0..Repeats-1 /\ burst \in Requests /\ asked \in 0..Bursts
  /\ frame \in 0..Frames /\ chunk \in 0..Chunks
  /\ {completed, rx_carrier, rx_is_fast, rx_on, rx_started} \subseteq BOOLEAN
  /\ rx_seq_no \in 0..SEQ-1 /\ out.tx_seq_no = Len(out.sent)
  /\ Len(rx_hdlc) <= Chunks

(* While the network loses no more in a row than each datagram repeats, the *)
(* receiving engine hears what it would on a perfect line, in order and up  *)
(* to some moment: each frame whole and once, each fast carrier come up and *)
(* gone down around its own data, also when bursts are cut short by silence *)
(* (nf_t38.c: rx_carrier_down, rx_indicator, T38_IND_REPEAT).               *)
(* When the last datagram is in and the sender idle, it has heard it all.   *)
HeardAsSaid ==
  /\ IsPrefix(heard, said)
  /\ rx_on /\ next > Len(out.sent) /\ tx_phase = "TX_IDLE" => heard = said

(* A frame handed up as good is a whole frame that was sent (nf_t38.c:290,  *)
(* "Reset any half-assembled HDLC frame when switching rx mode").           *)
FramesWhole ==
  \A i \in 1..Len(heard) : heard[i].call = "FRAME" =>
    \E b \in 1..Bursts, f \in 1..Frames : heard[i].p = Frame(b, f)

(* The burst a call belongs to; a carrier's coming and going is of none. *)
BurstOf(e) == IF e.p = <<>> THEN 0 ELSE IF e.call = "FRAME" THEN e.p[1][1] ELSE e.p[1]

(* SEND_STEP_COMPLETE comes only when all of the burst has gone out: T.30   *)
(* goes on to listen for the answer, or to its next burst, on this.         *)
CompleteMeansSent ==
  completed /\ burst \in WithData =>
    Cardinality({i \in 1..Len(said) : BurstOf(said[i]) = asked}) =
      IF burst.kind = "image" THEN Chunks + 1 ELSE FramesOf(burst)

(* The sender never stays in a burst: T.30 waits for its completion without *)
(* a timer (nf_t38_pump).                                                   *)
BurstEnds == tx_phase # "TX_IDLE" ~> tx_phase = "TX_IDLE"
==============================================================================
