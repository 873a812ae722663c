# Verification of the fax engine

This directory holds TLA+ models of the program in the parent repository: a fax
sender, receiver and SIP daemon with its own T.30 engine, modems, T.38 terminal
and V.34 session. The models are translated from the C source; `PROJECT.json`
names, for every definition, the lines it stands for.

## 1. The system

| Component | Source | State it keeps | Operations | Interacts with |
|---|---|---|---|---|
| T.30 engine | `nf_t30.c` | substate, one timer, negotiated modem and rate, page and block cursors, retry counters, frames of the block being received, page buffers | `on_hdlc`, `on_status`, `on_timer`, `on_get_frame`, `on_get_bit`, `on_put_bit`, `start` | drives a modem backend through `nf_modem_ops_t` (`set_tx_type`, `set_rx_type`, `send_hdlc`, `begin_hdlc_stream`), is called back by it |
| Modem driver | `nf_fax.c` | one transmit step, the V.21 and the fast receiver | `nf_fax_tx`, `nf_fax_rx`, `set_tx_type`, `set_rx_type` | modems, HDLC framer, V.8, V.34 session |
| HDLC framer | `nf_hdlc.c` | bit shift register, ones count, frame buffer, transmit queue | `nf_hdlc_rx_put_bit`, `nf_hdlc_tx_get_bit` | modem driver |
| T.38 terminal | `nf_t38.c` | transmit phase, current carrier, frame under assembly | `nf_t38_pump`, `nf_t38_rx_datagram` | T.30 engine, UDPTL |
| UDPTL | `nf_udptl.c` | next sequence numbers, history of sent packets | `nf_udptl_build`, `nf_udptl_rx` | T.38 terminal, network |
| V.8 | `nf_v8.c` | negotiation phase, message under assembly, timers | `nf_v8_tx`, `nf_v8_rx` | modem driver |
| V.34 session | `nf_v34.c` | startup phase, burst queues, control channel, rates | `nf_v34_sess_tx`, `nf_v34_sess_rx` | modem driver |
| SIP | `sip.c`, `sip_util.c` | dialog, transaction timers, stored ACK or 200 | `sip_media_establish`, `sip_media_poll_sip`, `sip_offer_t38`, `sip_media_hangup` | network, call loops |
| Daemon and call loops | `sip_fax.c` | call slots, child processes, control sockets | `daemon_dispatch`, `daemon_accept`, `daemon_reap`, `run_fax_media` | SIP, T.30 engine |
| Codecs | `nf_t4.c`, `nf_color.c`, `g711.c` | row and run buffers | encode, decode | T.30 engine, TIFF files |
| Signal processing | `nf_v17.c`, `nf_v27.c`, `nf_v29.c`, `nf_v21.c`, `nf_qam.c`, `nf_dsp.c` | filters, equalizers | modulate, demodulate | modem driver |

Each engine is single-threaded and driven by the sample clock; the difficulty is
that two engines face each other over a line that loses and corrupts frames in
both directions, with one timer each, and that several events disarm that timer.
The daemon adds processes: a parent owns all SIP, each call's media is a forked
child, and the two meet over a control socket and SIGCHLD.

### What would make each part correct

* **ECM page transfer.** The receiver's pages are the sender's pages, whole, once
  and in order; a page counted as sent has been written; success reported at one
  end means success at the other; both ends use the same modem whenever image data
  is on its way; the retry limits hold; the call ends.
* **Phase B and the page transfer without ECM.** A page is decoded at the rate its
  TCF was judged at; a rejected page is sent again and counted once; the ladder
  ends; both ends end the call.
* **Modem driver.** Every transmit step completes exactly once; a control frame is
  received whatever the fast receiver is doing.
* **UDPTL.** Packets are handed up in order, each at most once, and one lost
  datagram is covered by the next.
* **T.38 terminal.** A frame delivered as good is a frame that was sent; a carrier
  that came up goes down.
* **V.8, V.34.** Both ends reach the same verdict; the rate only falls until the
  session ends.
* **SIP and daemon.** One slot per call, every call ended exactly once by one BYE
  at most from each side, retransmissions answered and never taken for new
  requests, a slot reused with nothing of the call before.

The hazards of the code, each at its line and with the properties that watch it,
are listed in `PROJECT.json`.

## 2. Plan

1. `FaxLadder`, `FaxLadderProofs` - the modem ladder and its functions. **Done.**
2. `PageTransfer` - the abstract transfer of a document: write a page, confirm it.
   **Done.**
3. `T30Ecm`, `T30EcmProofs`, `T30EcmTurnProofs` - error correction mode, refining
   `PageTransfer`. **Done**; safety and, when no timer races, delivery and the
   refinement are proved.
4. `T30Call`, `T30CallProofs` - phases A and B (DIS, DTC, DCS,
   TCF, CFR, FTT), the page transfer without ECM (MPS, EOP, MCF, RTN), polling;
   refining `PageTransfer`. **Done**; safety and the refinement are proved. The
   entries to a call from T.38 are left; those from V.8 and V.34 are in `T30AnnexF`.
5. `T30PostTiming` - the same post-message exchange with clocks: 7 s against 6 s
   and the length of a V.21 frame. Left.
6. `Udptl` - sequence numbers and redundancy over a network that loses, duplicates
   and reorders. **Done**, and proved (`T38Proofs`).
7. `T38Term` - the transmit phases and the receive fields, over `Udptl`. **Done**,
   and its safety proved (`T38Proofs`).
8. `Hdlc` - the framer bit by bit; `EcmLine` sends the blocks of `T30Ecm` through
   it. **Done.**
9. `FaxModem` - the transmit steps and receive modes of `nf_fax.c` for the classic
   modems. Left.
10. `FaxLine`, `V8` - the two V.8 ends over a line of continuous signals. **Done.**
11. `SipUa`, `SipDaemon`, `SipCall` - transactions, slots, children. **Done**; every
    invariant of the passing run is proved (`SipCallProofs`).
12. `V34Phase2`, `V34Session`, `T30AnnexF`, `SuperG3` - the V.34 call from V.8 to the
    page, with control channel, primary bursts, retrain and rate fallback. **Done**; every
    safety property of the run is proved (`SuperG3Proofs`, `SuperG3RateProofs`).
    `V34Map`, `V34Cc` - what is between its bits and its symbols. **Done.**
13. `T4Codec`, `PageLine` - the page codec, and the pages of `T30Call` sent through
    it. **Done.**

Which module composes which:

```
PageTransfer <--refined by-- T30Ecm   <--coded by-- EcmLine  (Hdlc, V34Map, V34Cc)
             <--refined by-- T30Call  <--coded by-- PageLine (T4Codec)
Udptl <- T38Term
SipUa <- SipDaemon <- SipCall
FaxLine <- V8, V34Phase2;  V34Phase2 <- V34Session <- T30AnnexF;  V8, T30AnnexF <- SuperG3
```

## 3. Error correction mode (`T30Ecm`)

### Correspondence with the code

`T30Ecm` is two engines and a line. Each side's `substate` is `cst` or `ast`, and
the names of the substates are those of `nf_t30.c`. The other variables carry the
source's names; those of the answerer's struct that clash with the caller's get
their own (`rfallback` is the answerer's `fallback`).

* An action `Send...` is the SEND_STEP_COMPLETE event of the modem in a sending
  substate: the message goes on the line, or is lost, and the engine does what
  `on_status` does. `Hear...` is one call of `on_hdlc` (or, for the end of a burst,
  of `on_status` with CARRIER_DOWN). `Expire...` is `on_timer` running out.
* One page is a sequence of blocks, one block a number of FCD frames. A frame is
  represented by where it comes from, `<<page, block, number>>`, so that the pages
  the answerer writes can be compared with the document. A burst is one message:
  the frames of it that survive, whether its end is noticed, and the ladder row it
  was modulated at.
* The line is two queues. A sender appends a message or does not (loss); order is
  kept, as on a telephone line and through UDPTL, which drops what comes late.
  `link` distinguishes the audio modems, a V.34 call, and the T.38 terminal: over
  T.38 any burst is decoded whatever rate was announced, FCD frames reach `on_hdlc`
  outside A_RECV_ECM too, and the end of a carrier is a packet of its own that may
  be lost.
* `finish()` resets the transmitter, so the DCN that error paths queue just before
  it (`C_WAIT_EOR`, `on_timer`, the V.34 PPR limit) is not sent. `CallerFinish`
  and `AnswererFinish` therefore put nothing on the line.
* The caller counts the frames of a PPS from `ecm_burst`; the answerer locks the
  block size from the first PPS of the block (`BlockSize`).
* Left out: RNR (this answerer never sends it), EOM (this caller never sends it),
  CRP, the fault injection of `NF_ECM_DROP`, station identifiers, what a page
  contains, and a failure to write it: `pages_rx` counts a page before
  `write_rx_page` opens the file, and does not hear if that fails
  (`nf_t30.c:756-758`, `1355-1357`). `ecm_data` entries keep `NoFrame` where the code keeps `ecm_len = -1`.

`Racing` chooses the timing assumption. With `Racing = FALSE` a timer expires only
when nothing is on the line and the other side is not sending: the timers (6 s,
7 s, 15 s) are longer than any answer. With `TRUE` an expiry may race an answer,
which is what the comment in `on_timer` expects of a T.38 gateway.

### Properties

| Property | Kind | Says |
|---|---|---|
| `TypeOK` | invariant | types, and the limits of the retry counters |
| `PagesIntact` | invariant | every page written is that page of the document |
| `PagesConfirmed` | invariant | the caller's page count trails the file by at most one page and never leads |
| `CallerSuccess` | invariant | the caller reports OK only with the whole document in the file |
| `AnswererSuccess` | invariant | the answerer reports OK only if the caller does |
| `RateAgreed` | invariant | image data reaches a listening answerer at the row it listens at |
| `BurstCoversMissing` | invariant | no missing frame is left out of a burst, no foreign frame is kept |
| `RepeatMeansMissed` | action | an MCF is repeated only if the first one was missed |
| `CallEnds` | liveness | both ends finish (audio and V.34) |
| `AnswererEnds` | liveness | the answerer finishes (checked where it fails: T.38) |
| `DeliversPages` | refinement | `T30Ecm` implements `PageTransfer` |
| `FramesSurvive`, `BurstSurvives`, `ControlSurvives` | action | what the coding makes of each block and answer (section 8) |

### Runs

* `ecm_call` (`EcmCall.cfg`, `MCEcmLine`): three pages, the first of three blocks, over all
  three kinds of line, with the program's limits (3 repeats, 4 PPRs, 16 over V.34)
  and two rows of the ladder (V.27ter 4800 and 2400), so that the caller steps down
  once and then gives up. `OCTET = 2` makes the page and block octets wrap within
  the document, as 256 blocks would: two neighbouring blocks never share a number,
  which is what re-acknowledgement relies on. Two frames per block suffice to lose
  one, both or none. All properties except `AnswererEnds` hold. The last three belong
  to `EcmLine`, which extends `T30Ecm`; see section 8.
* `ecm_late` (`EcmLate.cfg`): two blocks, `Racing = TRUE`, limits of 1 and 2.
  `AnswererSuccess` survives; the delivery properties do not.
* `ecm_late_answer`: shows why. The caller repeats a PPS whose MCF is late, the
  answerer sends a second MCF, and the caller takes it for the acknowledgement of
  the next block, since MCF carries no number. TLC's trace ends at the repeated
  acknowledgement; a few steps on the caller is a block ahead of the answerer.
* `ecm_t38_hang`: over T.38 the answerer hears one frame of a block (its timer is
  disarmed), the packet that ends the carrier is lost and the caller's PPS
  repetitions too. Nothing arms the timer again.

Only `CHECK_DEADLOCK FALSE` is given: both ends stop when the call is over.

Fairness (`FairSpec`): weak fairness of each side's sending, hearing and expiring.
All three are driven by the sample clock: a burst ends, what arrives is passed up,
an armed timer runs out. The line owes nothing; it may lose everything.

## 4. The classic call (`T30Call`)

### Correspondence with the code

`T30Call` is a whole call over the audio modems without error correction, from CED
to DCN. The two parties are indexed (`st[p]`, `timer[p]`, `result[p]`), because who
sends is a matter of the call: the caller, or the polled answerer (`Sender`,
`Receiver`). `setup` says whether the caller polls, whether the answerer holds a
document, and whether the receiver can take the document's payload kind.

* As in `T30Ecm`, `Send...` is SEND_STEP_COMPLETE, `Hear...` one call of `on_hdlc`
  (or CARRIER_DOWN of the fast receiver), `Expire...` one of `on_timer`.
  `send_ctrl_burst` is one step that puts a station identifier and a frame on the
  line, each of which may be lost.
* A queue entry is a frame or a fast carrier with the ladder row it was modulated
  at. The receiver decodes a carrier only while its fast modem listens (`fast`) at
  that row; any other carrier goes by (`IgnoreCarrier`). How a TCF is judged, and
  whether a page's copy quality passes, is up to the line: both outcomes are tried.
* A frame that means nothing in the present substate is not without effect:
  `on_hdlc` disarms the timer before it looks at the substate, and `nf_fax.c` goes
  back to V.21 (`IgnoreFrame`).
* `DisBits`, `Advertised`, `PickFallback` and `ParseDcs` are the tables by which DIS
  advertises modems and DCS announces a row. A DIS that offers no common modem, or
  the wrong payload kind, ends the call (`HearCapsAbort`).
* A carrier that breaks off early still ends in CARRIER_DOWN. If the lines received
  until then are good the code writes them as a page, which the model counts as the
  page: what a page contains is not modelled.
* Left out: the entries to a call from T.38, V.8 and Annex F of T.30 (V.34); EOM and
  RTP, which this program never sends; the identifiers' text; a failure to write a
  page, which the code does not notice either (`nf_t30.c:756-758`, `828-830`).

`racing` is `Racing` of `T30Ecm`, here a part of the state. Unless it is TRUE, a
timer expires only when nothing is on the line and the peer transmits nothing. Two
exceptions are in the code's numbers: the 3 s between two DIS are shorter than a
DCS with its training check, and the 35 s after FTT, RTN or DTC are longer than the
6 or 7 s of a waiting peer.

### Properties

| Property | Kind | Says |
|---|---|---|
| `TypeOK` | invariant | types; repeats of DIS and of the post-message, and rejections of a page, stay within the limits |
| `SuccessAgreed` | invariant | the receiver reports OK only if the sender does, and the sender only with the whole document in the receiver's file |
| `RateAgreed` | invariant | a carrier meets a listening receiver at its row; a page is sent at the row its training check passed |
| `CallInv` | invariant | the turn to act is in one place: the inductive invariant of the proof |
| `DeliversPages` | refinement | `T30Call` implements `PageTransfer` |
| `CallEnds` | liveness | both ends finish, when the line loses only messages in `Tolerated` |
| `RowsSurvive` | action | what the codec makes of each page (section 8) |
| `DcsWithinCaps` | invariant | DCS announces a modem the receiver advertised (checked where it fails) |
| `RepeatAnswered` | action | a repeated post-message is answered (checked where it fails) |

### Runs

* `call` (`T30CallAll.cfg`, `MCPageLine`): two pages, so that MPS, EOP and the step from one page
  to the next all happen; every setup; timers racing or not; a line that may lose
  any message, and one that may lose those in `Tolerated`. The caller allows four
  rows of the ladder (V.29 9600 to V.27ter 2400), enough for a page to be rejected twice, the
  limit, with training checks failing too. One repeat of DIS and one of the
  post-message stand for ten and three: the code compares the counters only with
  their limits. All properties hold, also with racing timers, except that
  `CallEnds` speaks of timers that do not race.
* `call_caps`: after FTT the sender of 9600 bit/s by V.29 announces V.17 at 7200,
  which the receiver did not offer, because `next_allowed_fb` looks at the sender's
  own mask only.
* `call_repeat`: the MCF for the first page is lost, the sender repeats MPS, and the
  receiver, in A_RECV_IMAGE, does not answer.

`CallEnds` needs `Tolerated`. The timers cover a lost identifier, TCF, FTT, MPS,
EOP or DCN. They do not cover the others, each of which leaves one end waiting
without a timer: after a lost CFR or MCF, or an untrained page, the receiver is in
A_RECV_IMAGE, which has none; after a lost DCS the answerer's next DIS disarms the
sender's wait for CFR; a DIS, DTC or RTN lost after its identifier was heard does
the same to the end that waits for it. The program then depends on the call being
cleared by the network, or by a user.

Fairness (`FairSpec`) is as for `T30Ecm`.

## 5. T.38 over UDPTL (`Udptl`, `T38Term`)

### Correspondence with the code

`Udptl` is `nf_udptl.c` from one sender to one receiver. `nf_udptl_build` makes a
datagram of the new packet and those the ring `tx` still holds; `nf_udptl_rx` drops
what counts as old and hands up, in ascending order, the lost packets that the
datagram repeats and then its own. A packet is an indicator or a data field; its
octets are left out. The sequence numbers wrap at `SEQ`.

`T38Term` is one `nf_t38.c` sending to another. One action per phase of
`nf_t38_pump` (`PumpIndicator`, `PumpHdlcData`, `PumpEnd`, ...); `set_tx_type` with the
`send_hdlc` or `begin_hdlc_stream` that follows it is the request of the T.30 engine,
`set_rx_type` its retuning. `RxDatagram` is `nf_t38_rx_datagram`: it takes every packet
`nf_udptl_rx` hands up through `rx_indicator` and `rx_data_field`. The pacing of the
packets is left out: a phase may take any time. The T.30 engines are the calls they
may make, in the order they make them (`MayAsk`).

History variables state the properties: `said` is what a perfect line would let the
far engine hear, `heard` the calls made to it; `next` and `rcvd` say which place in the
stream the receiver is at and what it was handed.

### Properties and runs

| Property | Kind | Says |
|---|---|---|
| `InOrder` | invariant | packets go up in the order sent, each at most once, each the packet of its place |
| `HeardAsSaid` | invariant | the receiving engine hears a prefix of what was said: frames whole and once, carriers up and down around their own data; and all of it in the end |
| `CompleteMeansSent` | invariant | SEND_STEP_COMPLETE comes only when all of the burst went out |
| `BurstEnds` | liveness | the sender never stays in a burst |
| `FramesWhole` | invariant | a frame handed up as good is a whole frame that was sent (checked where it fails) |

* `t38` (`T38Link.cfg`): up to three bursts of any kind. `MaxRun = 2` is the redundancy
  of image data, so that what is lost is still repeated; a third loss in a row would
  lose packets for good, which is a property of the network and not of the code.
  `MaxLate = 2` lets datagrams be overtaken and come twice. `SEQ = 8` makes the numbers
  wrap several times in a call of up to thirty datagrams, and `HALF = 4` is larger than
  either bound, as the code's half-window of 32768 is. Two frames of two packets each
  suffice for a frame to be cut, lost or merged with the next.
* `t38_retune` (`T38Retune.cfg`): with `HalfDuplex = FALSE` the receiving engine may
  call `set_rx_type` in the middle of a frame, as it does when its own transmission ends
  while the peer's answer is already coming in. The first part of the frame is dropped
  and the rest delivered as a good frame.

Fairness: weak fairness of the pump, which the call loop runs every tick.

`InOrder` and `CompleteMeansSent` are proved without conditions, `HeardAsSaid`,
`FramesWhole` and `TypeOK` under `SpareEnough`, which `t38` satisfies (section 9).

## 6. SIP and the daemon (`SipUa`, `SipDaemon`, `SipCall`)

### Correspondence with the code

`SipUa` is the one-shot program: a dialer (`uac_establish`, `sip_offer_t38`,
`await_cancel_final`, then `sip_media_poll_sip` and `sip_media_hangup`) or an answerer
(`uas_answer`). `ua[u].st` is the place in the program. Each action is one pass of a
receive loop with the datagram it reads, or one of its timeouts. `SipDaemon` is
`run_daemon`: a parent with the call table (`calls[s]`, the fields of `struct dcall` that
decide anything), one child per slot with its medium and its control socket, and the
flag that SIGCHLD sets. `daemon_dispatch` has one action per branch; the child's loop is
`ReadControl` and `ChildExits`. `SipCall` puts dialers on a network with one of three
callees: the daemon, the one-shot answerer, or a gateway (external) that asks for
credentials, refuses, answers with or without an audio SDP of use, offers T.38 itself
and hangs up.

* The network is a set: a datagram stays until it is taken, may be overtaken, and is
  lost by never being taken. `copies` sends an INVITE, a re-INVITE and a 2xx twice.
  Datagrams that can no longer have an effect are dropped from the set (`Matters`).
* A child that has exited is a zombie until it is collected. `StartReaping` lowers the
  flag before `ReapOne` collects, as the code does; a SIGCHLD may come in between.
* A dialer may be without a password, and then leaves at the first challenge; whether it
  takes a T.38 re-INVITE is its `enable_t38`, as is whether it offers T.38 (`T38Dialers`).
* A freed slot keeps `t38` and `reinvite_cseq`: `daemon_accept` does not reset them.

### Properties and runs

| Property | Kind | Says |
|---|---|---|
| `OneSlotPerCall` | invariant | a call has one slot, an active slot one child, of that call |
| `NoLostChild` | invariant | while an exited child waits, the flag is up or the parent is collecting |
| `StoppedByItsPeer` | invariant | a child is told to stop only by its own caller's BYE or CANCEL, or by a shutdown |
| `NobodyAbandoned` | invariant | a dialer in a call with the daemon has a slot, or a BYE was sent to it |
| `LeavesWithBye` | invariant | a dialer that took a 2xx does not leave without a BYE from one of the two, unless the 2xx had no usable SDP |
| `EndedCallsClear` | liveness | a call that was ended clears, whatever is lost: no slot stays with a caller that hung up, with a child that has exited or through a shutdown, and no dialer stays in a wait for a response or in a media loop after the BYE |
| `MediaAgree` | invariant | a dialer told that its call goes over T.38 is served over T.38 (checked where it fails) |

* `sip` (`SipCalls.cfg`): two dialers, one of which offers T.38, two slots, every callee.
  The dialers call at the same time only when the callee is the daemon and nothing is
  sent twice: elsewhere a second dialer shares nothing with the first. Two calls and
  two slots are enough for one call to end, be collected or fail to fork while the other
  is set up. One retransmission stands for up to ten.
* `sip_reuse` (`SipReuse.cfg`): one slot and two T.38 callers in turn. The second call
  inherits the first one's `t38`, and its re-INVITE is taken for a repeated one.

The exception in `LeavesWithBye` is in the code: `uac_establish` acknowledges a 2xx whose
SDP it cannot use and returns, and `main` leaves (section 10). `unusable` marks such a
dialer, and nothing but this 2xx sets it.

Fairness (`UaMust`, `ParentStep`, `ChildMust`): every wait of a dialer for a response has
its deadline, a media loop that reads a BYE leaves within a second, the parent wakes every
two seconds, and a child reads its control socket and exits a second after it was stopped.
Nothing is assumed of the network, and no engine is assumed to end its call: T.30 may wait
without a timer (`nf_t30.c:1877`, run `ecm_t38_hang`), and the media loops have no other
bound (`sip_fax.c:1284-1302`, `1376-1410`). A call whose only BYE is lost may therefore
last, with its slot, which is why `EndedCallsClear` speaks of ended calls only. A media
loop that starts after the BYE does not know of it: T.38 begins with `ended = 0`
(`Deaf` for a child), and so does the audio after a BYE during the offer. Its engine is
new and the peer is gone, so that it ends at its first timer (35 s, or ten DIS).

## 7. The V.34 call (`SuperG3` and the modules it composes)

### Correspondence with the code

* `FaxLine` is the two-wire line while both ends send continuous signals: what one
  emits reaches the other later, or not at all if it is short or hit by noise.
* `V8` is `nf_v8.c` at both ends: one action per state and event, `nf_v8_tx` what a
  state emits, with the octets of the modulation category; every timeout.
* `V34Phase2` is the Phase 2 of `nf_v34.c` (`v34_p2_tx`, `v34_p2_rx`): INFO0, tones whose
  phase reversals are the cues, the probe, and the INFOh with which the recipient
  dictates the symbol rate. The frames in the 0.8 s roll buffer are kept (`p2_roll`),
  since a decoder may find one that is no longer being sent.
* `V34Session` is one end after that, a record whose fields carry the source's names:
  the held control channel (`ccs_...`), the caps and the rate, the burst judgement with
  the retrain. `gate`, `win`, `win_mph` and `rx_seen` stand for the captured audio and the
  energy gate: what the capture holds, and what was already handed up from it.
* `T30AnnexF` is what `nf_t30.c` does in such a call, for a page of one block:
  `on_v8`, `on_startup`, `on_complete`, `on_carrier_down`, `on_frame` and `on_timer` are
  the branches of `on_status`, `on_hdlc` and `on_timer`.
* `SuperG3` has the actions: `Pump` is what the transmit pump does at once in its next
  block of 20 ms, `Sends`, `Ends` and `CcScan` what takes the length of a carrier, `Timer`
  the two timers. `AllPumped` puts the first before the second.

Time is abstracted: a timer that runs may fire at any moment, which admits more than
the clocks do.

### Properties and the run

| Property | Kind | Says |
|---|---|---|
| `V8Agreed` | invariant | an answerer that reports a V.8 call faces a caller with the same modulations |
| `SamePoint` | invariant | two ends that exchange frames use one symbol rate |
| `SuccessMeansDelivered` | invariant | a caller that reports success has delivered the block |
| `BurstRate` | action | a burst starts within the cap, and at the rate the recipient decodes unless an advertisement is outstanding or was missed |
| `RateFalls` | action | the image rate never rises within a call |
| `CallSettles` | liveness | both ends end the call or go on without V.34, unless the recipient retrained |

`super_g3` (`SuperG3.cfg`): an answerer with the same modulations or with others, each
end with V.8 on or off, two symbol rates, one with two primary rates and one with one,
so that a fallback and the floor both happen; one retrain, one repeated PPS, one PPR
and no repeated DIS (each is compared with its limit only). Two ends are all there are.

Fairness: the sample clock runs at both ends, so pumps and timers go on; of the line
only that an MPh repeated without end is decoded in the end (`HearsMph`). `CallSettles`
relies on `HangUp`, the peer clearing the call, and leaves retrains out: see section 10.

## 8. What the line carries (`EcmLine`, `PageLine`)

`T30Ecm` and `T30Call` say what a line may do: lose frames and whole messages, damage a
page. The modules here show that this is what the program's own coding makes of a
damaged signal.

* `Scan` is a fold that goes by halves, for sequences of some hundred bits.
* `Hdlc` is `nf_hdlc.c`: CRC bit by bit, flags, zero insertion, preamble and streams in
  the transmitter; the hunt for flags, aborts, octet count and the check of the CRC in
  the receiver. The shift register is kept as the run of ones it ends with, which is all
  that is tested.
* `V34Map` is what `nf_v34.c` does between the bits of a burst and its symbols:
  self-synchronising scrambler, shell mapper, mapping frames, differential encoding and
  the trellis bits, and their inverses. A symbol is its label and its quarter turn, as
  the slicer delivers it.
* `V34Cc` has INFO with its CRC, MPh of both types and the control channel of both forms.
* `T4Codec` is `nf_t4.c`: MH, MR and MMR, both directions, with FILL, the return to
  control and the concealment of damaged rows.

| Property | Run | Says |
|---|---|---|
| `FramesSurvive` | `ecm_call` | one bit inverted or lost anywhere in a classic burst costs the block at most one frame and brings none that was not sent |
| `BurstSurvives` | `ecm_call` | a V.34 burst yields its frames at every rate and quarter turn; one wrong decision costs only the frames that share bits with its two mapping frames |
| `ControlSurvives` | `ecm_call` | an answer on the control channel arrives behind either preamble and at either rate; INFO and MPh arrive as sent or not at all |
| `RowsSurvive` | `call` | a page arrives row for row in all three codings; one inverted bit costs no row before the hit one and none more than a bounded number behind |

Each is stated of the bursts, answers and pages that the engine is about to send or that
are on the line in a state of the run, and is computed once per burst. The blocks have two frames of
nine octets; of the V.34 rates, 4800 bit/s has one ring and no shell mapper, 7200 bit/s two
rings and a shell mapper, and 19200 bit/s nine rings: there each decision is hit. The page that is hit has
seven rows of sixteen pixels, among them a white, a black and a repeated one; the other
has runs of one to three thousand pixels for the make-up codes and the repeated 2560.
`RowsHit` is what these pages show: two rows in MH (the hit one, and one more if its end
of line was read as part of a code), and five in MR, where damage is handed on until a row
coded on its own, every other one, comes through.

## 9. Proofs

`T30EcmProofs` proves for every document, set of modems, retry limit, block size
and octet width, and for both values of `Racing`:

* `TypeCorrect`: `Spec => []TypeOK`. `TypeOK` is not inductive: the PPR count stays
  below its limit only because the substates in which it can grow are entered with
  it lower. `TypeInv` adds that (`PprBelowLimit`). The proof has one step per
  action, split into caller's part, answerer's part and line.
* `AnswererSuccessCorrect`: `Spec => []AnswererSuccess`, from `SuccessInv`: a DCN is
  on the line only after the caller has counted the last page and finished OK, and
  nothing changes the caller's verdict afterwards. It needs the counting of pages
  (`pages_tx`) to equal the document's length at `C_SEND_DCN`, which the next-step
  choice MPS/EOP guarantees. This one holds even when timers race answers.

`T30EcmTurnProofs` proves what the mode delivers, for every value of the same constants
as long as no timer races an answer (`~Racing`, the condition of the passing run):
`PagesIntact`, `PagesConfirmed`, `CallerSuccess`, `RateAgreed`, `BurstCoversMissing`,
`RepeatMeansMissed` and the refinement `DeliversPages`. With racing timers
`RepeatMeansMissed` is false, as the run `ecm_late_answer` shows.

* MCF, PPR, CTR and ERR carry no number of the page or block they answer. `DeliveryInv`
  says why they are still taken for the right one: the turn is in one place. There is a
  command or burst on the line, or the answerer is sending, or an answer is on the line
  (`AsksInv`, `AnswersInv`), and an answer is always that to the last command.
* Each block is `Open` or `Closed` (`BlockInv`). While it is open, the answerer holds
  frames of it only, lacks none but those in `ecm_send` and its page is complete up to
  it; while it is closed, the answerer has put all of it into the page, remembers its
  octets in `acked` and has nothing else. MCF is on the line only when it is closed, PPR
  only while it is open, and then lists just what is missing. A PPS that is heard again
  after MCF is told from that of the next block or page by its octets: neighbouring
  numbers differ whatever their width (`NextOctet`).
* `RowInv`: while frames are sent, the answerer has the row the last CTC announced.

`FaxLadderProofs` proves that `NextAllowedFb` finds the first allowed row
(`NextAllowedFbCorrect`), that the speed bits identify a row
(`FbFromDcsInvertsFB`), and that stepping down exhausts the ladder (`LadderDescends`):
for any modems allowed, a sequence of rows in which each is `NextAllowedFb` of the one
before rises strictly, skips no allowed row, never gets faster, has seven steps at most,
and cannot go on just when no later row is allowed. FTT has no other bound.

The assumption on the constants (`EcmAssumption`) is what the code gives: a
document has a page and every page a block of 1 to `FRAMES` frames, the starting
row is a row of the table, the PPR limit is positive, and an octet has two values
or more.

For the classic call, `T30CallProofs` proves for every number of pages, modem mask of
either end, call, line and retry limit, and whether or not timers race answers:

* `CallInvariant`: `Spec => []CallInv`. MCF, RTN, CFR and FTT carry no number, so a
  late or repeated answer could be taken for the answer to another page. `CallInv`
  says why it is not: at most one training check or page is open, and it is on its
  way to the receiver, taken up by it, or answered (`TurnInv`); what the open answer
  says fits the pages written (`AnswerInv`, `PagesInv`); training checks of
  different tries differ in their row (`RowInv`); a DCN is on the line only after
  success (`DcnInv`). A receiver that hears an MPS or EOP again after MCF may answer
  it twice only after the last page, where a second answer does no harm.
* `CallTypeCorrect`, `SuccessAgreedCorrect`: `TypeOK` and `SuccessAgreed`, from
  `CallInv`. `TypeOK` alone is not inductive.
* `DeliversPagesCorrect`: `Spec => DeliversPages`, the refinement of `PageTransfer`.
  Only three actions change the abstract state: the end of a page's carrier writes a
  page, MCF confirms it.

* `RateAgreedCorrect`: `Spec => []RateAgreed`. `RowInv` is not enough for it: that says
  that tries differ, but not which row the receiver listens at when a carrier comes.
  `TunedInv` adds what is on the line: at most one DCS, and it comes before the carriers
  it announces; once the receiver listens, or has a training check to answer, there is
  no DCS on the line and every carrier there has its row.

`T30CallProofs` holds the lemmas about the queues (`Sent`, `Taken`: what a message
at the end or the head does to each statement about a queue), about the ladder
(`Rows`), and the steps of `TypeOK` and `TimerInv`. For the turn it has one lemma per action; each
first puts the action in terms of sender and receiver and then shows the parts of the
invariant from that alone.

`CallAssumption` is what the code gives: a document has a page, each end allows a
modem, the limits are natural numbers.

For the transport of T.38, `T38Proofs` proves for every width of sequence numbers,
window, history, redundancy, datagram size and length of call, and for every bound
`MaxRun` on what the network passes over:

* `InOrderCorrect`: `Spec => []InOrder`. The invariant behind it (`TransportInv`) has a
  part for each end. A datagram holds the number of its place and, as secondaries, the
  packets of the places before it, newest first (`SenderInv`): this needs that the ring
  of the last `BUF` packets is not overwritten before they are repeated (`RingOf`), hence
  redundancy below `BUF`. The receiver's expected number is that of the place `next`, and
  all it handed up lies before `next` (`Received`). The step that matters is arithmetic
  (`NotOld`): a datagram that is not taken for old is not behind `next`, since it is late
  by at most `SEQ - HALF`, and it never seems further ahead than it is, however often the
  numbers wrapped, so that no secondary reaches back behind `next`.

`UdptlAssumption` and `T38Assumption` are what the code gives, and the one thing that it
asks of the network: no datagram comes later than by half the sequence numbers (32768).

* `CompleteMeansSentCorrect`: `Spec => []CompleteMeansSent`. Each phase of the pump says
  how far its burst has come (`PhaseInv`), and as many words of what was said are of that
  burst (`SaidInv`).
* `HeardAsSaidCorrect`, `FramesWholeCorrect`, `TypeCorrect` (`TypeOK` bounds a partial
  frame), under the assumption `SpareEnough`. The proof follows a receiver that misses
  nothing and gives it one state for each packet sent (`TraceOf`). The sender's phase
  says what that receiver has heard last (`Follows`); the receiver on the network is at
  the state of its place `next` (`Hearing`), because a datagram that comes after lost
  ones repeats them all. Only the first packets of a call have nothing to be repeated
  by; they are copies of one indicator, of which any one is enough.

`SpareEnough` bounds what the network loses in a row by what the code spares for it: the
redundancy of the datagrams (2 for image data, 4 for control), the room in a datagram,
the three copies of the first indicator (`T38_IND_REPEAT`) and the 16-bit numbers. It
also demands that the engine retunes only between frames, and that is no formality: the
run `t38_retune` violates `FramesWhole` without it. What each state of the trace is
follows by the principle of the least element (`WFMin` of the library): the fold over
the received packets is a recursive function, not a recursive operator.

For the daemon, `SipCallProofs` proves for any set of dialers and number of slots:

* `OneSlotPerCallCorrect`, `NoLostChildCorrect`: `Spec => []OneSlotPerCall` and
  `Spec => []NoLostChild`. Together with the domains of the table and of the children
  (`SlotInv`) they are inductive; nothing need be known of the network or the dialers.
* `TypeCorrect`, `StoppedByItsPeerCorrect`, `NobodyAbandonedCorrect` and
  `LeavesWithByeCorrect`: the invariants of the call, from `CallsInv`, which needs
  `SlotInv` for one slot per call. It says what a dialer knows in each of its states
  (`UasInv`); that a dialer in a call with the daemon has a slot, was sent a BYE or is
  leaving (`ServedInv`); what a datagram on its way means, so that a BYE or CANCEL is
  from the dialer of that call and the first 200 finds its caller served (`MailInv`); and
  that a slot's child was told only what its flags say, STOP only after the dialer hung
  up or at a shutdown (`SlotsInv`). Datagrams stay until taken, so that these hold of
  late and repeated ones too. `LeavesWithBye` covers every 2xx but the one without a
  usable SDP, of which `DialerOK` demands nothing, as the code sends no BYE for it.

`SipUaAssumption` names the parties apart and asks for one dialer or more; those that
offer T.38 are among them.

For the V.34 call, `SuperG3Proofs` proves for every pair of offers, set of symbol rates,
table of their primary rates and limit on retrains, repeats and PPR:

* `CallSafe`: `Spec => []CallInv`, the inductive invariant. None of the four properties
  below is inductive, since each speaks of both ends and nothing of what is between them:
  the line, the roll buffers of Phase 2, the frames captured from the control channel.
  `TypeInv` is the types, and which states of V.8, Phase 2, session and T.30 go together:
  while V.8 runs at an end its session has not begun. The three parts after it say what the
  signals on their way mean.
* `ModulationsAgree` (`V8Agreed`), from `AgreeInv`: CM on the line names what the caller
  offers, JM what both offer, CJ comes only from a caller that adopted a JM. That octets
  carry a set of modulations (`build_modulation_octets`, `parse_modulation`) is a lemma.
* `SuccessIsDelivery` (`SuccessMeansDelivered`), from `McfInv`: once MCF is queued, saved
  for a restart, in the caller's capture or heard, the block is delivered, and nothing
  takes that back. The capture matters: a frame is found in it long after it was sent, and
  a restart sends the last frames again.
* `OneSymbolRate` (`SamePoint`), from `PointInv`: until the caller is through Phase 2, an
  INFOh in its roll buffer is the present one of the answerer; after that, the answerer's
  symbol rate stands, for if the answerer retrains it hears no caller in Phase 2 and its
  probe is never analysed. A gate that is open at the answerer shows a caller past Phase 2.
* `TypesHold` (`TypeOK`): with the types, that a cap is at most what the symbol rate of its
  end carries. `PointsInv`, a separate step, says that the points of both ends are a function.
* `RateNeverRises` (`RateFalls`) and `BurstsAgree` (`BurstRate`), two action properties,
  proved in `SuperG3RateProofs`, from `RatesInv` and `ClassicInv` together with `CallInv`.
  An end's rate is the best of its symbol rate within its own cap and the one it last heard
  (`RateKept`), so it can only rise if one of the two does. The answerer's cap falls with
  its probe and with bad bursts. The cap the caller last heeded, the MPh in its capture,
  the cap the answerer advertised last and the one it has now fall in that order, as far
  as there is each of them (`HeardInv`); in particular the capture holds no MPh from before
  the last advertisement, which would let a cap rise again. The caller's cap is fixed when its Phase 2 ends, and all the
  answerer ever hears of it is that value (`FixedInv`). A retrain could raise the rate by a
  new symbol rate; `ProbedInv` says why it does not: an answerer that has a rate faces a
  caller past Phase 2, silent on the line of Phase 2, so its probe is never analysed.
  `StartKept` keeps the rest of the start-up in order (an end is `DONE` only with a rate and
  a cap of its peer), and `ClassicInv` that an answerer begins no V.34 session before its
  V.8 has reported. `BurstsAgree` adds that two ends with each other's caps pick one rate
  (`BestAgrees`), so that a burst at another is one the caller could not know better.

The long part is the session record of `V34Session` with its 26 fields: there is one lemma
for each helper (`ccs_begin`, `process_cc`, `retrain`...), which says what the helper keeps
(`Sessions`), and one for each entry of `T30AnnexF`, which says how an end may move
(`Moves`). Each action is then a move of one end and what its carrier does to the capture of
the other (`Hears`). The rates take another pass over helpers and entries: `Turns` says
what an entry does to the rates, and one lemma per action gives `RatesHold`, the invariant
and both properties of the step. Every formula of `RatesInv` was checked with TLC on the
instance of `super_g3` before it was proved. `RateAssumption` and `V8Assumption` are what
the code gives: every symbol rate has a primary rate of 1 to 14, and its lowest is no more
than the highest of 3429, the symbol rate a session starts from (`v34_ratetabs`; without it
the floor could be above the first cap, and `pick_rate` would exceed the cap); and V.8 has a
bit for each modulation offered.

Only model-checked: for `T30Ecm`, everything about delivery while timers race; what the
coding of the line makes of damage (`FramesSurvive`, `BurstSurvives`, `ControlSurvives`,
`RowsSurvive`: recursive operators, so out of the prover's reach); and liveness (`CallEnds`,
`BurstEnds`, `EndedCallsClear`, `CallSettles`), which is out of it as well.

## 10. Findings and observations

The findings, each with the run that shows it, are in `PROJECT.json`:
`ecm_late_answer`, `ecm_t38_hang`, `call_caps`, `call_repeat`, `t38_retune`, `sip_reuse`.

Seen while modelling, and part of the models, but not made into runs of their own:

* SIP: a 2xx without a usable SDP is acknowledged, and the program then leaves without a
  BYE (`sip.c:1043-1046`). The far end has a call that nobody clears, although
  `await_cancel_final` sends ACK and BYE "so we don't leave a dangling dialog"
  (`sip.c:818-819`), and a stopped program must end an established call with a BYE "or the
  far end / gateway is left with a dangling call" (`sip.c:856-861`). `HearOk` does what the
  code does, and `LeavesWithBye` excepts it by name.
* SIP: a stop is forgotten when the media go over to T.38 after it (`sip_fax.c:1279`,
  `ended = 0`): a BYE that overtakes the re-INVITE sent before it leaves a child with a
  new engine, which answers nobody for ten DIS (`Deaf`).
* V.34: a command queued again by a restart of the control channel completes a second
  time (`nf_v34.c:6936-6960`, `7009-7017`). If T.30 is in C_SEND_ECM by then, this
  completion ends it before its burst (`nf_t30.c:1862`).
* V.34: once the channel is established, nothing supervises the exchange of MPh.
* V.34: only the recipient retrains. A retrain that fails (`nf_v34.c:5972-5982`) tells
  T.30 nothing; if it was sending PPR, neither end has a timer. This is why `CallSettles`
  excludes retrains.
* V.34: identical control frames in one capture go up once (`nf_v34.c:7361-7388`), so a
  repeated PPS may be dropped and A_REACK (`nf_t30.c:1723`) not reached.
* V.34: a control carrier heard in mode PRI counts as a burst that failed; a lowered cap is
  advertised once (`nf_v34.c:6856`).
* V.8: the caller reports success once it has played CJ, also when the answerer timed out.
* V.34: `nf_v34.c:7102` says that a count of bits stays a multiple of 8; `collect_bits`
  aligns to 4. A hit in the E of a start-up leaves a 2400 bit/s receiver at 1200. A
  mistaken type bit of a short MPh makes the receiver read on through the next one, and a
  hit in the last twelve symbols of one costs the next too.
* T.4: after a damaged row `read_code` and `read_mode` may consume the end of line behind
  it, so that the next row is lost too, though `nf_t4.c` and `nf_t4.h` say the decoder
  resynchronises at the next EOL; the rows lost this way are missing from the page, though
  `nf_t30.c:809-818` says that an accepted page keeps its geometry.
* T.4: a row of 13 bits or fewer gets no FILL, though `nf_t4.h` says each row is padded to
  the minimum.

## 11. Not modelled

* T.30: the entries to a call from T.38; EOM, RNR, CRP and RTP, which this program never
  sends; identifiers; the clocks of the post-message exchange (plan item 5).
* Modem driver: the classic modems' train-up and the parallel V.21 receiver (item 9).
* T.38: the packet encoding, and the pacing of packets.
* HDLC: status events that only the log reads, frames longer than the buffer.
* V.34: signal processing, filters, equalizers and the Viterbi search; the half-duplex
  start-up states that Phase 2 replaced and nothing enters (`C_START`, `INFO0_...`,
  `TONES`, `CC2`); the restoring of a saved transmit mode; a drain forced by another
  transmit mode; bursts longer than the capture, which are processed early; T.30's 40 s
  timer during start-up, which the 25 s deadline always precedes. `HoldoffEnds` may end
  the four seconds early, which admits more than the code does.
* Files: a received page that cannot be written is counted and confirmed all the same
  (`nf_t30.c:756-758`, after `pages_rx++`). The properties of `T30Ecm` and `T30Call` about
  pages written say what the engine passes to the file.
* SIP: REGISTER, the digest, SDP and header text, RTP.
* Daemon: files, logging, automatic redial, the loops over TCP and audio files.
* Modem signal processing of V.17, V.27ter, V.29 and V.21: floating-point arithmetic whose
  correctness is numerical. G.711 and the colour codec (JPEG through a library) are
  transformations of data without state.
