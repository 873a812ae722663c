-------------------------------- MODULE Udptl --------------------------------
(***************************************************************************)
(* The UDPTL transport of T.38 (nf_udptl.c) from one sender to one         *)
(* receiver. Every datagram repeats the packets sent just before it and    *)
(* carries a sequence number that wraps. The network loses, duplicates and *)
(* reorders: any datagram sent so far may be the next to arrive, so long   *)
(* as no more than MaxRun are passed over and it is at most MaxLate late.  *)
(***************************************************************************)
EXTENDS Integers, Sequences

CONSTANTS
  SEQ,      \* sequence numbers, 65536 in the code
  HALF,     \* half of them, the window of what counts as new
  BUF,      \* NF_UDPTL_BUF, packets kept for repetition
  Fits,     \* secondaries that fit into far_max_datagram
  MaxRun,   \* datagrams the network loses or delays in a row
  MaxLate   \* places by which a datagram may come late

ASSUME UdptlAssumption ==
  /\ SEQ \in Nat /\ HALF \in 1..SEQ-1 /\ BUF \in Nat \ {0}
  /\ Fits \in Nat /\ MaxRun \in Nat /\ MaxLate \in 0..SEQ-HALF

VARIABLES
  out,         \* the sender: tx_seq_no, tx (a ring) and the datagrams sent
  rx_started,  \* a datagram has arrived
  rx_seq_no,   \* next sequence number expected
  next,        \* history: the place in out.sent that rx_seq_no stands for
  rcvd         \* history: the packets handed up, each with its place

rxVars == <<rx_started, rx_seq_no, next, rcvd>>

NoPacket == [ind |-> "none"]

Lesser(a, b) == IF a < b THEN a ELSE b

(* nf_udptl_build: the packet, and copies of those before it, newest first.  *)
nf_udptl_build(o, ifp, red) ==
  LET no == o.tx_seq_no
      ring == [o.tx EXCEPT ![no % BUF] = ifp]
      entries == Lesser(Lesser(red, no), Fits)
      dgram == [seq |-> no % SEQ, primary |-> ifp,
                secs |-> [m \in 1..entries |-> ring[(no - m) % BUF]]] IN
  [tx_seq_no |-> no + 1, tx |-> ring, sent |-> Append(o.sent, dgram)]

(* A datagram behind the expected number, or half the numbers ahead, is old. *)
Ahead(seq) == (seq - (IF rx_started THEN rx_seq_no ELSE seq)) % SEQ
Dev_IsOld(seq) == Ahead(seq) > SEQ
IsOld(seq) == Ahead(seq) >= HALF

(* What the datagram at place n hands up: lost packets it repeats, oldest   *)
(* first, then its own.                                                     *)
HandedUp(n) ==
  LET d == out.sent[n]
      gap == Lesser(Ahead(d.seq), Len(d.secs)) IN
  [k \in 1..gap+1 |-> [place |-> n - gap - 1 + k,
                       ifp |-> IF k = gap + 1 THEN d.primary ELSE d.secs[gap + 1 - k]]]

(* The network's choice: the datagram at place n may come now. *)
MayArrive(n) ==
  /\ n \in 1..Len(out.sent)
  /\ n - next <= MaxRun
  /\ next - n <= MaxLate

(* nf_udptl_rx *)
nf_udptl_rx(n) ==
  /\ MayArrive(n)
  /\ rx_started' = TRUE
  /\ IF IsOld(out.sent[n].seq)
     THEN /\ rx_seq_no' = (IF rx_started THEN rx_seq_no ELSE out.sent[n].seq)
          /\ UNCHANGED <<next, rcvd>>
     ELSE /\ rcvd' = rcvd \o HandedUp(n)
          /\ rx_seq_no' = (out.sent[n].seq + 1) % SEQ
          /\ next' = n + 1

UdptlInit ==
  /\ out = [tx_seq_no |-> 0, tx |-> [j \in 0..BUF-1 |-> NoPacket], sent |-> <<>>]
  /\ rx_started = FALSE /\ rx_seq_no = 0
  /\ next = 1 /\ rcvd = <<>>

-----------------------------------------------------------------------------
(* Packets are handed up in the order sent, each at most once, and each is  *)
(* the packet that was sent at its place (nf_udptl.h: "in ascending         *)
(* sequence order"), whatever the network reorders and repeats and although *)
(* numbers wrap.                                                            *)
InOrder ==
  /\ \A i, j \in 1..Len(rcvd) : i < j => rcvd[i].place < rcvd[j].place
  /\ \A i \in 1..Len(rcvd) :
       rcvd[i].place \in 1..Len(out.sent) /\ rcvd[i].ifp = out.sent[rcvd[i].place].primary
==============================================================================
