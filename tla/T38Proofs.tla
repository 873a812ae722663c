------------------------------ MODULE T38Proofs ------------------------------
(***************************************************************************)
(* The theorems of T38Term, for every width of sequence numbers, depth of  *)
(* history, redundancy, datagram size and length of call.                  *)
(*                                                                         *)
(* InOrder and CompleteMeansSent hold whatever the network loses. That     *)
(* HeardAsSaid, FramesWhole and TypeOK, which bounds a partial frame,      *)
(* hold needs SpareEnough. The argument: follow a receiver that misses     *)
(* nothing, one state for each packet sent (TraceOf). The sender's phase   *)
(* says what that receiver has heard last (Follows), and the one that      *)
(* listens to the network is at one of its states (Hearing): a datagram    *)
(* that comes after lost ones brings them all, and the first packets of a  *)
(* call are repeats of an indicator, of which one is enough.               *)
(***************************************************************************)
EXTENDS T38Term, SequenceTheorems, FiniteSetTheorems, WellFoundedInduction, TLAPS

-----------------------------------------------------------------------------
(* Numbers modulo n. *)

(* A remainder is in range and differs from its number by a multiple. *)
LEMMA ModFacts ==
  ASSUME NEW a \in Int, NEW n \in Nat \ {0}
  PROVE  a % n \in 0..(n - 1) /\ \E q \in Int : a = q * n + (a % n)
<1>1. a % n \in 0..(n - 1)
  BY SMT
<1>2. a \div n \in Int /\ a = (a \div n) * n + (a % n)
  BY SMT
<1>. QED BY <1>1, <1>2

(* The only multiple of n nearer to 0 than n is 0. *)
LEMMA Multiple ==
  ASSUME NEW q \in Int, NEW n \in Nat \ {0}, q * n < n, -n < q * n
  PROVE  q = 0
<1>1. CASE q >= 1
  <2>1. q * n = (q - 1) * n + n /\ (q - 1) * n >= 0
    BY <1>1, SMT
  <2>. QED BY <2>1, SMT
<1>2. CASE q <= -1
  <2>1. q * n = -n - (-1 - q) * n /\ (-1 - q) * n >= 0
    BY <1>2, SMT
  <2>. QED BY <2>1, SMT
<1>. QED BY <1>1, <1>2, SMT

(* The remainder is the only number in 0..n-1 that differs by a multiple. *)
LEMMA Remainder ==
  ASSUME NEW a \in Int, NEW n \in Nat \ {0}, NEW q \in Int, NEW r \in 0..(n - 1),
         a = q * n + r
  PROVE  a % n = r
<1>1. PICK p \in Int : a = p * n + (a % n)
  BY ModFacts
<1>2. a % n \in 0..(n - 1)
  BY ModFacts
<1>3. (p - q) * n = p * n - q * n /\ p - q \in Int /\ p * n \in Int /\ q * n \in Int
  BY SMT
<1>4. (p - q) * n = r - (a % n)
  BY <1>1, <1>2, <1>3, SMT
<1>5. (p - q) * n < n /\ -n < (p - q) * n
  BY <1>2, <1>4, SMT
<1>6. p - q = 0
  BY <1>3, <1>5, Multiple
<1>7. (p - q) * n = 0
  BY <1>6, SMT
<1>. QED BY <1>2, <1>4, <1>7, SMT

(* Adding a multiple leaves the remainder. *)
LEMMA Shifted ==
  ASSUME NEW a \in Int, NEW n \in Nat \ {0}, NEW q \in Int
  PROVE  (a + q * n) % n = a % n
<1>1. PICK p \in Int : a = p * n + (a % n)
  BY ModFacts
<1>2. a % n \in 0..(n - 1)
  BY ModFacts
<1>3. (p + q) * n = p * n + q * n /\ p + q \in Int /\ p * n \in Int /\ q * n \in Int
  BY SMT
<1>4. a + q * n = (p + q) * n + (a % n) /\ a + q * n \in Int
  BY <1>1, <1>2, <1>3, SMT
<1>. QED BY <1>2, <1>3, <1>4, Remainder

(* A difference may be taken of remainders. *)
LEMMA ModDifference ==
  ASSUME NEW a \in Int, NEW b \in Int, NEW n \in Nat \ {0}
  PROVE  ((a % n) - (b % n)) % n = (a - b) % n
<1>1. PICK p \in Int : a = p * n + (a % n)
  BY ModFacts
<1>2. PICK q \in Int : b = q * n + (b % n)
  BY ModFacts
<1>3. a % n \in Int /\ b % n \in Int
  BY ModFacts, SMT
<1>4. (q - p) * n = q * n - p * n /\ q - p \in Int /\ p * n \in Int /\ q * n \in Int
  BY SMT
<1>5. (a % n) - (b % n) = (a - b) + (q - p) * n
  BY <1>1, <1>2, <1>3, <1>4, SMT
<1>6. a - b \in Int
  OBVIOUS
<1>7. ((a - b) + (q - p) * n) % n = (a - b) % n
  BY <1>4, <1>6, Shifted, Zenon
<1>. QED BY <1>5, <1>7, Zenon

(* The successor may be taken of a remainder. *)
LEMMA ModNext ==
  ASSUME NEW a \in Int, NEW n \in Nat \ {0}
  PROVE  ((a % n) + 1) % n = (a + 1) % n
<1>1. PICK p \in Int : a = p * n + (a % n)
  BY ModFacts
<1>2. a % n \in Int
  BY ModFacts, SMT
<1>3. (-p) * n = -(p * n) /\ -p \in Int /\ p * n \in Int
  BY SMT
<1>4. (a % n) + 1 = (a + 1) + (-p) * n
  BY <1>1, <1>2, <1>3, SMT
<1>5. a + 1 \in Int
  OBVIOUS
<1>6. ((a + 1) + (-p) * n) % n = (a + 1) % n
  BY <1>3, <1>5, Shifted, Zenon
<1>. QED BY <1>4, <1>6, Zenon

(* A number that is ahead never seems further ahead than it is. *)
LEMMA NoFurther ==
  ASSUME NEW a \in Nat, NEW n \in Nat \ {0}
  PROVE  a % n <= a
<1>0. a \in Int
  OBVIOUS
<1>1. PICK q \in Int : a = q * n + (a % n)
  BY <1>0, ModFacts
<1>2. a % n \in 0..(n - 1)
  BY <1>0, ModFacts
<1>3. CASE q >= 0
  <2>1. q * n >= 0
    BY <1>3, SMT
  <2>. QED BY <1>1, <1>2, <2>1, SMT
<1>4. CASE q <= -1
  <2>1. q * n = -n - (-1 - q) * n /\ (-1 - q) * n >= 0
    BY <1>4, SMT
  <2>. QED BY <1>1, <1>2, <2>1, SMT
<1>. QED BY <1>3, <1>4, SMT

(* A number behind by d seems ahead by n - d. *)
LEMMA Behind ==
  ASSUME NEW n \in Nat \ {0}, NEW d \in 1..n
  PROVE  (-d) % n = n - d
<1>1. -d = (-1) * n + (n - d) /\ -d \in Int /\ n - d \in 0..(n - 1)
  BY SMT
<1>. QED BY <1>1, Remainder, SMT

(* Within a cycle remainders are distinct. *)
LEMMA Distinct ==
  ASSUME NEW a \in Int, NEW b \in Int, NEW n \in Nat \ {0}, b < a, a - b < n
  PROVE  a % n # b % n
<1>1. (a - b) % n = a - b
  <2>1. a - b \in 0..(n - 1) /\ a - b = 0 * n + (a - b) /\ a - b \in Int
    BY SMT
  <2>. QED BY <2>1, Remainder, SMT
<1>2. ASSUME a % n = b % n PROVE FALSE
  <2>1. (a % n) - (b % n) = 0
    BY <1>2, ModFacts, SMT
  <2>2. 0 % n = 0
    <3>1. 0 = 0 * n + 0 /\ 0 \in Int /\ 0 \in 0..(n - 1)
      BY SMT
    <3>. QED BY <3>1, Remainder
  <2>3. a - b = 0
    BY <1>1, <2>1, <2>2, ModDifference, Zenon
  <2>. QED BY <2>3, SMT
<1>. QED BY <1>2

-----------------------------------------------------------------------------
(* The sender: what a datagram holds. *)

Packets == {NoPacket}
  \cup {Ind(v) : v \in {"CED", "CNG", "TRAINING", "V21_PREAMBLE", "NO_SIGNAL"}}
  \cup {Data(ft, payload) :
          ft \in {"HDLC_DATA", "HDLC_FCS_OK", "HDLC_SIG_END", "T4_NON_ECM_DATA",
                  "T4_NON_ECM_SIG_END"},
          payload \in Seq(Nat)}

Datagram == [seq : Int, primary : Packets, secs : Seq(Packets)]

(* A datagram carries the number of its place and, before its own packet,   *)
(* those of the places just before.                                         *)
CarriesEarlier(sent, n) ==
  /\ sent[n].seq = (n - 1) % SEQ
  /\ Len(sent[n].secs) <= n - 1
  /\ \A m \in 1..Len(sent[n].secs) : sent[n].secs[m] = sent[n - m].primary

(* The ring holds the last BUF packets. *)
RingOf(o) ==
  \A j \in 1..Len(o.sent) :
    j > Len(o.sent) - BUF => o.tx[(j - 1) % BUF] = o.sent[j].primary

SenderInv(o) ==
  /\ o \in [tx_seq_no : Nat, tx : [0..(BUF - 1) -> Packets], sent : Seq(Datagram)]
  /\ o.tx_seq_no = Len(o.sent)
  /\ RingOf(o)
  /\ \A n \in 1..Len(o.sent) : CarriesEarlier(o.sent, n)

(* A longer sequence that begins with the same datagrams. *)
Extends(sent, sent2) ==
  /\ Len(sent2) >= Len(sent)
  /\ \A n \in 1..Len(sent) : sent2[n] = sent[n]

(* nf_udptl_build: the next datagram is as SenderInv says, the others stay. *)
LEMMA BuildStep ==
  ASSUME NEW o, SenderInv(o), NEW ifp \in Packets, NEW red \in Nat, red < BUF
  PROVE  /\ SenderInv(nf_udptl_build(o, ifp, red))
         /\ Extends(o.sent, nf_udptl_build(o, ifp, red).sent)
<1> DEFINE no == o.tx_seq_no
           ring == [o.tx EXCEPT ![no % BUF] = ifp]
           entries == Lesser(Lesser(red, no), Fits)
           secs == [m \in 1..entries |-> ring[(no - m) % BUF]]
           dgram == [seq |-> no % SEQ, primary |-> ifp, secs |-> secs]
           o2 == nf_udptl_build(o, ifp, red)
<1>1. BUF \in Nat \ {0} /\ SEQ \in Nat \ {0} /\ Fits \in Nat
  BY UdptlAssumption, SMT
<1>2. /\ no \in Nat /\ no = Len(o.sent) /\ o.sent \in Seq(Datagram)
      /\ o.tx \in [0..(BUF - 1) -> Packets]
  BY DEF SenderInv
<1>3. /\ o2.tx_seq_no = no + 1 /\ o2.tx = ring /\ o2.sent = Append(o.sent, dgram)
      /\ o2 = [tx_seq_no |-> no + 1, tx |-> ring, sent |-> Append(o.sent, dgram)]
  BY DEF nf_udptl_build
<1>4. entries \in Nat /\ entries <= red /\ entries <= no
  BY <1>1, <1>2, SMT DEF Lesser
<1>5. \A k \in Int : k % BUF \in 0..(BUF - 1)
  BY <1>1, ModFacts
<1>6. ring \in [0..(BUF - 1) -> Packets]
  BY <1>2
<1>7. secs \in Seq(Packets) /\ Len(secs) = entries
  <2>1. \A m \in 1..entries : no - m \in Int
    BY <1>2, <1>4, SMT
  <2>2. \A m \in 1..entries : ring[(no - m) % BUF] \in Packets
    BY <2>1, <1>5, <1>6
  <2>3. secs \in [1..entries -> Packets]
    BY <2>2
  <2>. HIDE DEF secs, entries
  <2>. QED BY <1>4, <2>3, SMT
<1>8. no % SEQ \in Int
  BY <1>1, <1>2, ModFacts, SMT
<1>9. dgram \in Datagram
  BY <1>7, <1>8 DEF Datagram
<1>10. /\ o2.sent \in Seq(Datagram) /\ Len(o2.sent) = no + 1
       /\ o2.sent[no + 1] = dgram
       /\ \A n \in 1..no : o2.sent[n] = o.sent[n]
  <2>. HIDE DEF dgram
  <2>. QED BY <1>2, <1>3, <1>9, SMT
<1>11. Extends(o.sent, o2.sent)
  BY <1>2, <1>10, SMT DEF Extends
<1>12. \A m \in 1..(BUF - 1) : m <= no => ring[(no - m) % BUF] = o.sent[no + 1 - m].primary
  <2> SUFFICES ASSUME NEW m \in 1..(BUF - 1), m <= no
               PROVE  ring[(no - m) % BUF] = o.sent[no + 1 - m].primary
    OBVIOUS
  <2>1. no - m \in Int /\ no \in Int /\ no - m < no /\ no - (no - m) < BUF
    BY <1>1, <1>2, SMT
  <2>2. no % BUF # (no - m) % BUF
    BY <2>1, <1>1, Distinct
  <2>3. ring[(no - m) % BUF] = o.tx[(no - m) % BUF]
    BY <2>1, <2>2, <1>2, <1>5
  <2>4. /\ no + 1 - m \in 1..Len(o.sent) /\ no + 1 - m > Len(o.sent) - BUF
        /\ (no + 1 - m) - 1 = no - m
    <3>. HIDE DEF no, ring
    <3>1. no \in Nat /\ Len(o.sent) = no /\ BUF \in Nat
      BY <1>1, <1>2
    <3>. QED BY <3>1, SMT
  <2>5. o.tx[((no + 1 - m) - 1) % BUF] = o.sent[no + 1 - m].primary
    BY <2>4 DEF SenderInv, RingOf
  <2>. QED BY <2>3, <2>4, <2>5
<1>13. RingOf(o2)
  <2> SUFFICES ASSUME NEW j \in 1..(no + 1), j > (no + 1) - BUF
               PROVE  ring[(j - 1) % BUF] = o2.sent[j].primary
    BY <1>3, <1>10 DEF RingOf
  <2>1. CASE j = no + 1
    <3>0. j - 1 = no
      <4>1. no \in Nat
        BY <1>2
      <4>. HIDE DEF no
      <4>. QED BY <2>1, <4>1, SMT
    <3>1. (j - 1) % BUF = no % BUF /\ no % BUF \in 0..(BUF - 1)
      <4>1. no \in Int
        BY <1>2, SMT
      <4>. HIDE DEF no
      <4>. QED BY <3>0, <4>1, <1>5, Zenon
    <3>2. ring[no % BUF] = ifp
      BY <3>1, <1>2
    <3>. QED BY <2>1, <3>1, <3>2, <1>10
  <2>2. CASE j # no + 1
    <3>1. /\ no + 1 - j \in 1..(BUF - 1) /\ no + 1 - j <= no /\ j \in 1..no
          /\ no - (no + 1 - j) = j - 1 /\ no + 1 - (no + 1 - j) = j
      BY <2>2, <1>1, <1>2, SMT
    <3>2. ring[(no - (no + 1 - j)) % BUF] = o.sent[no + 1 - (no + 1 - j)].primary
      BY <3>1, <1>12
    <3>. QED BY <3>1, <3>2, <1>10
  <2>. QED BY <2>1, <2>2
<1>14. \A n \in 1..(no + 1) : CarriesEarlier(o2.sent, n)
  <2> TAKE n \in 1..(no + 1)
  <2>1. CASE n = no + 1
    <3>1. o2.sent[n] = dgram /\ n - 1 = no
      BY <2>1, <1>2, <1>10, SMT
    <3>2. \A m \in 1..entries : secs[m] = o2.sent[n - m].primary
      <4> TAKE m \in 1..entries
      <4>1. m \in 1..(BUF - 1) /\ m <= no /\ no + 1 - m \in 1..no
        BY <1>1, <1>2, <1>4, SMT
      <4>2. secs[m] = ring[(no - m) % BUF]
        OBVIOUS
      <4>3. ring[(no - m) % BUF] = o.sent[no + 1 - m].primary
        BY <4>1, <1>12
      <4>4. o2.sent[n - m] = o.sent[no + 1 - m]
        <5>1. n - m = no + 1 - m
          <6>1. no \in Int /\ m \in Int /\ n \in Int
            BY <1>2, <1>4, SMT
          <6>. HIDE DEF no, entries
          <6>. QED BY <2>1, <6>1, SMT
        <5>2. o2.sent[no + 1 - m] = o.sent[no + 1 - m]
          BY <4>1, <1>10
        <5>. QED BY <5>1, <5>2
      <4>. QED BY <4>2, <4>3, <4>4
    <3>3. dgram.seq = no % SEQ /\ dgram.secs = secs
      OBVIOUS
    <3>. QED BY <3>1, <3>2, <3>3, <1>4, <1>7 DEF CarriesEarlier
  <2>2. CASE n # no + 1
    <3>1. n \in 1..Len(o.sent)
      BY <2>2, <1>2, SMT
    <3>2. CarriesEarlier(o.sent, n)
      BY <3>1 DEF SenderInv
    <3>3. o2.sent[n] = o.sent[n]
      BY <3>1, <1>2, <1>10
    <3>4. \A m \in 1..Len(o.sent[n].secs) : n - m \in 1..no
      <4>1. o.sent[n].secs \in Seq(Packets)
        <5>1. o.sent[n] \in Datagram
          BY <3>1, <1>2, SMT
        <5>. QED BY <5>1 DEF Datagram
      <4>. QED BY <4>1, <3>1, <3>2, <1>2, SMT DEF CarriesEarlier
    <3>. QED BY <3>2, <3>3, <3>4, <1>10 DEF CarriesEarlier
  <2>. QED BY <2>1, <2>2
<1>15. o2 \in [tx_seq_no : Nat, tx : [0..(BUF - 1) -> Packets], sent : Seq(Datagram)]
  <2>1. no + 1 \in Nat
    BY <1>2, SMT
  <2>2. Append(o.sent, dgram) \in Seq(Datagram)
    BY <1>3, <1>10
  <2>. HIDE DEF dgram, ring, no
  <2>. QED BY <2>1, <2>2, <1>3, <1>6, Zenon
<1>. HIDE DEF o2
<1>16. SenderInv(o2)
  BY <1>2, <1>3, <1>10, <1>13, <1>14, <1>15 DEF SenderInv
<1>. QED BY <1>11, <1>16 DEF o2

-----------------------------------------------------------------------------
(* The receiver: what it handed up so far. *)

Item == [place : Int, ifp : Packets]

Received ==
  /\ next \in 1..(Len(out.sent) + 1)
  /\ rx_started \in BOOLEAN
  /\ rx_started => rx_seq_no = (next - 1) % SEQ
  /\ ~rx_started => next = 1
  /\ rcvd \in Seq(Item)
  /\ \A i, j \in 1..Len(rcvd) : i < j => rcvd[i].place < rcvd[j].place
  /\ \A i \in 1..Len(rcvd) :
       rcvd[i].place \in 1..(next - 1) /\ rcvd[i].ifp = out.sent[rcvd[i].place].primary

(* A datagram that does not count as old is none behind the expected one,   *)
(* and seems no further ahead than it is.                                   *)
LEMMA NotOld ==
  ASSUME SenderInv(out), Received, NEW n \in 1..Len(out.sent),
         next - n <= MaxLate, ~IsOld(out.sent[n].seq)
  PROVE  n >= next /\ Ahead(out.sent[n].seq) \in 0..(n - next)
<1>1. /\ SEQ \in Nat \ {0} /\ HALF \in 1..(SEQ - 1) /\ MaxLate \in 0..(SEQ - HALF)
  BY UdptlAssumption, SMT
<1>2. out.sent[n].seq = (n - 1) % SEQ
  BY DEF SenderInv, CarriesEarlier
<1>3. n \in Int /\ next \in Int /\ n >= 1 /\ n - 1 \in Int /\ next - 1 \in Int
  <2>1. Len(out.sent) \in Nat
    BY DEF SenderInv
  <2>. QED BY <2>1, SMT DEF Received
<1>4. CASE ~rx_started
  <2>1. (n - 1) % SEQ \in Int
    BY <1>1, <1>3, ModFacts, SMT
  <2>2. Ahead(out.sent[n].seq) = 0
    <3>1. ((n - 1) % SEQ) - ((n - 1) % SEQ) = 0
      BY <2>1, SMT
    <3>2. 0 % SEQ = 0
      <4>1. 0 = 0 * SEQ + 0 /\ 0 \in Int /\ 0 \in 0..(SEQ - 1)
        BY <1>1, SMT
      <4>. QED BY <4>1, <1>1, Remainder
    <3>. QED BY <1>4, <1>2, <3>1, <3>2, Zenon DEF Ahead
  <2>3. next = 1
    BY <1>4 DEF Received
  <2>. QED BY <2>2, <2>3, <1>3, SMT
<1>5. CASE rx_started
  <2>1. Ahead(out.sent[n].seq) = (((n - 1) % SEQ) - ((next - 1) % SEQ)) % SEQ
    BY <1>5, <1>2 DEF Ahead, Received
  <2>2. Ahead(out.sent[n].seq) = ((n - 1) - (next - 1)) % SEQ
    BY <2>1, <1>1, <1>3, ModDifference
  <2>3. (n - 1) - (next - 1) = n - next
    BY <1>3, SMT
  <2>4. Ahead(out.sent[n].seq) = (n - next) % SEQ
    BY <2>2, <2>3
  <2>5. n >= next
    <3> SUFFICES ASSUME n < next PROVE FALSE
      BY <1>3, SMT
    <3>1. next - n \in 1..SEQ /\ n - next = -(next - n) /\ SEQ - (next - n) >= HALF
      BY <1>1, <1>3, SMT
    <3>2. (n - next) % SEQ = SEQ - (next - n)
      BY <3>1, <1>1, Behind
    <3>. QED BY <3>1, <3>2, <2>4 DEF IsOld
  <2>6. n - next \in Nat /\ n - next \in Int
    BY <2>5, <1>3, SMT
  <2>7. (n - next) % SEQ <= n - next /\ (n - next) % SEQ \in 0..(SEQ - 1)
    BY <2>6, <1>1, NoFurther, ModFacts
  <2>. QED BY <2>4, <2>5, <2>6, <2>7, <1>1, SMT
<1>6. rx_started \in BOOLEAN
  BY DEF Received
<1>. QED BY <1>4, <1>5, <1>6

(* Then what it hands up are consecutive packets, each that of its place,   *)
(* from the expected one on.                                                *)
LEMMA Handing ==
  ASSUME SenderInv(out), Received, NEW n \in 1..Len(out.sent),
         next - n <= MaxLate, ~IsOld(out.sent[n].seq)
  PROVE  /\ HandedUp(n) \in Seq(Item)
         /\ \A k \in 1..Len(HandedUp(n)) :
              /\ HandedUp(n)[k].place \in next..n
              /\ HandedUp(n)[k].ifp = out.sent[HandedUp(n)[k].place].primary
         /\ \A k, l \in 1..Len(HandedUp(n)) :
              k < l => HandedUp(n)[k].place < HandedUp(n)[l].place
<1> DEFINE d == out.sent[n]
           gap == Lesser(Ahead(d.seq), Len(d.secs))
<1>1. n \in Int /\ next \in Int /\ n >= 1 /\ next >= 1
  <2>1. Len(out.sent) \in Nat
    BY DEF SenderInv
  <2>. QED BY <2>1, SMT DEF Received
<1>2. d \in Datagram
  BY DEF SenderInv
<1>3. Len(d.secs) \in Nat /\ d.secs \in Seq(Packets) /\ d.primary \in Packets
  BY <1>2 DEF Datagram
<1>4. Ahead(d.seq) \in 0..(n - next) /\ n >= next
  BY NotOld
<1>5. gap \in 0..(n - next) /\ gap <= Len(d.secs) /\ gap \in Nat
  BY <1>1, <1>3, <1>4, SMT DEF Lesser
<1>6. \A m \in 1..Len(d.secs) : d.secs[m] = out.sent[n - m].primary
  BY DEF SenderInv, CarriesEarlier
<1> DEFINE item(k) == [place |-> n - gap - 1 + k,
                       ifp |-> IF k = gap + 1 THEN d.primary ELSE d.secs[gap + 1 - k]]
<1>7. HandedUp(n) = [k \in 1..(gap + 1) |-> item(k)]
  BY DEF HandedUp
<1>8. ASSUME NEW k \in 1..(gap + 1)
      PROVE  /\ item(k) \in Item /\ item(k).place = n - gap - 1 + k
             /\ item(k).place \in next..n
             /\ item(k).ifp = out.sent[item(k).place].primary
  <2>1. item(k).place = n - gap - 1 + k
    OBVIOUS
  <2>2. n - gap - 1 + k \in next..n
    <3>. HIDE DEF gap
    <3>. QED BY <1>1, <1>5, SMT
  <2>3. CASE k = gap + 1
    <3>1. n - gap - 1 + k = n
      <4>. HIDE DEF gap
      <4>. QED BY <2>3, <1>1, <1>5, SMT
    <3>2. item(k).ifp = d.primary
      BY <2>3
    <3>. QED BY <2>1, <2>2, <3>1, <3>2, <1>1, <1>3, SMT DEF Item
  <2>4. CASE k # gap + 1
    <3>1. gap + 1 - k \in 1..Len(d.secs) /\ n - (gap + 1 - k) = n - gap - 1 + k
      <4> DEFINE most == Len(d.secs)
      <4>1. most \in Nat /\ gap <= most /\ gap \in Nat /\ k \in 1..(gap + 1) /\ n \in Int
        BY <1>1, <1>3, <1>5
      <4>. HIDE DEF gap, most
      <4>2. gap + 1 - k \in 1..most /\ n - (gap + 1 - k) = n - gap - 1 + k
        BY <4>1, <2>4, SMT
      <4>. QED BY <4>2 DEF most
    <3>2. item(k).ifp = d.secs[gap + 1 - k]
      BY <2>4
    <3>3. item(k).ifp = out.sent[n - gap - 1 + k].primary
      BY <3>1, <3>2, <1>6
    <3>4. item(k).ifp \in Packets
      <4>. HIDE DEF gap, d
      <4>. QED BY <3>1, <3>2, <1>3, SMT
    <3>. QED BY <2>1, <2>2, <3>3, <3>4, <1>1, SMT DEF Item
  <2>. QED BY <2>3, <2>4
<1>. HIDE DEF item
<1>9. HandedUp(n) \in Seq(Item) /\ Len(HandedUp(n)) = gap + 1
  <2>1. [k \in 1..(gap + 1) |-> item(k)] \in [1..(gap + 1) -> Item]
    BY <1>8
  <2>. HIDE DEF gap
  <2>2. gap + 1 \in Nat
    BY <1>5, SMT
  <2>. QED BY <2>1, <2>2, <1>7, SMT
<1>10. \A k \in 1..(gap + 1) : HandedUp(n)[k] = item(k)
  BY <1>7
<1>11. \A k, l \in 1..(gap + 1) : k < l => item(k).place < item(l).place
  <2> SUFFICES ASSUME NEW k \in 1..(gap + 1), NEW l \in 1..(gap + 1), k < l
               PROVE  item(k).place < item(l).place
    OBVIOUS
  <2>1. item(k).place = n - gap - 1 + k /\ item(l).place = n - gap - 1 + l
    BY <1>8
  <2>. HIDE DEF gap
  <2>. QED BY <2>1, <1>1, <1>5, SMT
<1>. QED BY <1>8, <1>9, <1>10, <1>11

(* An arrival keeps what the receiver knows true. *)
LEMMA ArriveStep ==
  ASSUME SenderInv(out), Received, NEW n \in 1..Len(out.sent), nf_udptl_rx(n), out' = out
  PROVE  Received'
<1>1. /\ rx_started' = TRUE /\ n \in Int /\ next \in Int /\ n >= 1
      /\ next \in 1..(Len(out.sent) + 1) /\ Len(out.sent) \in Nat
  <2>1. Len(out.sent) \in Nat
    BY DEF SenderInv
  <2>. QED BY <2>1, SMT DEF Received, nf_udptl_rx
<1>2. next - n <= MaxLate
  BY DEF nf_udptl_rx, MayArrive
<1>3. out.sent[n].seq = (n - 1) % SEQ /\ SEQ \in Nat \ {0}
  BY UdptlAssumption, SMT DEF SenderInv, CarriesEarlier
<1>4. CASE IsOld(out.sent[n].seq)
  <2>1. rx_started
    <3>1. SUFFICES ASSUME ~rx_started PROVE FALSE
      OBVIOUS
    <3>2. out.sent[n].seq \in Int
      BY <1>1, <1>3, ModFacts, SMT
    <3>3. out.sent[n].seq - out.sent[n].seq = 0
      BY <3>2, SMT
    <3>4. 0 % SEQ = 0
      <4>1. 0 = 0 * SEQ + 0 /\ 0 \in Int /\ 0 \in 0..(SEQ - 1)
        BY <1>3, SMT
      <4>. QED BY <4>1, <1>3, Remainder
    <3>5. Ahead(out.sent[n].seq) = 0
      BY <3>1, <3>3, <3>4, Zenon DEF Ahead
    <3>. QED BY <3>5, <1>4, UdptlAssumption, SMT DEF IsOld
  <2>2. rx_seq_no' = rx_seq_no /\ next' = next /\ rcvd' = rcvd
    BY <1>4, <2>1 DEF nf_udptl_rx
  <2>. QED BY <1>1, <2>1, <2>2 DEF Received
<1>5. CASE ~IsOld(out.sent[n].seq)
  <2> DEFINE up == HandedUp(n)
  <2>1. rcvd' = rcvd \o up /\ next' = n + 1 /\ rx_seq_no' = (out.sent[n].seq + 1) % SEQ
    BY <1>5 DEF nf_udptl_rx
  <2>2. n >= next
    BY <1>2, <1>5, NotOld
  <2>3. /\ up \in Seq(Item)
        /\ \A k \in 1..Len(up) :
             up[k].place \in next..n /\ up[k].ifp = out.sent[up[k].place].primary
        /\ \A k, l \in 1..Len(up) : k < l => up[k].place < up[l].place
    BY <1>2, <1>5, Handing
  <2>4. next' \in 1..(Len(out.sent) + 1) /\ (n + 1) - 1 = n /\ (n - 1) + 1 = n
    BY <1>1, <2>1, SMT
  <2>5. rx_seq_no' = (next' - 1) % SEQ
    <3>1. n - 1 \in Int
      BY <1>1, SMT
    <3>2. rx_seq_no' = ((n - 1) + 1) % SEQ
      BY <2>1, <1>3, <3>1, ModNext
    <3>. QED BY <3>2, <2>1, <2>4
  <2>. HIDE DEF up
  <2>6. /\ rcvd' \in Seq(Item) /\ Len(rcvd') = Len(rcvd) + Len(up)
        /\ \A i \in 1..(Len(rcvd) + Len(up)) :
             rcvd'[i] = (IF i <= Len(rcvd) THEN rcvd[i] ELSE up[i - Len(rcvd)])
    <3>1. rcvd \in Seq(Item)
      BY DEF Received
    <3>. QED BY <3>1, <2>1, <2>3, ConcatProperties
  <2>7. Len(rcvd) \in Nat /\ Len(up) \in Nat
    BY <2>3 DEF Received
  <2>8. ASSUME NEW i \in 1..Len(rcvd')
        PROVE  \/ i \in 1..Len(rcvd) /\ rcvd'[i] = rcvd[i]
               \/ i > Len(rcvd) /\ i - Len(rcvd) \in 1..Len(up) /\ rcvd'[i] = up[i - Len(rcvd)]
    <3> DEFINE had == Len(rcvd)
               new == Len(up)
    <3>1. had \in Nat /\ new \in Nat /\ i \in 1..(had + new)
      BY <2>6, <2>7
    <3>. HIDE DEF had, new
    <3>2. \/ i \in 1..had /\ i <= had
          \/ i > had /\ ~(i <= had) /\ i - had \in 1..new
      BY <3>1, SMT
    <3>3. rcvd'[i] = (IF i <= had THEN rcvd[i] ELSE up[i - had])
      BY <2>6, <3>1 DEF had, new
    <3>. QED BY <3>2, <3>3 DEF had, new
  <2>9. ASSUME NEW i \in 1..Len(rcvd)
        PROVE  /\ rcvd[i].place \in 1..(next - 1)
               /\ rcvd[i].ifp = out.sent[rcvd[i].place].primary
    BY DEF Received
  <2>10. ASSUME NEW i \in 1..Len(rcvd')
         PROVE  rcvd'[i].place \in 1..n /\ rcvd'[i].ifp = out.sent[rcvd'[i].place].primary
    <3>1. CASE i \in 1..Len(rcvd) /\ rcvd'[i] = rcvd[i]
      BY <3>1, <2>9, <2>2, <1>1, SMT
    <3>2. CASE i - Len(rcvd) \in 1..Len(up) /\ rcvd'[i] = up[i - Len(rcvd)]
      <4>1. rcvd'[i].place \in next..n /\ rcvd'[i].ifp = out.sent[rcvd'[i].place].primary
        BY <3>2, <2>3
      <4>. QED BY <4>1, <1>1, SMT
    <3>. QED BY <3>1, <3>2, <2>8
  <2>11. ASSUME NEW i \in 1..Len(rcvd'), NEW j \in 1..Len(rcvd'), i < j
         PROVE  rcvd'[i].place < rcvd'[j].place
    <3> DEFINE had == Len(rcvd)
    <3>0. i \in Int /\ j \in Int /\ had \in Nat
      BY <2>6, <2>7, SMT
    <3>1. CASE j \in 1..Len(rcvd) /\ rcvd'[j] = rcvd[j]
      <4>1. i \in 1..had /\ ~(i > had)
        <5>1. i \in Int /\ i >= 1 /\ j \in 1..had
          BY <3>1, <2>6, <2>7, SMT
        <5>. HIDE DEF had
        <5>. QED BY <5>1, <3>0, <2>11, SMT
      <4>2. rcvd'[i] = rcvd[i]
        BY <4>1, <2>8
      <4>. QED BY <3>1, <4>1, <4>2, <2>11 DEF Received
    <3>2. CASE /\ j > Len(rcvd) /\ j - Len(rcvd) \in 1..Len(up)
               /\ rcvd'[j] = up[j - Len(rcvd)]
      <4>1. CASE i \in 1..Len(rcvd) /\ rcvd'[i] = rcvd[i]
        <5>1. rcvd'[i].place \in 1..(next - 1) /\ rcvd'[j].place \in next..n
          BY <4>1, <3>2, <2>3, <2>9
        <5>. QED BY <5>1, <1>1, SMT
      <4>2. CASE i - Len(rcvd) \in 1..Len(up) /\ rcvd'[i] = up[i - Len(rcvd)]
        <5>1. i - had < j - had
          <6>. HIDE DEF had
          <6>. QED BY <3>0, <2>11, SMT
        <5>. QED BY <4>2, <3>2, <5>1, <2>3
      <4>. QED BY <4>1, <4>2, <2>8
    <3>. QED BY <3>1, <3>2, <2>8
  <2>12. \A i \in 1..Len(rcvd') : rcvd'[i].place \in 1..(next' - 1)
    BY <2>10, <2>1, <2>4
  <2>. QED BY <1>1, <2>4, <2>5, <2>6, <2>10, <2>11, <2>12 DEF Received
<1>. QED BY <1>4, <1>5

(* Whatever is sent after it, what was handed up stays what it is. *)
LEMMA SendStep ==
  ASSUME SenderInv(out), Received, UNCHANGED rxVars, Extends(out.sent, out'.sent),
         SenderInv(out')
  PROVE  Received'
<1>1. Len(out.sent) \in Nat /\ Len(out.sent') \in Nat
  BY DEF SenderInv
<1>2. next' = next /\ rcvd' = rcvd /\ rx_started' = rx_started /\ rx_seq_no' = rx_seq_no
  BY DEF rxVars
<1>3. next \in 1..(Len(out.sent') + 1) /\ \A p \in 1..(next - 1) : p \in 1..Len(out.sent)
  BY <1>1, SMT DEF Received, Extends
<1>4. \A i \in 1..Len(rcvd) : rcvd[i].ifp = out.sent'[rcvd[i].place].primary
  BY <1>3 DEF Received, Extends
<1>. QED BY <1>2, <1>3, <1>4 DEF Received

-----------------------------------------------------------------------------
(* The calls of the terminal. *)

Counted == asked \in Nat /\ frame \in Nat /\ chunk \in Nat /\ burst \in Requests

TransportInv == Counted /\ SenderInv(out) /\ Received

(* An indicator is a packet to build, with a redundancy below the history. *)
LEMMA IndSent ==
  ASSUME SenderInv(out), Counted
  PROVE  /\ SenderInv(emit_indicator(out, tx_ind))
         /\ Extends(out.sent, emit_indicator(out, tx_ind).sent)
<1>1. tx_ind \in {"CED", "CNG", "TRAINING", "V21_PREAMBLE", "NO_SIGNAL"}
  BY DEF Counted, tx_ind, Requests, Tones, Silence, Pause, WithData
<1>2. Ind(tx_ind) \in Packets
  BY <1>1 DEF Packets
<1>3. red_ls \in Nat /\ red_ls < BUF
  BY T38Assumption, SMT DEF red_ls
<1>. QED BY <1>2, <1>3, BuildStep DEF emit_indicator

(* So is a data field, whichever modem it is for. *)
LEMMA DataSent ==
  ASSUME NEW o, SenderInv(o),
         NEW ft \in {"HDLC_DATA", "HDLC_FCS_OK", "HDLC_SIG_END", "T4_NON_ECM_DATA",
                     "T4_NON_ECM_SIG_END"},
         NEW payload \in Seq(Nat)
  PROVE  /\ SenderInv(emit_data(o, ft, payload))
         /\ Extends(o.sent, emit_data(o, ft, payload).sent)
<1>1. Data(ft, payload) \in Packets
  BY DEF Packets
<1>2. /\ red_ls \in Nat /\ red_ls < BUF
      /\ red_hs \in Nat /\ red_hs < BUF
  BY UdptlAssumption, T38Assumption, SMT DEF red_ls, red_hs
<1>3. CASE burst.fast
  BY <1>1, <1>2, <1>3, BuildStep DEF emit_data
<1>4. CASE ~burst.fast
  BY <1>1, <1>2, <1>4, BuildStep DEF emit_data
<1>. QED BY <1>3, <1>4

(* PumpEnd builds two datagrams. *)
LEMMA EndSent ==
  ASSUME SenderInv(out),
         NEW ft \in {"HDLC_SIG_END", "T4_NON_ECM_SIG_END"}
  PROVE  LET o == emit_indicator(emit_data(out, ft, <<>>), "NO_SIGNAL") IN
         SenderInv(o) /\ Extends(out.sent, o.sent)
<1> DEFINE mid == emit_data(out, ft, <<>>)
           o == emit_indicator(mid, "NO_SIGNAL")
<1>1. <<>> \in Seq(Nat)
  OBVIOUS
<1>2. SenderInv(mid) /\ Extends(out.sent, mid.sent)
  BY <1>1, DataSent
<1>3. Ind("NO_SIGNAL") \in Packets /\ red_ls \in Nat /\ red_ls < BUF
  BY T38Assumption, SMT DEF Packets, red_ls
<1>. HIDE DEF mid
<1>4. SenderInv(o) /\ Extends(mid.sent, o.sent)
  BY <1>2, <1>3, BuildStep DEF emit_indicator
<1>. HIDE DEF o
<1>5. Len(out.sent) \in Nat /\ Len(mid.sent) \in Nat /\ Len(o.sent) \in Nat
  BY <1>2, <1>4 DEF SenderInv
<1>6. Extends(out.sent, o.sent)
  <2>1. Len(mid.sent) >= Len(out.sent) /\ Len(o.sent) >= Len(mid.sent)
    BY <1>2, <1>4 DEF Extends
  <2>2. Len(o.sent) >= Len(out.sent) /\ \A n \in 1..Len(out.sent) : n \in 1..Len(mid.sent)
    BY <2>1, <1>5, SMT
  <2>. QED BY <2>2, <1>2, <1>4 DEF Extends
<1>. QED BY <1>4, <1>6 DEF o, mid

(* Nothing sent. *)
LEMMA Same == ASSUME SenderInv(out) PROVE Extends(out.sent, out.sent)
<1>1. Len(out.sent) \in Nat
  BY DEF SenderInv
<1>. QED BY <1>1, SMT DEF Extends

(* Whatever phase the pump is in, it sends by nf_udptl_build or not at all. *)
LEMMA PumpStep ==
  ASSUME TransportInv, nf_t38_pump
  PROVE  Counted' /\ SenderInv(out') /\ Extends(out.sent, out'.sent)
<1>. USE DEF TransportInv
<1>1. Extends(out.sent, out.sent)
  BY Same
<1>2. ASSUME burst' = burst, asked' = asked, frame' \in Nat, chunk' \in Nat
      PROVE  Counted'
  BY <1>2 DEF Counted
<1>3. CASE PumpIndicator
  BY <1>3, <1>2, IndSent DEF PumpIndicator, burstVars, Counted
<1>4. CASE PumpIndicatorWait
  BY <1>4, <1>1, <1>2 DEF PumpIndicatorWait, burstVars, Counted
<1>5. CASE PumpHdlcData
  <2>1. CASE chunk = 0 /\ frame = FramesOf(burst)
    BY <2>1, <1>5, <1>1, <1>2 DEF PumpHdlcData, burstVars, Counted
  <2>2. CASE ~(chunk = 0 /\ frame = FramesOf(burst))
    <3> DEFINE f == IF chunk = 0 THEN frame + 1 ELSE frame
    <3>1. f \in Nat /\ chunk + 1 \in Nat /\ chunk + 1 \in Int /\ asked \in Nat
      BY SMT DEF Counted
    <3>2. (chunk + 1) % Chunks \in Nat
      <4>1. (chunk + 1) % Chunks \in 0..(Chunks - 1) /\ Chunks \in Nat
        BY <3>1, T38Assumption, ModFacts
      <4>. QED BY <4>1, SMT
    <3>3. <<asked, f, chunk + 1>> \in Seq(Nat)
      <4>. HIDE DEF f
      <4>. QED BY <3>1, SMT
    <3>4. out' = emit_data(out, "HDLC_DATA", <<asked, f, chunk + 1>>)
      BY <1>5, <2>2 DEF PumpHdlcData
    <3>5. frame' = f /\ chunk' = (chunk + 1) % Chunks /\ burst' = burst /\ asked' = asked
      BY <1>5, <2>2 DEF PumpHdlcData, burstVars
    <3>. HIDE DEF f
    <3>6. SenderInv(out') /\ Extends(out.sent, out'.sent)
      BY <3>3, <3>4, DataSent
    <3>. QED BY <3>1, <3>2, <3>5, <3>6, <1>2
  <2>. QED BY <2>1, <2>2
<1>6. CASE PumpHdlcFcs
  <2>1. <<>> \in Seq(Nat)
    OBVIOUS
  <2>2. out' = emit_data(out, "HDLC_FCS_OK", <<>>)
    BY <1>6 DEF PumpHdlcFcs
  <2>3. SenderInv(out') /\ Extends(out.sent, out'.sent)
    BY <2>1, <2>2, DataSent
  <2>. QED BY <1>6, <2>3, <1>2 DEF PumpHdlcFcs, burstVars, Counted
<1>7. CASE PumpHdlcDrain
  BY <1>7, <1>1, <1>2 DEF PumpHdlcDrain, burstVars, Counted
<1>8. CASE PumpEnd
  <2> DEFINE ft == IF tx_phase = "TX_HDLC_END" THEN "HDLC_SIG_END" ELSE "T4_NON_ECM_SIG_END"
  <2>1. ft \in {"HDLC_SIG_END", "T4_NON_ECM_SIG_END"}
    OBVIOUS
  <2>2. out' = emit_indicator(emit_data(out, ft, <<>>), "NO_SIGNAL")
    BY <1>8 DEF PumpEnd
  <2>3. burst' = burst /\ asked' = asked /\ frame' = frame /\ chunk' = chunk
    BY <1>8 DEF PumpEnd, step_complete, burstVars
  <2>. HIDE DEF ft
  <2>4. SenderInv(out') /\ Extends(out.sent, out'.sent)
    BY <2>1, <2>2, EndSent
  <2>. QED BY <2>3, <2>4, <1>2 DEF Counted
<1>9. CASE PumpImage
  <2>1. <<asked, 0, chunk + 1>> \in Seq(Nat) /\ chunk + 1 \in Nat
    BY SMT DEF Counted
  <2>2. out' = emit_data(out, "T4_NON_ECM_DATA", <<asked, 0, chunk + 1>>)
    BY <1>9 DEF PumpImage
  <2>3. SenderInv(out') /\ Extends(out.sent, out'.sent)
    BY <2>1, <2>2, DataSent
  <2>. QED BY <1>9, <2>1, <2>3, <1>2 DEF PumpImage, burstVars, Counted
<1>10. CASE PumpTrail
  <2>1. <<asked, 0, 0>> \in Seq(Nat)
    BY SMT DEF Counted
  <2>2. out' = emit_data(out, "T4_NON_ECM_DATA", <<asked, 0, 0>>)
    BY <1>10 DEF PumpTrail
  <2>3. SenderInv(out') /\ Extends(out.sent, out'.sent)
    BY <2>1, <2>2, DataSent
  <2>. QED BY <1>10, <2>3, <1>2 DEF PumpTrail, burstVars, Counted
<1>11. CASE PumpWait
  BY <1>11, <1>1, <1>2 DEF PumpWait, step_complete, burstVars, Counted
<1>. QED BY <1>3, <1>4, <1>5, <1>6, <1>7, <1>8, <1>9, <1>10, <1>11 DEF nf_t38_pump

(* The invariant holds at the start of a call. *)
LEMMA TransportInit ==
  ASSUME Init PROVE TransportInv
<1>1. Counted
  BY SMT DEF Init, Counted, Requests
<1>2. /\ out.tx_seq_no = 0 /\ out.sent = <<>> /\ out.tx = [j \in 0..(BUF - 1) |-> NoPacket]
      /\ out = [tx_seq_no |-> 0, tx |-> [j \in 0..(BUF - 1) |-> NoPacket], sent |-> <<>>]
  BY DEF Init, UdptlInit
<1>3. [j \in 0..(BUF - 1) |-> NoPacket] \in [0..(BUF - 1) -> Packets]
  BY DEF Packets
<1>4. /\ out \in [tx_seq_no : Nat, tx : [0..(BUF - 1) -> Packets], sent : Seq(Datagram)]
      /\ Len(out.sent) = 0
  BY <1>2, <1>3, SMT
<1>5. SenderInv(out)
  BY <1>2, <1>4, SMT DEF SenderInv, RingOf
<1>6. Received
  <2>1. next = 1 /\ rx_started = FALSE /\ rcvd = <<>>
    BY DEF Init, UdptlInit
  <2>2. rcvd \in Seq(Item) /\ Len(rcvd) = 0
    BY <2>1
  <2>3. next \in 1..(Len(out.sent) + 1)
    BY <2>1, <1>4, SMT
  <2>4. \A i \in 1..Len(rcvd) : FALSE
    BY <2>2, SMT
  <2>. QED BY <2>1, <2>2, <2>3, <2>4, Zenon DEF Received
<1>. QED BY <1>1, <1>5, <1>6 DEF TransportInv

(* Every step keeps the invariant. *)
LEMMA TransportStep ==
  ASSUME TransportInv, [Next]_vars
  PROVE  TransportInv'
<1>. USE DEF TransportInv
<1>0. SenderInv(out) /\ Received /\ Counted /\ Extends(out.sent, out.sent)
  BY Same
<1>1. CASE Ask /\ UNCHANGED <<rxVars, rxState>>
  <2>1. PICK req \in Requests : set_tx_type(req)
    BY <1>1 DEF Ask
  <2>2. out' = out
    BY <2>1 DEF set_tx_type
  <2>3. Counted'
    BY <2>1, <1>0, SMT DEF set_tx_type, Counted
  <2>4. SenderInv(out)'
    BY <2>2, <1>0 DEF SenderInv, RingOf, CarriesEarlier
  <2>5. UNCHANGED rxVars
    BY <1>1
  <2>6. Received'
    BY <2>2, <2>5, <1>0, SendStep
  <2>. QED BY <2>3, <2>4, <2>6
<1>2. CASE Pump
  <2>1. Counted' /\ SenderInv(out') /\ Extends(out.sent, out'.sent)
    BY <1>2, PumpStep DEF Pump
  <2>2. UNCHANGED rxVars
    BY <1>2 DEF Pump
  <2>3. Received'
    BY <2>1, <2>2, <1>0, SendStep
  <2>4. SenderInv(out)'
    BY <2>1 DEF SenderInv, RingOf, CarriesEarlier
  <2>. QED BY <2>1, <2>3, <2>4
<1>3. CASE Arrive
  <2>1. PICK n \in 1..Len(out.sent) : RxDatagram(n)
    BY <1>3 DEF Arrive
  <2>2. nf_udptl_rx(n) /\ out' = out /\ UNCHANGED txState
    BY <2>1 DEF RxDatagram
  <2>3. Received'
    BY <2>2, <1>0, ArriveStep
  <2>4. SenderInv(out)'
    BY <2>2, <1>0 DEF SenderInv, RingOf, CarriesEarlier
  <2>. QED BY <2>2, <2>3, <2>4, <1>0 DEF Counted, txState
<1>4. CASE Retune
  <2>1. PICK type \in {"V21", "NONE"} : set_rx_type(type)
    BY <1>4 DEF Retune
  <2>2. out' = out /\ UNCHANGED rxVars /\ UNCHANGED txState
    BY <2>1 DEF set_rx_type
  <2>3. Received'
    BY <2>2, <1>0, SendStep
  <2>4. SenderInv(out)'
    BY <2>2, <1>0 DEF SenderInv, RingOf, CarriesEarlier
  <2>. QED BY <2>2, <2>3, <2>4, <1>0 DEF Counted, txState
<1>5. CASE UNCHANGED vars
  <2>1. out' = out /\ UNCHANGED rxVars /\ UNCHANGED txState
    BY <1>5 DEF vars
  <2>2. Received'
    BY <2>1, <1>0, SendStep
  <2>3. SenderInv(out)'
    BY <2>1, <1>0 DEF SenderInv, RingOf, CarriesEarlier
  <2>. QED BY <2>1, <2>2, <2>3, <1>0 DEF Counted, txState
<1>. QED BY <1>1, <1>2, <1>3, <1>4, <1>5 DEF Next

(* InOrder: the receiver of a T.38 call is handed the packets in the order  *)
(* they were sent, each at most once and each as it was sent at its place   *)
(* (nf_udptl_rx, nf_udptl_build), with any constants that satisfy the       *)
(* assumptions and however much the network loses.                          *)
THEOREM InOrderCorrect == Spec => []InOrder
<1>1. TransportInv => InOrder
  <2> SUFFICES ASSUME TransportInv PROVE InOrder
    OBVIOUS
  <2>1. Len(out.sent) \in Nat
    BY DEF TransportInv, SenderInv
  <2>2. \A p \in 1..(next - 1) : p \in 1..Len(out.sent)
    BY <2>1, SMT DEF TransportInv, Received
  <2>. QED BY <2>2 DEF TransportInv, Received, InOrder
<1>2. Init => TransportInv
  BY TransportInit
<1>3. TransportInv /\ [Next]_vars => TransportInv'
  BY TransportStep
<1>. QED BY <1>1, <1>2, <1>3, PTL DEF Spec

-----------------------------------------------------------------------------
(* The sender: what its phases mean. *)

LEMMA RequestFacts ==
  ASSUME NEW b \in Requests
  PROVE  /\ b.kind \in {"CED", "CNG", "NONE", "PAUSE", "frame", "stream", "image"}
         /\ b.fast \in BOOLEAN
         /\ b \in WithData <=> b.kind \in {"frame", "stream", "image"}
         /\ b \in Tones <=> b.kind \in {"CED", "CNG"}
         /\ b = Silence <=> b.kind = "NONE"
         /\ b = Pause <=> b.kind = "PAUSE"
         /\ b.fast => b.kind \in {"stream", "image"}
         /\ b.kind = "image" => b.fast
<1>1. \/ b = [kind |-> "CED", fast |-> FALSE] \/ b = [kind |-> "CNG", fast |-> FALSE]
      \/ b = [kind |-> "NONE", fast |-> FALSE] \/ b = [kind |-> "PAUSE", fast |-> FALSE]
      \/ b = [kind |-> "frame", fast |-> FALSE] \/ b = [kind |-> "stream", fast |-> FALSE]
      \/ b = [kind |-> "stream", fast |-> TRUE] \/ b = [kind |-> "image", fast |-> TRUE]
  BY DEF Requests, WithData, Tones, Silence, Pause
<1>2. /\ b.kind \in {"CED", "CNG", "NONE", "PAUSE", "frame", "stream", "image"}
      /\ b.fast \in BOOLEAN
      /\ b.fast => b.kind \in {"stream", "image"}
      /\ b.kind = "image" => b.fast
      /\ b.kind \notin {"stream", "image"} => b.fast = FALSE
  <2>1. \/ b.kind = "CED" /\ b.fast = FALSE
        \/ b.kind = "CNG" /\ b.fast = FALSE
        \/ b.kind = "NONE" /\ b.fast = FALSE
        \/ b.kind = "PAUSE" /\ b.fast = FALSE
        \/ b.kind = "frame" /\ b.fast = FALSE
        \/ b.kind = "stream" /\ b.fast = FALSE
        \/ b.kind = "stream" /\ b.fast = TRUE
        \/ b.kind = "image" /\ b.fast = TRUE
    BY <1>1
  <2>. QED BY <2>1
<1>3. b \in WithData <=> b.kind \in {"frame", "stream", "image"}
  BY <1>1 DEF WithData
<1>4. b \in Tones <=> b.kind \in {"CED", "CNG"}
  BY <1>1 DEF Tones
<1>5. (b = Silence <=> b.kind = "NONE") /\ (b = Pause <=> b.kind = "PAUSE")
  BY <1>1 DEF Silence, Pause
<1>. QED BY <1>2, <1>3, <1>4, <1>5

Phases ==
  {"TX_IDLE", "TX_IND", "TX_IND_WAIT", "TX_HDLC_DATA", "TX_HDLC_FCS", "TX_HDLC_DRAIN",
   "TX_HDLC_END", "TX_NONECM", "TX_NONECM_TRAIL", "TX_NONECM_END", "TX_TONE_WAIT",
   "TX_PAUSE_WAIT"}

(* How far a burst has come in each phase. *)
PhaseInv ==
  /\ tx_phase \in Phases /\ tx_next_phase \in {"TX_IDLE", "TX_NONECM", "TX_HDLC_DATA"}
  /\ burst \in Requests /\ asked \in 0..Bursts /\ frame \in 0..Frames /\ chunk \in 0..Chunks
  /\ tx_ind_left \in 0..(Repeats - 1) /\ completed \in BOOLEAN
  /\ tx_phase = "TX_IND" =>
       /\ burst.kind # "PAUSE" /\ frame = 0 /\ chunk = 0
       /\ burst.fast => tx_ind_left = 0
  /\ tx_phase = "TX_IND_WAIT" =>
       /\ burst.kind \in {"frame", "stream", "image"} /\ frame = 0 /\ chunk = 0
       /\ tx_next_phase = IF burst.kind = "image" THEN "TX_NONECM" ELSE "TX_HDLC_DATA"
  /\ tx_phase = "TX_HDLC_DATA" =>
       /\ burst.kind \in {"frame", "stream"} /\ frame <= FramesOf(burst)
       /\ chunk < Chunks /\ (chunk > 0 => frame > 0)
  /\ tx_phase = "TX_HDLC_FCS" =>
       burst.kind \in {"frame", "stream"} /\ frame \in 1..FramesOf(burst) /\ chunk = 0
  /\ tx_phase \in {"TX_HDLC_DRAIN", "TX_HDLC_END"} =>
       burst.kind \in {"frame", "stream"} /\ frame = FramesOf(burst) /\ chunk = 0
  /\ tx_phase = "TX_NONECM" => burst.kind = "image" /\ chunk < Chunks
  /\ tx_phase \in {"TX_NONECM_TRAIL", "TX_NONECM_END"} => burst.kind = "image" /\ chunk = Chunks
  /\ tx_phase = "TX_TONE_WAIT" => burst.kind \in {"CED", "CNG"}
  /\ tx_phase = "TX_PAUSE_WAIT" => burst.kind = "PAUSE"
  /\ tx_phase = "TX_IDLE" => completed \/ burst.kind = "NONE"
  /\ completed =>
       /\ tx_phase = "TX_IDLE" /\ burst.kind # "NONE"
       /\ burst.kind = "image" => chunk = Chunks
       /\ burst.kind \in {"frame", "stream"} => frame = FramesOf(burst) /\ chunk = 0
  /\ burst.kind \in {"CED", "CNG", "NONE", "PAUSE"} => frame = 0 /\ chunk = 0
  /\ burst.kind # "NONE" => asked > 0
  /\ asked = 0 => said = <<>> /\ tx_phase = "TX_IDLE"

LEMMA Sizes ==
  /\ Frames \in Nat \ {0} /\ Chunks \in Nat \ {0} /\ Bursts \in Nat /\ Repeats \in Nat \ {0}
  /\ \A b \in Requests : FramesOf(b) \in 1..Frames
<1>1. /\ Frames \in Nat \ {0} /\ Chunks \in Nat \ {0} /\ Bursts \in Nat
      /\ Repeats \in Nat \ {0}
  BY T38Assumption
<1>2. Frames \in 1..Frames /\ 1 \in 1..Frames
  BY <1>1, SMT
<1>. QED BY <1>1, <1>2 DEF FramesOf

LEMMA PhaseAsk ==
  ASSUME PhaseInv, NEW req \in Requests, set_tx_type(req)
  PROVE  PhaseInv'
<1>1. /\ burst' = req /\ asked' = asked + 1 /\ asked < Bursts
      /\ tx_phase' = (IF req = Pause THEN "TX_PAUSE_WAIT" ELSE "TX_IND")
      /\ tx_ind_left' = (IF req = Pause \/ req.fast THEN 0 ELSE Repeats - 1)
      /\ frame' = 0 /\ chunk' = 0 /\ completed' = FALSE /\ tx_next_phase' = tx_next_phase
  BY DEF set_tx_type
<1>2. /\ tx_phase' \in Phases /\ asked' \in 1..Bursts /\ tx_ind_left' \in 0..(Repeats - 1)
      /\ 0 \in 0..Frames /\ 0 \in 0..Chunks
  BY <1>1, Sizes, SMT DEF PhaseInv, Phases
<1>3. /\ req.kind = "PAUSE" <=> req = Pause
      /\ req.fast => req.kind # "PAUSE"
  BY RequestFacts
<1>4. /\ tx_phase' = "TX_PAUSE_WAIT" => req.kind = "PAUSE"
      /\ tx_phase' = "TX_IND" => req.kind # "PAUSE" /\ (req.fast => tx_ind_left' = 0)
      /\ tx_phase' \in {"TX_PAUSE_WAIT", "TX_IND"}
  BY <1>1, <1>3
<1>5. asked' # 0 /\ asked' > 0
  BY <1>2, SMT
<1>6. /\ burst' \in Requests /\ frame' \in 0..Frames /\ chunk' \in 0..Chunks
      /\ completed' = FALSE /\ completed' \in BOOLEAN /\ asked' \in 0..Bursts
      /\ tx_next_phase' \in {"TX_IDLE", "TX_NONECM", "TX_HDLC_DATA"}
  <2>1. tx_next_phase \in {"TX_IDLE", "TX_NONECM", "TX_HDLC_DATA"}
    BY DEF PhaseInv
  <2>2. 1..Bursts \subseteq 0..Bursts
    BY Sizes, SMT
  <2>. QED BY <1>1, <1>2, <2>1, <2>2
<1>. QED BY <1>1, <1>2, <1>4, <1>5, <1>6 DEF PhaseInv, Phases

LEMMA PhasePump ==
  ASSUME PhaseInv, nf_t38_pump
  PROVE  PhaseInv'
<1>1. CASE PumpIndicator
  BY <1>1, Sizes, RequestFacts, SMT DEF PhaseInv, Phases, PumpIndicator, burstVars
<1>2. CASE PumpIndicatorWait
  BY <1>2, Sizes, RequestFacts, SMT DEF PhaseInv, Phases, PumpIndicatorWait, burstVars
<1>3. CASE PumpHdlcData
  <2>1. /\ tx_phase = "TX_HDLC_DATA" /\ burst.kind \in {"frame", "stream"}
        /\ frame \in 0..Frames /\ frame <= FramesOf(burst) /\ FramesOf(burst) \in 1..Frames
        /\ chunk \in 0..Chunks /\ chunk < Chunks /\ (chunk > 0 => frame > 0)
        /\ ~completed
    BY <1>3, Sizes DEF PumpHdlcData, PhaseInv
  <2>2. UNCHANGED <<tx_next_phase, tx_ind_left, burst, asked, completed, said>>
    BY <1>3 DEF PumpHdlcData, burstVars
  <2>3. CASE chunk = 0 /\ frame = FramesOf(burst)
    <3>1. tx_phase' = "TX_HDLC_DRAIN" /\ frame' = frame /\ chunk' = chunk
      BY <1>3, <2>3 DEF PumpHdlcData
    <3>. QED BY <2>1, <2>2, <2>3, <3>1 DEF PhaseInv, Phases, FramesOf
  <2>4. CASE ~(chunk = 0 /\ frame = FramesOf(burst))
    <3>1. /\ frame' = (IF chunk = 0 THEN frame + 1 ELSE frame)
          /\ chunk' = (chunk + 1) % Chunks
          /\ tx_phase' = (IF chunk + 1 = Chunks THEN "TX_HDLC_FCS" ELSE tx_phase)
      BY <1>3, <2>4 DEF PumpHdlcData
    <3>2. frame' \in 1..FramesOf(burst) /\ frame' \in 0..Frames
      BY <2>1, <2>4, <3>1, Sizes, SMT
    <3>3. CASE chunk + 1 = Chunks
      <4>1. chunk' = 0
        BY <3>1, <3>3, Sizes, SMT
      <4>. QED BY <2>1, <2>2, <3>1, <3>2, <3>3, <4>1 DEF PhaseInv, Phases, FramesOf
    <3>4. CASE chunk + 1 # Chunks
      <4>1. chunk' = chunk + 1 /\ chunk' < Chunks /\ chunk' \in 0..Chunks
        BY <2>1, <3>1, <3>4, Sizes, SMT
      <4>. QED BY <2>1, <2>2, <3>1, <3>2, <3>4, <4>1 DEF PhaseInv, Phases, FramesOf
    <3>. QED BY <3>3, <3>4
  <2>. QED BY <2>3, <2>4
<1>4. CASE PumpHdlcFcs
  <2>1. /\ burst.kind \in {"frame", "stream"} /\ frame \in 1..FramesOf(burst) /\ chunk = 0
        /\ tx_phase' = (IF burst.kind = "stream" THEN "TX_HDLC_DATA" ELSE "TX_HDLC_DRAIN")
        /\ ~completed /\ FramesOf(burst) \in 1..Frames
    BY <1>4, Sizes DEF PumpHdlcFcs, PhaseInv
  <2>2. /\ UNCHANGED <<tx_next_phase, tx_ind_left, burst, asked, frame, chunk, completed>>
        /\ asked # 0
    BY <1>4, <2>1 DEF PumpHdlcFcs, burstVars, PhaseInv
  <2>3. CASE burst.kind = "stream"
    BY <2>1, <2>2, <2>3, Sizes DEF PhaseInv, Phases, FramesOf
  <2>4. CASE burst.kind = "frame"
    <3>1. FramesOf(burst) = 1 /\ frame = 1 /\ tx_phase' = "TX_HDLC_DRAIN"
      BY <2>1, <2>4, SMT DEF FramesOf
    <3>. QED BY <2>1, <2>2, <2>4, <3>1 DEF PhaseInv, Phases, FramesOf
  <2>. QED BY <2>1, <2>3, <2>4
<1>5. CASE PumpHdlcDrain
  BY <1>5, Sizes, RequestFacts, SMT DEF PhaseInv, Phases, PumpHdlcDrain, burstVars
<1>6. CASE PumpEnd
  BY <1>6, Sizes, RequestFacts, SMT DEF PhaseInv, Phases, PumpEnd, step_complete, burstVars
<1>7. CASE PumpImage
  BY <1>7, Sizes, RequestFacts, SMT DEF PhaseInv, Phases, PumpImage, burstVars
<1>8. CASE PumpTrail
  BY <1>8, Sizes, RequestFacts, SMT DEF PhaseInv, Phases, PumpTrail, burstVars
<1>9. CASE PumpWait
  BY <1>9, Sizes, RequestFacts, SMT DEF PhaseInv, Phases, PumpWait, step_complete, burstVars
<1>. QED BY <1>1, <1>2, <1>3, <1>4, <1>5, <1>6, <1>7, <1>8, <1>9 DEF nf_t38_pump

-----------------------------------------------------------------------------
(* What the sender has said. *)

Noises ==
  {Event("UP"), Event("DOWN")}
  \cup {FrameEvent(Frame(b, f)) : b \in 1..Bursts, f \in 1..Frames}
  \cup {DataEvent(<<b, 0, k>>) : b \in 1..Bursts, k \in 0..Chunks}

(* The frames and data of the present burst, and how many there must be.    *)
Own == {i \in 1..Len(said) : BurstOf(said[i]) = asked}

OwnCount ==
  IF burst.kind = "image"
  THEN chunk + (IF completed \/ tx_phase = "TX_NONECM_END" THEN 1 ELSE 0)
  ELSE frame - (IF chunk > 0 \/ tx_phase = "TX_HDLC_FCS" THEN 1 ELSE 0)

SaidInv ==
  /\ said \in Seq(Noises)
  /\ \A i \in 1..Len(said) : BurstOf(said[i]) \in 0..asked
  /\ asked > 0 => IsFiniteSet(Own) /\ Cardinality(Own) = OwnCount

LEMMA NoiseFacts ==
  /\ \A w \in {"UP", "DOWN"} : Event(w) \in Noises /\ BurstOf(Event(w)) = 0
  /\ \A b \in 1..Bursts, f \in 1..Frames :
       FrameEvent(Frame(b, f)) \in Noises /\ BurstOf(FrameEvent(Frame(b, f))) = b
  /\ \A b \in 1..Bursts, k \in 0..Chunks :
       DataEvent(<<b, 0, k>>) \in Noises /\ BurstOf(DataEvent(<<b, 0, k>>)) = b
<1>1. ASSUME NEW w \in {"UP", "DOWN"}
      PROVE  Event(w) \in Noises /\ BurstOf(Event(w)) = 0
  <2>1. Event(w).p = <<>>
    BY DEF Event
  <2>. QED BY <2>1 DEF Noises, BurstOf
<1>2. ASSUME NEW b \in 1..Bursts, NEW f \in 1..Frames
      PROVE  FrameEvent(Frame(b, f)) \in Noises /\ BurstOf(FrameEvent(Frame(b, f))) = b
  <2>1. Frame(b, f)[1] = <<b, f, 1>> /\ DOMAIN Frame(b, f) = 1..Chunks /\ 1 \in 1..Chunks
    BY Sizes, SMT DEF Frame
  <2>2. Frame(b, f) # <<>>
    <3>1. Len(Frame(b, f)) = Chunks
      BY Sizes, SMT DEF Frame
    <3>2. Len(<<>>) = 0 /\ Chunks # 0
      BY Sizes
    <3>. QED BY <3>1, <3>2
  <2>3. FrameEvent(Frame(b, f)).p = Frame(b, f) /\ FrameEvent(Frame(b, f)).call = "FRAME"
    BY DEF FrameEvent
  <2>4. BurstOf(FrameEvent(Frame(b, f))) = Frame(b, f)[1][1]
    BY <2>2, <2>3 DEF BurstOf
  <2>. QED BY <2>1, <2>4 DEF Noises
<1>3. ASSUME NEW b \in 1..Bursts, NEW k \in 0..Chunks
      PROVE  DataEvent(<<b, 0, k>>) \in Noises /\ BurstOf(DataEvent(<<b, 0, k>>)) = b
  <2>1. DataEvent(<<b, 0, k>>).p = <<b, 0, k>> /\ DataEvent(<<b, 0, k>>).call = "DATA"
    BY DEF DataEvent
  <2>2. <<b, 0, k>> # <<>> /\ <<b, 0, k>>[1] = b
    OBVIOUS
  <2>3. DataEvent(<<b, 0, k>>) \in Noises
    BY DEF Noises
  <2>. HIDE DEF DataEvent
  <2>4. BurstOf(DataEvent(<<b, 0, k>>)) = <<b, 0, k>>[1]
    BY <2>1, <2>2 DEF BurstOf
  <2>. QED BY <2>2, <2>3, <2>4
<1>. QED BY <1>1, <1>2, <1>3

(* A word of the present burst is one more of its own; the carrier none.    *)
LEMMA SayOne ==
  ASSUME SaidInv, asked \in Nat, asked > 0, asked' = asked,
         NEW e \in Noises, said' = Append(said, e), BurstOf(e) \in {0, asked}
  PROVE  /\ said' \in Seq(Noises)
         /\ \A i \in 1..Len(said') : BurstOf(said'[i]) \in 0..asked'
         /\ IsFiniteSet(Own')
         /\ BurstOf(e) = 0 => Cardinality(Own') = Cardinality(Own)
         /\ BurstOf(e) = asked => Cardinality(Own') = Cardinality(Own) + 1
<1>. DEFINE n == Len(said)
<1>1. /\ said \in Seq(Noises) /\ n \in Nat /\ said' \in Seq(Noises) /\ Len(said') = n + 1
      /\ said'[n + 1] = e /\ \A i \in 1..n : said'[i] = said[i]
  BY DEF SaidInv
<1>2. \A i \in 1..(n + 1) : i \in 1..n \/ i = n + 1
  BY <1>1, SMT
<1>3. \A i \in 1..n : i \in 1..(n + 1) /\ i # n + 1
  BY <1>1, SMT
<1>4. \A i \in 1..Len(said') : BurstOf(said'[i]) \in 0..asked'
  <2>1. 0 \in 0..asked /\ asked \in 0..asked
    BY SMT
  <2>. QED BY <1>1, <1>2, <2>1 DEF SaidInv
<1>5. n + 1 \in 1..(n + 1) /\ n + 1 \notin Own
  BY <1>1, SMT DEF Own
<1>6. CASE BurstOf(e) = 0
  <2>1. 0 # asked
    OBVIOUS
  <2>2. Own' = Own
    BY <1>1, <1>2, <1>3, <1>6, <2>1 DEF Own
  <2>. QED BY <1>1, <1>4, <1>6, <2>1, <2>2 DEF SaidInv
<1>7. CASE BurstOf(e) = asked
  <2>1. Own' = Own \cup {n + 1}
    BY <1>1, <1>2, <1>3, <1>5, <1>7 DEF Own
  <2>2. IsFiniteSet(Own)
    BY DEF SaidInv
  <2>3. IsFiniteSet(Own') /\ Cardinality(Own') = Cardinality(Own) + 1
    BY <1>5, <2>1, <2>2, FS_AddElement
  <2>4. asked # 0
    OBVIOUS
  <2>. QED BY <1>1, <1>4, <1>7, <2>3, <2>4
<1>. QED BY <1>6, <1>7

LEMMA SaidAsk ==
  ASSUME SaidInv, PhaseInv, NEW req \in Requests, set_tx_type(req)
  PROVE  SaidInv'
<1>1. /\ asked' = asked + 1 /\ burst' = req /\ frame' = 0 /\ chunk' = 0 /\ completed' = FALSE
      /\ tx_phase' \in {"TX_PAUSE_WAIT", "TX_IND"}
      /\ said' = said \/ said' = Append(said, Event("DOWN"))
  BY DEF set_tx_type
<1>2. asked \in Nat /\ asked' > asked /\ 0..asked \subseteq 0..asked' /\ asked' \notin 0..asked
      /\ 0 # asked' /\ 0 \in 0..asked'
  BY <1>1, Sizes, SMT DEF PhaseInv
<1>3. said' \in Seq(Noises) /\ \A i \in 1..Len(said') : BurstOf(said'[i]) \in {0} \cup 0..asked
  <2>1. CASE said' = said
    BY <2>1 DEF SaidInv
  <2>2. CASE said' = Append(said, Event("DOWN"))
    <3>1. Event("DOWN") \in Noises /\ BurstOf(Event("DOWN")) = 0
      BY NoiseFacts
    <3>2. said \in Seq(Noises) /\ Len(said) \in Nat
      BY DEF SaidInv
    <3>3. ASSUME NEW i \in 1..Len(said')
          PROVE  \/ i \in 1..Len(said) /\ said'[i] = said[i]
                 \/ said'[i] = Event("DOWN")
      BY <2>2, <3>1, <3>2
    <3>. QED BY <2>2, <3>1, <3>2, <3>3 DEF SaidInv
  <2>. QED BY <1>1, <2>1, <2>2
<1>4. Own' = {}
  BY <1>2, <1>3 DEF Own
<1>5. OwnCount' = 0
  <2>1. /\ tx_phase' # "TX_NONECM_END" /\ tx_phase' # "TX_HDLC_FCS" /\ ~(chunk' > 0)
        /\ ~completed' /\ frame' = 0 /\ chunk' = 0
    BY <1>1, SMT
  <2>2. OwnCount' = 0 + 0 \/ OwnCount' = 0 - 0
    BY <2>1 DEF OwnCount
  <2>. QED BY <2>2
<1>. QED BY <1>2, <1>3, <1>4, <1>5, FS_EmptySet DEF SaidInv

(* A phase that says nothing and one that says one word. *)
LEMMA SaysNothing ==
  ASSUME SaidInv, said' = said, asked' = asked, OwnCount' = OwnCount
  PROVE  SaidInv'
  BY DEF SaidInv, Own

LEMMA SaidPump ==
  ASSUME SaidInv, PhaseInv, nf_t38_pump
  PROVE  SaidInv'
<1>0. /\ asked \in Nat /\ asked' = asked /\ burst' = burst
      /\ frame \in Nat /\ chunk \in Nat
      /\ asked > 0 => asked \in 1..Bursts
  <2>1. asked' = asked /\ burst' = burst
    BY DEF nf_t38_pump, PumpIndicator, PumpIndicatorWait, PumpHdlcData, PumpHdlcFcs,
           PumpHdlcDrain, PumpEnd, PumpImage, PumpTrail, PumpWait, step_complete, burstVars
  <2>2. asked \in 0..Bursts /\ frame \in 0..Frames /\ chunk \in 0..Chunks
    BY DEF PhaseInv
  <2>. QED BY <2>1, <2>2, Sizes, SMT
<1>1. ASSUME asked > 0, NEW e \in Noises, said' = Append(said, e),
             \/ BurstOf(e) = 0 /\ OwnCount' = OwnCount
             \/ BurstOf(e) = asked /\ OwnCount' = OwnCount + 1
      PROVE  SaidInv'
  BY <1>0, <1>1, SayOne DEF SaidInv
<1>2. CASE PumpIndicator
  <2>1. OwnCount' = OwnCount
    BY <1>2, <1>0 DEF PumpIndicator, OwnCount, PhaseInv
  <2>2. CASE burst.fast
    <3>1. asked > 0 /\ said' = Append(said, Event("UP"))
      BY <1>0, <1>2, <2>2, RequestFacts DEF PumpIndicator, PhaseInv
    <3>. QED BY <2>1, <3>1, <1>1, NoiseFacts
  <2>3. CASE ~burst.fast
    BY <1>0, <1>2, <2>1, <2>3, SaysNothing DEF PumpIndicator
  <2>. QED BY <2>2, <2>3
<1>3. CASE PumpIndicatorWait
  <2>1. OwnCount' = OwnCount
    BY <1>3, <1>0 DEF PumpIndicatorWait, OwnCount, PhaseInv
  <2>. QED BY <1>0, <1>3, <2>1, SaysNothing DEF PumpIndicatorWait
<1>4. CASE PumpHdlcData
  <2>1. /\ tx_phase = "TX_HDLC_DATA" /\ burst.kind # "image" /\ frame \in Nat /\ chunk \in Nat
        /\ said' = said
    BY <1>0, <1>4 DEF PumpHdlcData, PhaseInv
  <2>2. CASE chunk = 0 /\ frame = FramesOf(burst)
    <3>1. tx_phase' = "TX_HDLC_DRAIN" /\ frame' = frame /\ chunk' = chunk
      BY <1>4, <2>2 DEF PumpHdlcData
    <3>2. OwnCount' = OwnCount
      BY <1>0, <2>1, <3>1 DEF OwnCount
    <3>. QED BY <1>0, <2>1, <3>2, SaysNothing
  <2>3. CASE ~(chunk = 0 /\ frame = FramesOf(burst))
    <3>1. /\ frame' = (IF chunk = 0 THEN frame + 1 ELSE frame)
          /\ chunk' = (chunk + 1) % Chunks
          /\ tx_phase' = (IF chunk + 1 = Chunks THEN "TX_HDLC_FCS" ELSE tx_phase)
      BY <1>4, <2>3 DEF PumpHdlcData
    <3>2. chunk < Chunks
      BY <2>1 DEF PhaseInv
    <3>3. (chunk' > 0 \/ tx_phase' = "TX_HDLC_FCS")
      <4>1. CASE chunk + 1 = Chunks
        BY <3>1, <4>1
      <4>2. CASE chunk + 1 # Chunks
        BY <2>1, <3>1, <3>2, <4>2, Sizes, SMT
      <4>. QED BY <4>1, <4>2
    <3>4. OwnCount' = frame' - 1
      BY <1>0, <2>1, <3>3 DEF OwnCount
    <3>5. OwnCount = (IF chunk > 0 THEN frame - 1 ELSE frame)
      BY <2>1, SMT DEF OwnCount
    <3>6. OwnCount' = OwnCount
      BY <2>1, <3>1, <3>4, <3>5, SMT
    <3>. QED BY <1>0, <2>1, <3>6, SaysNothing
  <2>. QED BY <2>2, <2>3
<1>5. CASE PumpHdlcFcs
  <2>1. /\ tx_phase = "TX_HDLC_FCS" /\ burst.kind \in {"frame", "stream"}
        /\ frame \in 1..FramesOf(burst) /\ chunk = 0 /\ asked > 0
        /\ said' = Append(said, FrameEvent(Frame(asked, frame)))
        /\ tx_phase' \in {"TX_HDLC_DATA", "TX_HDLC_DRAIN"} /\ frame' = frame /\ chunk' = chunk
        /\ burst \in Requests
    BY <1>5, <1>0 DEF PumpHdlcFcs, PhaseInv
  <2>2. frame \in 1..Frames /\ frame \in Int
    BY <2>1, Sizes, SMT
  <2>3. OwnCount = frame - 1 /\ OwnCount' = frame
    BY <1>0, <2>1, <2>2, SMT DEF OwnCount
  <2>4. /\ FrameEvent(Frame(asked, frame)) \in Noises
        /\ BurstOf(FrameEvent(Frame(asked, frame))) = asked
    BY <1>0, <2>1, <2>2, NoiseFacts
  <2>5. OwnCount' = OwnCount + 1
    BY <2>2, <2>3, SMT
  <2>. HIDE DEF OwnCount
  <2>. QED BY <1>1, <2>1, <2>4, <2>5
<1>6. CASE PumpHdlcDrain
  <2>1. OwnCount' = OwnCount
    BY <1>6, <1>0 DEF PumpHdlcDrain, OwnCount, PhaseInv
  <2>. QED BY <1>0, <1>6, <2>1, SaysNothing DEF PumpHdlcDrain
<1>7. CASE PumpEnd
  <2>1. OwnCount' = OwnCount
    BY <1>7, <1>0 DEF PumpEnd, step_complete, OwnCount, PhaseInv
  <2>2. CASE burst.fast
    <3>1. asked > 0 /\ said' = Append(said, Event("DOWN"))
      BY <1>0, <1>7, <2>2, RequestFacts DEF PumpEnd, PhaseInv
    <3>. QED BY <2>1, <3>1, <1>1, NoiseFacts
  <2>3. CASE ~burst.fast
    BY <1>0, <1>7, <2>1, <2>3, SaysNothing DEF PumpEnd
  <2>. QED BY <2>2, <2>3
<1>8. CASE PumpImage
  <2>1. /\ tx_phase = "TX_NONECM" /\ burst.kind = "image" /\ asked > 0 /\ ~completed
        /\ completed' = completed
        /\ said' = Append(said, DataEvent(<<asked, 0, chunk + 1>>))
        /\ tx_phase' \in {"TX_NONECM", "TX_NONECM_TRAIL"} /\ chunk' = chunk + 1
        /\ chunk < Chunks
    BY <1>8, <1>0 DEF PumpImage, PhaseInv
  <2>2. OwnCount = chunk + 0 /\ OwnCount' = (chunk + 1) + 0
    BY <1>0, <2>1 DEF OwnCount
  <2>3. chunk + 1 \in 0..Chunks /\ OwnCount' = OwnCount + 1
    BY <1>0, <2>1, <2>2, Sizes, SMT
  <2>4. /\ DataEvent(<<asked, 0, chunk + 1>>) \in Noises
        /\ BurstOf(DataEvent(<<asked, 0, chunk + 1>>)) = asked
    BY <1>0, <2>1, <2>3, NoiseFacts
  <2>. QED BY <1>1, <2>1, <2>3, <2>4
<1>9. CASE PumpTrail
  <2>1. /\ tx_phase = "TX_NONECM_TRAIL" /\ burst.kind = "image" /\ asked > 0 /\ ~completed
        /\ completed' = completed
        /\ said' = Append(said, DataEvent(<<asked, 0, 0>>))
        /\ tx_phase' = "TX_NONECM_END" /\ chunk' = chunk
    BY <1>9, <1>0 DEF PumpTrail, PhaseInv
  <2>2. OwnCount = chunk + 0 /\ OwnCount' = chunk + 1
    BY <1>0, <2>1 DEF OwnCount
  <2>3. 0 \in 0..Chunks /\ OwnCount' = OwnCount + 1
    BY <1>0, <2>1, <2>2, Sizes, SMT
  <2>4. /\ DataEvent(<<asked, 0, 0>>) \in Noises
        /\ BurstOf(DataEvent(<<asked, 0, 0>>)) = asked
    BY <1>0, <2>1, <2>3, NoiseFacts
  <2>. QED BY <1>1, <2>1, <2>3, <2>4
<1>10. CASE PumpWait
  <2>1. OwnCount' = OwnCount
    BY <1>10, <1>0 DEF PumpWait, step_complete, OwnCount, PhaseInv
  <2>. QED BY <1>0, <1>10, <2>1, SaysNothing DEF PumpWait
<1>. QED BY <1>2, <1>3, <1>4, <1>5, <1>6, <1>7, <1>8, <1>9, <1>10 DEF nf_t38_pump

(* The other two processes touch nothing of the sender. *)
SenderOK == PhaseInv /\ SaidInv

LEMMA SenderStep ==
  ASSUME SenderOK, [Next]_vars PROVE SenderOK'
<1>1. CASE Ask /\ UNCHANGED <<rxVars, rxState>>
  BY <1>1, PhaseAsk, SaidAsk DEF Ask, SenderOK
<1>2. CASE Pump
  BY <1>2, PhasePump, SaidPump DEF Pump, SenderOK
<1>3. ASSUME UNCHANGED txState PROVE SenderOK'
  BY <1>3 DEF SenderOK, PhaseInv, SaidInv, txState, Own, OwnCount
<1>4. CASE Arrive
  BY <1>4, <1>3 DEF Arrive, RxDatagram
<1>5. CASE Retune
  BY <1>5, <1>3 DEF Retune, set_rx_type
<1>. QED BY <1>1, <1>2, <1>3, <1>4, <1>5 DEF Next, vars

LEMMA SenderInit == ASSUME Init PROVE SenderOK
<1>1. PhaseInv
  <2>1. 0 \in 0..Bursts /\ 0 \in 0..Frames /\ 0 \in 0..Chunks /\ 0 \in 0..(Repeats - 1)
    BY Sizes, SMT
  <2>2. Silence \in Requests /\ Silence.kind = "NONE"
    BY DEF Requests, Silence
  <2>. QED BY <2>1, <2>2 DEF Init, PhaseInv, Phases
<1>2. said \in Seq(Noises) /\ Len(said) = 0 /\ asked = 0
  BY DEF Init
<1>. QED BY <1>1, <1>2, SMT DEF SenderOK, SaidInv

(* CompleteMeansSent: the terminal reports a burst as sent only when it has *)
(* sent every frame of it, or all of the image data with its trail, however *)
(* the bursts before it were cut short (nf_t38_pump, SEND_STEP_COMPLETE).   *)
THEOREM CompleteMeansSentCorrect == Spec => []CompleteMeansSent
<1>1. SenderOK => CompleteMeansSent
  <2> SUFFICES ASSUME SenderOK, completed, burst \in WithData
               PROVE  Cardinality(Own) = IF burst.kind = "image" THEN Chunks + 1 ELSE FramesOf(burst)
    BY DEF CompleteMeansSent, Own
  <2>1. /\ burst.kind \in {"frame", "stream", "image"} /\ asked > 0 /\ tx_phase = "TX_IDLE"
        /\ frame \in Nat
    BY RequestFacts, Sizes, SMT DEF SenderOK, PhaseInv
  <2>2. Cardinality(Own) = OwnCount
    BY <2>1 DEF SenderOK, SaidInv
  <2>3. CASE burst.kind = "image"
    BY <2>1, <2>2, <2>3 DEF SenderOK, PhaseInv, OwnCount
  <2>4. CASE burst.kind # "image"
    <3>1. chunk = 0 /\ frame = FramesOf(burst)
      BY <2>1, <2>4 DEF SenderOK, PhaseInv
    <3>2. OwnCount = frame - 0 /\ frame - 0 = frame
      BY <2>1, <2>4, <3>1, SMT DEF OwnCount
    <3>. QED BY <2>2, <2>4, <3>1, <3>2
  <2>. QED BY <2>3, <2>4
<1>. QED BY <1>1, SenderInit, SenderStep, PTL DEF Spec

-----------------------------------------------------------------------------
(* Induction up to a bound, and what it says of FoldLeft over packets. *)

LEMMA UpTo ==
  ASSUME NEW n \in Nat, NEW T, 0 \in T, \A k \in 0..(n - 1) : k \in T => k + 1 \in T
  PROVE  \A k \in 0..n : k \in T
<1>. DEFINE Bad == {k \in Nat : k <= n /\ k \notin T}
<1>1. ASSUME Bad # {} PROVE FALSE
  <2>1. IsWellFoundedOn(OpToRel(<, Nat), Nat)
    BY NatLessThanWellFounded
  <2>2. Bad \subseteq Nat
    OBVIOUS
  <2>. HIDE DEF Bad
  <2>3. PICK m \in Bad : \A k \in Bad : ~(<<k, m>> \in OpToRel(<, Nat))
    BY <1>1, <2>1, <2>2, WFMin
  <2>4. \A k \in Bad : ~(k < m)
    BY <2>2, <2>3 DEF OpToRel
  <2>. USE DEF Bad
  <2>5. m \in Nat /\ m <= n /\ m \notin T /\ m # 0
    BY <2>3
  <2>6. m - 1 \in 0..(n - 1) /\ m - 1 \in Nat /\ m - 1 <= n /\ m - 1 < m /\ (m - 1) + 1 = m
    BY <2>5, SMT
  <2>7. m - 1 \in T
    BY <2>4, <2>6
  <2>. QED BY <2>5, <2>6, <2>7
<1>2. \A k \in 0..n : k \in Nat /\ k <= n
  BY SMT
<1>. QED BY <1>1, <1>2

RxFold(base, items) == FoldLeft(rx_ifp, base, items)

(* FoldLeft by the recursive function that stands behind it.                *)
IsFold(g, base, items, n) ==
  g = [s \in SUBSET (1..n) |->
         IF s = {} THEN base ELSE rx_ifp(g[s \ {Max(s)}], items[Max(s)])]

LEMMA FoldIs ==
  ASSUME NEW base, NEW items, NEW n \in Nat, DOMAIN items = 1..n
  PROVE  RxFold(base, items) = (CHOOSE g : IsFold(g, base, items, n))[1..n]
  BY DEF RxFold, FoldLeft, MapThenFoldSet, IsFold

(* There is such a function: that of one item less, extended. *)
LEMMA FoldExists ==
  ASSUME NEW base, NEW items, NEW n \in Nat
  PROVE  \E g : IsFold(g, base, items, n)
<1>. DEFINE T == {k \in Nat : \E g : IsFold(g, base, items, k)}
<1>1. 0 \in T
  <2>. DEFINE g == [s \in SUBSET (1..0) |-> base]
  <2>1. 1..0 = {}
    BY SMT
  <2>2. \A s \in SUBSET (1..0) : s = {}
    BY <2>1
  <2>3. g = [s \in SUBSET (1..0) |->
               IF s = {} THEN base ELSE rx_ifp(g[s \ {Max(s)}], items[Max(s)])]
    BY <2>2
  <2>4. IsFold(g, base, items, 0)
    BY <2>3 DEF IsFold
  <2>. QED BY <2>4
<1>2. ASSUME NEW k \in Nat, k \in T PROVE k + 1 \in T
  <2>1. PICK h : IsFold(h, base, items, k)
    BY <1>2
  <2>. DEFINE old == SUBSET (1..k)
              new == SUBSET (1..(k + 1))
              g == [s \in new |->
                      IF s = {} THEN base ELSE rx_ifp(h[s \ {Max(s)}], items[Max(s)])]
  <2>2. 1..(k + 1) = (1..k) \cup {k + 1} /\ k + 1 \notin 1..k
    BY SMT
  <2>3. \A s \in old : s \in new /\ g[s] = h[s]
    <3>1. \A s \in old : s \in new
      BY <2>2
    <3>2. \A s \in old : h[s] = IF s = {} THEN base ELSE rx_ifp(h[s \ {Max(s)}], items[Max(s)])
      BY <2>1 DEF IsFold
    <3>. QED BY <3>1, <3>2
  <2>4. ASSUME NEW s \in new, s # {} PROVE s \ {Max(s)} \in old
    <3>1. CASE k + 1 \in s
      <4>1. \A x \in s : k + 1 >= x /\ (x >= k + 1 => x = k + 1)
        BY SMT
      <4>2. Max(s) = k + 1
        BY <3>1, <4>1 DEF Max
      <4>. QED BY <2>2, <4>2
    <3>2. CASE k + 1 \notin s
      BY <2>2, <3>2
    <3>. QED BY <3>1, <3>2
  <2>. HIDE DEF g
  <2>5. \A s \in new : s # {} => g[s \ {Max(s)}] = h[s \ {Max(s)}]
    BY <2>3, <2>4
  <2>. USE DEF g
  <2>6. IsFold(g, base, items, k + 1)
    <3>1. g = [s \in new |-> IF s = {} THEN base ELSE rx_ifp(g[s \ {Max(s)}], items[Max(s)])]
      BY <2>5
    <3>. QED BY <3>1 DEF IsFold
  <2>. QED BY <2>6
<1>3. \A k \in 0..n : k \in T
  <2>1. \A k \in 0..(n - 1) : k \in Nat
    BY SMT
  <2>. HIDE DEF T
  <2>. QED BY <1>1, <1>2, <2>1, UpTo
<1>4. n \in 0..n
  BY SMT
<1>. QED BY <1>3, <1>4

(* The states a fold goes through. *)
StepsOf(st, base, items, n) ==
  /\ st[0] = base /\ st[n] = RxFold(base, items)
  /\ \A k \in 0..(n - 1) : st[k + 1] = rx_ifp(st[k], items[k + 1])

LEMMA FoldSteps ==
  ASSUME NEW base, NEW items, NEW n \in Nat, DOMAIN items = 1..n
  PROVE  \E st : StepsOf(st, base, items, n)
<1>. DEFINE g == CHOOSE g : IsFold(g, base, items, n)
            st == [k \in 0..n |-> g[1..k]]
<1>1. RxFold(base, items) = g[1..n]
  BY FoldIs
<1>2. IsFold(g, base, items, n)
  BY FoldExists
<1>. HIDE DEF g
<1>3. \A s \in SUBSET (1..n) :
         g[s] = IF s = {} THEN base ELSE rx_ifp(g[s \ {Max(s)}], items[Max(s)])
  BY <1>2 DEF IsFold
<1>4. st[0] = base
  <2>1. 1..0 = {} /\ 0 \in 0..n
    BY SMT
  <2>. QED BY <1>3, <2>1
<1>5. st[n] = g[1..n]
  <2>1. n \in 0..n
    BY SMT
  <2>. QED BY <2>1
<1>6. ASSUME NEW k \in 0..(n - 1)
      PROVE  st[k + 1] = rx_ifp(st[k], items[k + 1])
  <2>1. /\ k \in 0..n /\ k + 1 \in 0..n /\ 1..(k + 1) \subseteq 1..n
        /\ k + 1 \in 1..(k + 1) /\ (1..(k + 1)) \ {k + 1} = 1..k
    BY SMT
  <2>2. Max(1..(k + 1)) = k + 1
    <3>1. \A x \in 1..(k + 1) : k + 1 >= x /\ (x >= k + 1 => x = k + 1)
      BY SMT
    <3>. QED BY <2>1, <3>1 DEF Max
  <2>3. 1..(k + 1) # {}
    BY <2>1
  <2>. QED BY <1>3, <2>1, <2>2, <2>3
<1>7. StepsOf(st, base, items, n)
  BY <1>1, <1>4, <1>5, <1>6 DEF StepsOf
<1>. QED BY <1>7

-----------------------------------------------------------------------------
(* What a packet makes of the receiver's state. *)

Calls ==
  {Event("UP"), Event("DOWN")} \cup {FrameEvent(h) : h \in Seq(Seq(Nat))}
  \cup {DataEvent(p) : p \in Seq(Nat)}

RxStates ==
  [hdlc : Seq(Seq(Nat)), carrier : BOOLEAN, fast : BOOLEAN, on : BOOLEAN, heard : Seq(Calls)]

Item1(ifp) == [ifp |-> ifp]

(* The call that comes of a carrier that goes. *)
Fallen(r) == IF r.carrier /\ r.fast THEN Append(r.heard, Event("DOWN")) ELSE r.heard

LEMMA Told ==
  ASSUME NEW r \in RxStates, NEW e \in Calls
  PROVE  /\ Tell(r, e) \in RxStates
         /\ Tell(r, e) = [r EXCEPT !.heard = IF r.on THEN Append(r.heard, e) ELSE r.heard]
<1>1. Tell(r, e) = [r EXCEPT !.heard = IF r.on THEN Append(r.heard, e) ELSE r.heard]
  BY DEF Tell, RxStates
<1>2. (IF r.on THEN Append(r.heard, e) ELSE r.heard) \in Seq(Calls)
  BY DEF RxStates
<1>. QED BY <1>1, <1>2 DEF RxStates

LEMMA Down ==
  ASSUME NEW r \in RxStates
  PROVE  /\ rx_carrier_down(r) \in RxStates
         /\ rx_carrier_down(r).hdlc = r.hdlc /\ rx_carrier_down(r).fast = r.fast
         /\ rx_carrier_down(r).carrier = FALSE /\ rx_carrier_down(r).on = r.on
         /\ rx_carrier_down(r).heard = IF r.on THEN Fallen(r) ELSE r.heard
<1>1. Event("DOWN") \in Calls
  BY DEF Calls
<1>. DEFINE d == IF r.carrier /\ r.fast THEN Tell(r, Event("DOWN")) ELSE r
<1>2. /\ d \in RxStates /\ d.hdlc = r.hdlc /\ d.fast = r.fast /\ d.on = r.on
      /\ d.heard = IF r.on THEN Fallen(r) ELSE r.heard
  <2>1. Tell(r, Event("DOWN")) \in RxStates
    BY <1>1, Told
  <2>2. Tell(r, Event("DOWN")) = [r EXCEPT !.heard = IF r.on THEN Append(r.heard, Event("DOWN"))
                                                     ELSE r.heard]
    BY <1>1, Told
  <2>. QED BY <2>1, <2>2 DEF RxStates, Fallen
<1>3. rx_carrier_down(r) = [d EXCEPT !.carrier = FALSE]
  BY DEF rx_carrier_down
<1>. HIDE DEF d
<1>. QED BY <1>2, <1>3 DEF RxStates

(* An indicator: what is half received is dropped, a fast carrier falls,    *)
(* and one comes up when the indicator is of training.                      *)
LEMMA HearInd ==
  ASSUME NEW r \in RxStates, NEW v \in {"CED", "CNG", "NO_SIGNAL", "V21_PREAMBLE", "TRAINING", "none"}
  PROVE  LET s == rx_ifp(r, Item1(Ind(v))) IN
         /\ s \in RxStates /\ s.hdlc = <<>> /\ s.on = r.on
         /\ v \notin {"TRAINING", "none"} =>
              /\ s.fast = FALSE /\ s.carrier = (v = "V21_PREAMBLE")
              /\ s.heard = IF r.on THEN Fallen(r) ELSE r.heard
         /\ v \in {"TRAINING", "none"} =>
              /\ s.fast = TRUE /\ s.carrier = TRUE
              /\ s.heard = IF r.on THEN Append(Fallen(r), Event("UP")) ELSE r.heard
<1>. DEFINE d == [rx_carrier_down(r) EXCEPT !.hdlc = <<>>]
            s == rx_ifp(r, Item1(Ind(v)))
<1>1. s = rx_indicator(r, v)
  BY DEF rx_ifp, Item1, Ind
<1>2. /\ d \in RxStates /\ d.hdlc = <<>> /\ d.carrier = FALSE /\ d.on = r.on
      /\ d.heard = IF r.on THEN Fallen(r) ELSE r.heard
  <2>. DEFINE c == rx_carrier_down(r)
  <2>1. /\ c \in RxStates /\ c.carrier = FALSE /\ c.on = r.on
        /\ c.heard = IF r.on THEN Fallen(r) ELSE r.heard
    BY Down
  <2>2. <<>> \in Seq(Seq(Nat)) /\ d = [c EXCEPT !.hdlc = <<>>]
    OBVIOUS
  <2>. HIDE DEF c, d
  <2>. QED BY <2>1, <2>2 DEF RxStates
<1>3. rx_indicator(r, v) =
        CASE v \in {"NO_SIGNAL", "CED", "CNG"} -> [d EXCEPT !.fast = FALSE]
          [] v = "V21_PREAMBLE" -> [d EXCEPT !.fast = FALSE, !.carrier = TRUE]
          [] OTHER -> Tell([d EXCEPT !.fast = TRUE, !.carrier = TRUE], Event("UP"))
  BY DEF rx_indicator
<1>. HIDE DEF d, s
<1>4. CASE v \in {"NO_SIGNAL", "CED", "CNG"}
  <2>1. s = [d EXCEPT !.fast = FALSE]
    BY <1>1, <1>3, <1>4
  <2>. QED BY <1>2, <1>4, <2>1 DEF RxStates, s
<1>5. CASE v = "V21_PREAMBLE"
  <2>1. s = [d EXCEPT !.fast = FALSE, !.carrier = TRUE]
    BY <1>1, <1>3, <1>5
  <2>. QED BY <1>2, <1>5, <2>1 DEF RxStates, s
<1>6. CASE v \in {"TRAINING", "none"}
  <2>. DEFINE t == [d EXCEPT !.fast = TRUE, !.carrier = TRUE]
  <2>1. s = Tell(t, Event("UP"))
    BY <1>1, <1>3, <1>6
  <2>2. /\ t \in RxStates /\ t.hdlc = <<>> /\ t.carrier = TRUE /\ t.fast = TRUE /\ t.on = r.on
        /\ t.heard = IF r.on THEN Fallen(r) ELSE r.heard
    BY <1>2 DEF RxStates
  <2>. HIDE DEF t
  <2>3. Event("UP") \in Calls
    BY DEF Calls
  <2>4. s \in RxStates
    BY <2>1, <2>2, <2>3, Told
  <2>5. s = [t EXCEPT !.heard = IF t.on THEN Append(t.heard, Event("UP")) ELSE t.heard]
    BY <2>1, <2>2, <2>3, Told
  <2>. QED BY <1>6, <2>2, <2>4, <2>5 DEF RxStates, s
<1>. QED BY <1>4, <1>5, <1>6

QuietSignals == {"CED", "CNG", "NO_SIGNAL", "V21_PREAMBLE"}

LEMMA HearQuiet ==
  ASSUME NEW r \in RxStates, NEW v \in QuietSignals
  PROVE  LET s == rx_ifp(r, Item1(Ind(v))) IN
         /\ s.hdlc = <<>> /\ s.fast = FALSE /\ s.heard = IF r.on THEN Fallen(r) ELSE r.heard
         /\ s \in RxStates /\ s.on = r.on /\ s.carrier = (v = "V21_PREAMBLE")
<1>1. v \in {"CED", "CNG", "NO_SIGNAL", "V21_PREAMBLE", "TRAINING", "none"}
  BY DEF QuietSignals
<1>2. v \notin {"TRAINING", "none"}
  BY DEF QuietSignals
<1>. QED BY <1>1, <1>2, HearInd

(* A piece of a frame, and the end of a frame.                              *)
LEMMA HearPiece ==
  ASSUME NEW r \in RxStates, NEW p \in Seq(Nat)
  PROVE  LET s == rx_ifp(r, Item1(Data("HDLC_DATA", p))) IN
         /\ s \in RxStates /\ s.hdlc = Append(r.hdlc, p)
         /\ s.carrier = r.carrier /\ s.fast = r.fast /\ s.on = r.on /\ s.heard = r.heard
<1>1. rx_ifp(r, Item1(Data("HDLC_DATA", p))) = [r EXCEPT !.hdlc = Append(r.hdlc, p)]
  BY DEF rx_ifp, Item1, Data, rx_data_field, RxStates
<1>2. r.hdlc \in Seq(Seq(Nat)) /\ Append(r.hdlc, p) \in Seq(Seq(Nat))
  BY DEF RxStates
<1>. QED BY <1>1, <1>2 DEF RxStates

LEMMA FrameDone ==
  ASSUME NEW r \in RxStates
  PROVE  LET s == rx_hdlc_frame(r) IN
         /\ s \in RxStates /\ s.hdlc = <<>>
         /\ s.carrier = r.carrier /\ s.fast = r.fast /\ s.on = r.on
         /\ s.heard = IF r.on /\ r.hdlc # <<>> THEN Append(r.heard, FrameEvent(r.hdlc)) ELSE r.heard
<1>1. FrameEvent(r.hdlc) \in Calls
  BY DEF Calls, RxStates
<1>. DEFINE t == IF r.hdlc = <<>> THEN r ELSE Tell(r, FrameEvent(r.hdlc))
<1>2. t \in RxStates
  BY <1>1, Told
<1>3. /\ t.carrier = r.carrier /\ t.fast = r.fast /\ t.on = r.on
      /\ t.heard = IF r.on /\ r.hdlc # <<>> THEN Append(r.heard, FrameEvent(r.hdlc)) ELSE r.heard
  <2>1. CASE r.hdlc = <<>>
    BY <2>1
  <2>2. CASE r.hdlc # <<>>
    <3>1. t = [r EXCEPT !.heard = IF r.on THEN Append(r.heard, FrameEvent(r.hdlc)) ELSE r.heard]
      BY <1>1, <2>2, Told
    <3>. QED BY <2>2, <3>1 DEF RxStates
  <2>. QED BY <2>1, <2>2
<1>4. rx_hdlc_frame(r) = [t EXCEPT !.hdlc = <<>>]
  BY DEF rx_hdlc_frame
<1>. DEFINE s == rx_hdlc_frame(r)
<1>5. <<>> \in Seq(Seq(Nat)) /\ s = [t EXCEPT !.hdlc = <<>>]
  BY <1>4
<1>. HIDE DEF s, t
<1>6. /\ s \in RxStates /\ s.hdlc = <<>> /\ s.carrier = t.carrier /\ s.fast = t.fast
      /\ s.on = t.on /\ s.heard = t.heard
  BY <1>2, <1>5 DEF RxStates
<1>. QED BY <1>3, <1>6 DEF s

LEMMA HearField ==
  ASSUME NEW r \in RxStates, NEW p
  PROVE  /\ rx_ifp(r, Item1(Data("HDLC_FCS_OK", p))) = rx_hdlc_frame(r)
         /\ rx_ifp(r, Item1(Data("HDLC_SIG_END", p))) = rx_carrier_down(rx_hdlc_frame(r))
         /\ rx_ifp(r, Item1(Data("T4_NON_ECM_DATA", p))) = Tell(r, DataEvent(p))
         /\ rx_ifp(r, Item1(Data("T4_NON_ECM_SIG_END", p))) = rx_carrier_down(r)
  BY DEF rx_ifp, Item1, Data, rx_data_field

(* Whatever the packet, a state stays a state; an engine that has finished  *)
(* hears nothing; and the frame being received does not depend on the rest. *)
HdlcAfter(h, ifp) ==
  IF ifp.ind # "data" THEN <<>>
  ELSE IF ifp.ft = "HDLC_DATA" THEN Append(h, ifp.p)
  ELSE IF ifp.ft \in {"HDLC_FCS_OK", "HDLC_SIG_END"} THEN <<>> ELSE h

LEMMA HearAny ==
  ASSUME NEW r \in RxStates, NEW ifp \in Packets
  PROVE  LET s == rx_ifp(r, Item1(ifp)) IN
         /\ s \in RxStates /\ s.on = r.on /\ (~r.on => s.heard = r.heard)
         /\ s.hdlc = HdlcAfter(r.hdlc, ifp)
<1>1. ASSUME NEW v \in {"CED", "CNG", "NO_SIGNAL", "V21_PREAMBLE", "TRAINING", "none"}, ifp = Ind(v)
      PROVE  LET s == rx_ifp(r, Item1(ifp)) IN
             /\ s \in RxStates /\ s.on = r.on /\ (~r.on => s.heard = r.heard)
             /\ s.hdlc = HdlcAfter(r.hdlc, ifp)
  <2>1. ifp.ind # "data"
    BY <1>1 DEF Ind
  <2>2. HdlcAfter(r.hdlc, ifp) = <<>>
    BY <2>1 DEF HdlcAfter
  <2>. DEFINE s == rx_ifp(r, Item1(Ind(v)))
  <2>3. /\ s \in RxStates /\ s.hdlc = <<>> /\ s.on = r.on
        /\ v \notin {"TRAINING", "none"} => s.heard = IF r.on THEN Fallen(r) ELSE r.heard
        /\ v \in {"TRAINING", "none"} =>
             s.heard = IF r.on THEN Append(Fallen(r), Event("UP")) ELSE r.heard
    BY HearInd
  <2>. HIDE DEF s
  <2>4. ~r.on => s.heard = r.heard
    BY <2>3
  <2>. QED BY <1>1, <2>2, <2>3, <2>4 DEF s
<1>2. ASSUME NEW ft \in {"HDLC_DATA", "HDLC_FCS_OK", "HDLC_SIG_END", "T4_NON_ECM_DATA",
                        "T4_NON_ECM_SIG_END"},
             NEW p \in Seq(Nat), ifp = Data(ft, p)
      PROVE  LET s == rx_ifp(r, Item1(ifp)) IN
             /\ s \in RxStates /\ s.on = r.on /\ (~r.on => s.heard = r.heard)
             /\ s.hdlc = HdlcAfter(r.hdlc, ifp)
  <2>1. ifp.ind = "data" /\ ifp.ft = ft /\ ifp.p = p
    BY <1>2 DEF Data
  <2>2. CASE ft = "HDLC_DATA"
    <3>1. HdlcAfter(r.hdlc, ifp) = Append(r.hdlc, p)
      BY <2>1, <2>2 DEF HdlcAfter
    <3>. QED BY <1>2, <2>2, <3>1, HearPiece
  <2>3. CASE ft = "HDLC_FCS_OK"
    <3>1. HdlcAfter(r.hdlc, ifp) = <<>>
      BY <2>1, <2>3 DEF HdlcAfter
    <3>2. rx_ifp(r, Item1(ifp)) = rx_hdlc_frame(r)
      BY <1>2, <2>3, HearField
    <3>. QED BY <3>1, <3>2, FrameDone
  <2>4. CASE ft = "HDLC_SIG_END"
    <3>1. HdlcAfter(r.hdlc, ifp) = <<>>
      BY <2>1, <2>4 DEF HdlcAfter
    <3>2. rx_ifp(r, Item1(ifp)) = rx_carrier_down(rx_hdlc_frame(r))
      BY <1>2, <2>4, HearField
    <3>3. /\ rx_hdlc_frame(r) \in RxStates /\ rx_hdlc_frame(r).hdlc = <<>>
          /\ rx_hdlc_frame(r).on = r.on /\ (~r.on => rx_hdlc_frame(r).heard = r.heard)
      BY FrameDone
    <3>. QED BY <3>1, <3>2, <3>3, Down
  <2>5. CASE ft = "T4_NON_ECM_DATA"
    <3>1. HdlcAfter(r.hdlc, ifp) = r.hdlc
      BY <2>1, <2>5 DEF HdlcAfter
    <3>2. rx_ifp(r, Item1(ifp)) = Tell(r, DataEvent(p))
      BY <1>2, <2>5, HearField
    <3>3. DataEvent(p) \in Calls
      BY DEF Calls
    <3>4. Tell(r, DataEvent(p)) \in RxStates
      BY <3>3, Told
    <3>5. Tell(r, DataEvent(p)) = [r EXCEPT !.heard = IF r.on THEN Append(r.heard, DataEvent(p))
                                                      ELSE r.heard]
      BY <3>3, Told
    <3>. QED BY <3>1, <3>2, <3>4, <3>5 DEF RxStates
  <2>6. CASE ft = "T4_NON_ECM_SIG_END"
    <3>1. HdlcAfter(r.hdlc, ifp) = r.hdlc
      BY <2>1, <2>6 DEF HdlcAfter
    <3>2. rx_ifp(r, Item1(ifp)) = rx_carrier_down(r)
      BY <1>2, <2>6, HearField
    <3>. QED BY <3>1, <3>2, Down
  <2>. QED BY <2>2, <2>3, <2>4, <2>5, <2>6
<1>3. \/ \E v \in {"CED", "CNG", "NO_SIGNAL", "V21_PREAMBLE", "TRAINING", "none"} : ifp = Ind(v)
      \/ \E ft \in {"HDLC_DATA", "HDLC_FCS_OK", "HDLC_SIG_END", "T4_NON_ECM_DATA",
                     "T4_NON_ECM_SIG_END"}, p \in Seq(Nat) : ifp = Data(ft, p)
  BY DEF Packets, NoPacket, Ind
<1>. QED BY <1>1, <1>2, <1>3

-----------------------------------------------------------------------------
(* The states of a receiver that misses nothing, one for each packet sent. *)

Deaf == [hdlc |-> <<>>, carrier |-> FALSE, fast |-> FALSE, on |-> TRUE, heard |-> <<>>]

TraceOf(at, sent) ==
  /\ at \in [0..Len(sent) -> RxStates]
  /\ at[0] = Deaf
  /\ \A i \in 1..Len(sent) : at[i] = rx_ifp(at[i - 1], Item1(sent[i].primary))

(* Enough is repeated for what the network loses in a row: in each datagram, *)
(* and of each indicator that begins a call. The engine retunes only between *)
(* frames.                                                                   *)
SpareEnough ==
  /\ HalfDuplex
  /\ MaxRun <= Redundancy /\ MaxRun <= Fits /\ MaxRun < Repeats /\ MaxRun < SEQ

(* A datagram was added, for this packet.                                    *)
Deep(sent, n) == Lesser(MaxRun, n - 1) <= Len(sent[n].secs)

OneMore(o, o2, ifp) ==
  /\ SenderInv(o2) /\ Extends(o.sent, o2.sent) /\ ifp \in Packets
  /\ Len(o2.sent) = Len(o.sent) + 1
  /\ o2.sent[Len(o2.sent)].primary = ifp /\ Deep(o2.sent, Len(o2.sent))

LEMMA Longer ==
  ASSUME NEW o, NEW o2, NEW ifp, SenderInv(o), OneMore(o, o2, ifp),
         NEW at, TraceOf(at, o.sent)
  PROVE  \E at2 : /\ TraceOf(at2, o2.sent)
                  /\ \A i \in 0..Len(o.sent) : at2[i] = at[i]
                  /\ at2[Len(o2.sent)] = rx_ifp(at[Len(o.sent)], Item1(ifp))
<1>. DEFINE n == Len(o.sent)
            new == rx_ifp(at[n], Item1(ifp))
            at2 == [i \in 0..(n + 1) |-> IF i = n + 1 THEN new ELSE at[i]]
<1>1. n \in Nat /\ Len(o2.sent) = n + 1 /\ n + 1 \in Nat
  BY DEF SenderInv, OneMore
<1>2. n \in 0..n /\ n + 1 \in 0..(n + 1) /\ \A i \in 0..n : i \in 0..(n + 1) /\ i # n + 1
  BY <1>1, SMT
<1>3. at[n] \in RxStates
  BY <1>2 DEF TraceOf
<1>4. new \in RxStates
  BY <1>3, HearAny DEF OneMore
<1>5. \A i \in 0..(n + 1) : i \in 0..n \/ i = n + 1
  BY <1>1, SMT
<1>. HIDE DEF new
<1>6. at2 \in [0..(n + 1) -> RxStates]
  BY <1>4, <1>5 DEF TraceOf
<1>7. at2[n + 1] = new /\ \A i \in 0..n : at2[i] = at[i]
  BY <1>2
<1>. HIDE DEF at2
<1>8. at2[0] = Deaf
  <2>1. 0 \in 0..n
    BY <1>1, SMT
  <2>. QED BY <2>1, <1>7 DEF TraceOf
<1>9. ASSUME NEW i \in 1..(n + 1)
      PROVE  at2[i] = rx_ifp(at2[i - 1], Item1(o2.sent[i].primary))
  <2>1. CASE i = n + 1
    <3>1. i - 1 = n /\ at2[i - 1] = at[n]
      BY <1>1, <1>2, <1>7, <2>1, SMT
    <3>2. o2.sent[i].primary = ifp
      BY <1>1, <2>1 DEF OneMore
    <3>. QED BY <1>7, <2>1, <3>1, <3>2 DEF new
  <2>2. CASE i # n + 1
    <3>1. i \in 1..n /\ i \in 0..n /\ i - 1 \in 0..n
      BY <1>1, <2>2, SMT
    <3>2. o2.sent[i] = o.sent[i]
      BY <3>1 DEF OneMore, Extends
    <3>. QED BY <1>7, <3>1, <3>2 DEF TraceOf
  <2>. QED BY <2>1, <2>2
<1>10. TraceOf(at2, o2.sent)
  BY <1>1, <1>6, <1>8, <1>9 DEF TraceOf
<1>11. at2[Len(o2.sent)] = rx_ifp(at[Len(o.sent)], Item1(ifp))
  BY <1>1, <1>7 DEF new
<1>. QED BY <1>7, <1>10, <1>11

(* nf_udptl_build adds one, with as many repetitions as its budget.          *)
LEMMA BuildOne ==
  ASSUME SpareEnough, NEW o, SenderInv(o), NEW ifp \in Packets,
         NEW red \in Nat, red < BUF, Redundancy <= red
  PROVE  OneMore(o, nf_udptl_build(o, ifp, red), ifp)
<1>. DEFINE no == o.tx_seq_no
           ring == [o.tx EXCEPT ![no % BUF] = ifp]
           entries == Lesser(Lesser(red, no), Fits)
           secs == [m \in 1..entries |-> ring[(no - m) % BUF]]
           dgram == [seq |-> no % SEQ, primary |-> ifp, secs |-> secs]
           o2 == nf_udptl_build(o, ifp, red)
<1>1. SenderInv(o2) /\ Extends(o.sent, o2.sent)
  BY BuildStep
<1>2. o2.sent = Append(o.sent, dgram)
  BY DEF nf_udptl_build
<1>3. /\ no \in Nat /\ no = Len(o.sent) /\ o.sent \in Seq(Datagram)
      /\ Fits \in Nat /\ MaxRun \in Nat /\ Redundancy \in Nat
  BY UdptlAssumption, T38Assumption DEF SenderInv
<1>4. entries \in Nat /\ Lesser(MaxRun, no) <= entries
  BY <1>3, SMT DEF Lesser, SpareEnough
<1>. HIDE DEF entries
<1>5. Len(secs) = entries
  <2>. HIDE DEF ring, no
  <2>. QED BY <1>4, SMT
<1>6. dgram.primary = ifp /\ dgram.secs = secs
  OBVIOUS
<1>. HIDE DEF dgram, secs
<1>7. Len(o2.sent) = no + 1 /\ o2.sent[no + 1] = dgram /\ (no + 1) - 1 = no
  <2>1. Len(Append(o.sent, dgram)) = Len(o.sent) + 1
    BY <1>3
  <2>2. Append(o.sent, dgram)[Len(o.sent) + 1] = dgram
    BY <1>3
  <2>. QED BY <1>2, <1>3, <2>1, <2>2, SMT
<1>. HIDE DEF o2, no
<1>8. Deep(o2.sent, Len(o2.sent))
  BY <1>4, <1>5, <1>6, <1>7 DEF Deep
<1>. QED BY <1>1, <1>3, <1>6, <1>7, <1>8 DEF OneMore, o2

LEMMA IndOne ==
  ASSUME SpareEnough, NEW o, SenderInv(o),
         NEW v \in {"CED", "CNG", "TRAINING", "V21_PREAMBLE", "NO_SIGNAL"}
  PROVE  OneMore(o, emit_indicator(o, v), Ind(v))
<1>1. Ind(v) \in Packets
  BY DEF Packets
<1>2. red_ls \in Nat /\ red_ls < BUF /\ Redundancy <= red_ls
  BY T38Assumption, SMT DEF red_ls
<1>. QED BY <1>1, <1>2, BuildOne DEF emit_indicator

LEMMA DataOne ==
  ASSUME SpareEnough, NEW o, SenderInv(o),
         NEW ft \in {"HDLC_DATA", "HDLC_FCS_OK", "HDLC_SIG_END", "T4_NON_ECM_DATA",
                     "T4_NON_ECM_SIG_END"},
         NEW p \in Seq(Nat)
  PROVE  OneMore(o, emit_data(o, ft, p), Data(ft, p))
<1>1. Data(ft, p) \in Packets
  BY DEF Packets
<1>2. /\ red_ls \in Nat /\ red_ls < BUF /\ Redundancy <= red_ls
      /\ red_hs \in Nat /\ red_hs < BUF /\ Redundancy <= red_hs
  BY T38Assumption, UdptlAssumption, SMT DEF red_ls, red_hs
<1>3. CASE burst.fast
  BY <1>1, <1>2, <1>3, BuildOne DEF emit_data
<1>4. CASE ~burst.fast
  BY <1>1, <1>2, <1>4, BuildOne DEF emit_data
<1>. QED BY <1>3, <1>4

-----------------------------------------------------------------------------
(* Where the sender is, and what a receiver that misses nothing has heard.  *)

Interrupted == tx_phase = "TX_IND" /\ burst.kind = "NONE" /\ tx_ind_left = Repeats - 1
Carrying == burst.fast /\ tx_phase \notin {"TX_IND", "TX_IDLE"}

Partial ==
  IF tx_phase = "TX_HDLC_DATA" THEN [k \in 1..chunk |-> <<asked, frame, k>>]
  ELSE IF tx_phase = "TX_HDLC_FCS" THEN Frame(asked, frame) ELSE <<>>

Exact(r) ==
  /\ said = r.heard
  /\ (r.carrier /\ r.fast) <=> Carrying
  /\ r.hdlc = Partial

(* Silence was asked for in the middle of a burst: the end of its carrier is *)
(* said, and will be heard with the next indicator.                          *)
Follows(r) == IF Interrupted THEN said = Fallen(r) ELSE Exact(r)

LEMMA TxInd ==
  ASSUME burst \in Requests
  PROVE  /\ burst.fast => tx_ind = "TRAINING"
         /\ ~burst.fast => tx_ind \in {"CED", "CNG", "V21_PREAMBLE", "NO_SIGNAL"}
<1>1. burst \in Tones => burst.kind \in {"CED", "CNG"} /\ ~burst.fast
  BY RequestFacts
<1>2. CASE burst \in Tones
  BY <1>1, <1>2 DEF tx_ind
<1>3. CASE burst \notin Tones /\ burst.fast
  BY <1>3 DEF tx_ind
<1>4. CASE burst \notin Tones /\ ~burst.fast
  <2>1. tx_ind = CASE burst \in WithData -> "V21_PREAMBLE" [] OTHER -> "NO_SIGNAL"
    BY <1>4 DEF tx_ind
  <2>. QED BY <1>4, <2>1
<1>. QED BY <1>1, <1>2, <1>3, <1>4

LEMMA IndicatorExact ==
  ASSUME PhaseInv, NEW r \in RxStates, r.on, Follows(r), PumpIndicator,
         NEW s, s = rx_ifp(r, Item1(Ind(tx_ind)))
  PROVE  Exact(s)' /\ ~Interrupted'
<1>1. /\ tx_phase = "TX_IND" /\ burst' = burst /\ asked' = asked /\ burst \in Requests
      /\ said' = (IF burst.fast THEN Append(said, Event("UP")) ELSE said)
      /\ tx_ind_left \in 0..(Repeats - 1)
      /\ tx_ind_left > 0 => tx_ind_left' = tx_ind_left - 1 /\ tx_phase' = tx_phase
      /\ ~(tx_ind_left > 0) => tx_phase' \in {"TX_IDLE", "TX_TONE_WAIT", "TX_IND_WAIT"}
  BY DEF PumpIndicator, burstVars, PhaseInv
<1>2. ~Carrying
  BY <1>1 DEF Carrying
<1>3. Fallen(r) = said
  <2>1. CASE Interrupted
    BY <2>1 DEF Follows
  <2>2. CASE ~Interrupted
    BY <1>2, <2>2 DEF Follows, Exact, Fallen
  <2>. QED BY <2>1, <2>2
<1>4. ~Interrupted'
  <2>1. tx_ind_left - 1 # Repeats - 1
    BY <1>1, Sizes, SMT
  <2>. QED BY <1>1, <2>1 DEF Interrupted
<1>5. Partial' = <<>>
  BY <1>1 DEF Partial
<1>6. CASE burst.fast
  <2>1. tx_ind = "TRAINING"
    BY <1>1, <1>6, TxInd
  <2>2. s.hdlc = <<>> /\ s.fast /\ s.carrier /\ s.heard = Append(said, Event("UP"))
    BY <1>3, <2>1, HearInd
  <2>3. tx_ind_left = 0 /\ ~(tx_ind_left > 0)
    BY <1>1, <1>6 DEF PhaseInv
  <2>4. burst # Silence /\ burst \notin Tones
    BY <1>1, <1>6, RequestFacts
  <2>5. tx_phase' = "TX_IND_WAIT"
    BY <2>3, <2>4 DEF PumpIndicator
  <2>6. Carrying'
    BY <1>1, <1>6, <2>5 DEF Carrying
  <2>. QED BY <1>1, <1>4, <1>5, <1>6, <2>2, <2>6 DEF Exact
<1>7. CASE ~burst.fast
  <2>1. tx_ind \in {"CED", "CNG", "V21_PREAMBLE", "NO_SIGNAL"}
    BY <1>1, <1>7, TxInd
  <2>2. s.hdlc = <<>> /\ s.fast = FALSE /\ s.heard = said
    <3>1. PICK v \in QuietSignals : tx_ind = v
      BY <2>1 DEF QuietSignals
    <3>. DEFINE t == rx_ifp(r, Item1(Ind(v)))
    <3>2. s = t
      BY <3>1
    <3>3. /\ t.hdlc = <<>> /\ t.fast = FALSE /\ t.heard = IF r.on THEN Fallen(r) ELSE r.heard
          /\ t \in RxStates /\ t.on = r.on /\ t.carrier = (v = "V21_PREAMBLE")
      BY HearQuiet
    <3>. HIDE DEF t
    <3>. QED BY <1>3, <3>2, <3>3
  <2>3. ~Carrying'
    BY <1>1, <1>7 DEF Carrying
  <2>. QED BY <1>1, <1>4, <1>5, <1>7, <2>2, <2>3 DEF Exact
<1>. QED BY <1>6, <1>7

(* The phases that send nothing. *)
LEMMA QuietExact ==
  ASSUME PhaseInv, NEW r \in RxStates, Follows(r),
         \/ PumpIndicatorWait
         \/ PumpHdlcData /\ chunk = 0 /\ frame = FramesOf(burst)
         \/ PumpHdlcDrain \/ PumpWait
  PROVE  Exact(r)' /\ ~Interrupted' /\ out' = out /\ said' = said
<1>1. Exact(r)
  BY DEF Follows, Interrupted, PumpIndicatorWait, PumpHdlcData, PumpHdlcDrain, PumpWait
<1>2. burst' = burst /\ said' = said /\ out' = out /\ frame' = frame /\ chunk' = chunk
  BY DEF PumpIndicatorWait, PumpHdlcData, PumpHdlcDrain, PumpWait, step_complete, burstVars
<1>3. tx_phase' # "TX_IND" /\ (Carrying' <=> Carrying)
  BY <1>2, RequestFacts DEF PhaseInv, Carrying, PumpIndicatorWait, PumpHdlcData, PumpHdlcDrain,
     PumpWait, step_complete
<1>4. Partial = <<>> /\ Partial' = <<>>
  <2>1. [k \in 1..0 |-> <<asked, frame, k>>] = <<>> /\ [k \in 1..0 |-> <<asked', frame', k>>] = <<>>
    BY SMT
  <2>2. tx_phase # "TX_HDLC_FCS" /\ tx_phase' # "TX_HDLC_FCS"
    BY DEF PhaseInv, PumpIndicatorWait, PumpHdlcData, PumpHdlcDrain, PumpWait, step_complete
  <2>3. /\ tx_phase = "TX_HDLC_DATA" => chunk = 0
        /\ tx_phase' = "TX_HDLC_DATA" => chunk' = 0
    BY <1>2 DEF PhaseInv, PumpIndicatorWait, PumpHdlcData, PumpHdlcDrain, PumpWait, step_complete
  <2>. QED BY <2>1, <2>2, <2>3 DEF Partial
<1>. QED BY <1>1, <1>2, <1>3, <1>4 DEF Exact, Interrupted

LEMMA OnePiece ==
  ASSUME NEW b \in Nat, NEW f \in Nat, NEW n \in Nat
  PROVE  Append([k \in 1..n |-> <<b, f, k>>], <<b, f, n + 1>>) =
           [k \in 1..(n + 1) |-> <<b, f, k>>]
<1>. DEFINE c == [k \in 1..n |-> <<b, f, k>>]
            c2 == [k \in 1..(n + 1) |-> <<b, f, k>>]
            p == <<b, f, n + 1>>
<1>1. n + 1 \in Nat /\ n + 1 \in 1..(n + 1)
  BY SMT
<1>2. c \in Seq(Seq(Nat)) /\ Len(c) = n /\ \A k \in 1..n : c[k] = <<b, f, k>>
  BY SMT
<1>3. c2 \in Seq(Seq(Nat)) /\ Len(c2) = n + 1 /\ \A k \in 1..(n + 1) : c2[k] = <<b, f, k>>
  BY <1>1, SMT
<1>4. p \in Seq(Nat) /\ c2[n + 1] = p
  BY <1>1
<1>5. \A k \in 1..n : k \in 1..(n + 1)
  BY SMT
<1>6. \A k \in 1..n : c2[k] = c[k]
  BY <1>2, <1>3, <1>5
<1>. HIDE DEF c, c2, p
<1>7. Append(c, p) \in Seq(Seq(Nat)) /\ Len(Append(c, p)) = n + 1
  BY <1>2, <1>4, SMT
<1>8. \A k \in 1..(n + 1) : Append(c, p)[k] = c2[k]
  BY <1>2, <1>4, <1>6, SMT
<1>9. Append(c, p) = c2
  BY <1>3, <1>7, <1>8, SeqEqual
<1>. QED BY <1>9 DEF c, c2, p

(* A piece more of the frame. *)
LEMMA PieceExact ==
  ASSUME PhaseInv, NEW r \in RxStates, Follows(r), PumpHdlcData,
         ~(chunk = 0 /\ frame = FramesOf(burst)),
         NEW f, f = IF chunk = 0 THEN frame + 1 ELSE frame,
         NEW s, s = rx_ifp(r, Item1(Data("HDLC_DATA", <<asked, f, chunk + 1>>)))
  PROVE  Exact(s)' /\ ~Interrupted'
<1>1. /\ tx_phase = "TX_HDLC_DATA" /\ burst' = burst /\ asked' = asked /\ said' = said
      /\ frame' = f /\ chunk' = (chunk + 1) % Chunks
      /\ tx_phase' = (IF chunk + 1 = Chunks THEN "TX_HDLC_FCS" ELSE "TX_HDLC_DATA")
  BY DEF PumpHdlcData, burstVars
<1>2. /\ chunk \in Nat /\ chunk < Chunks /\ Chunks \in Nat \ {0} /\ frame \in Nat /\ asked \in Nat
      /\ f \in Nat
  BY <1>1, Sizes, SMT DEF PhaseInv
<1>3. Exact(r)
  BY <1>1 DEF Follows, Interrupted
<1>4. <<asked, f, chunk + 1>> \in Seq(Nat)
  BY <1>2
<1>5. /\ s.hdlc = Append(r.hdlc, <<asked, f, chunk + 1>>)
      /\ s.carrier = r.carrier /\ s.fast = r.fast /\ s.heard = r.heard
  BY <1>4, HearPiece
<1>6. r.hdlc = [k \in 1..chunk |-> <<asked, f, k>>]
  <2>1. r.hdlc = [k \in 1..chunk |-> <<asked, frame, k>>]
    BY <1>1, <1>3 DEF Exact, Partial
  <2>2. CASE chunk = 0
    <3>1. \A k \in 1..chunk : <<asked, frame, k>> = <<asked, f, k>>
      BY <2>2, SMT
    <3>. QED BY <2>1, <3>1
  <2>3. CASE chunk # 0
    BY <2>1, <2>3
  <2>. QED BY <2>2, <2>3
<1>7. s.hdlc = [k \in 1..(chunk + 1) |-> <<asked, f, k>>]
  <2>1. Append([k \in 1..chunk |-> <<asked, f, k>>], <<asked, f, chunk + 1>>) =
          [k \in 1..(chunk + 1) |-> <<asked, f, k>>]
    BY <1>2, OnePiece
  <2>2. s.hdlc = Append(r.hdlc, <<asked, f, chunk + 1>>)
    BY <1>5
  <2>. QED BY <1>6, <2>1, <2>2, Zenon
<1>8. s.hdlc = Partial'
  <2>1. CASE chunk + 1 = Chunks
    BY <1>1, <1>7, <2>1 DEF Partial, Frame
  <2>2. CASE chunk + 1 # Chunks
    <3>1. chunk' = chunk + 1
      BY <1>1, <1>2, <2>2, SMT
    <3>. QED BY <1>1, <1>7, <2>2, <3>1 DEF Partial
  <2>. QED BY <2>1, <2>2
<1>9. Carrying' <=> Carrying
  BY <1>1 DEF Carrying
<1>. QED BY <1>1, <1>3, <1>5, <1>8, <1>9 DEF Exact, Interrupted

(* The frame is complete. *)
LEMMA FrameExact ==
  ASSUME PhaseInv, NEW r \in RxStates, r.on, Follows(r), PumpHdlcFcs,
         NEW s, s = rx_ifp(r, Item1(Data("HDLC_FCS_OK", <<>>)))
  PROVE  Exact(s)' /\ ~Interrupted'
<1>1. /\ tx_phase = "TX_HDLC_FCS" /\ burst' = burst /\ asked' = asked
      /\ said' = Append(said, FrameEvent(Frame(asked, frame)))
      /\ frame' = frame /\ chunk' = chunk /\ chunk = 0
      /\ tx_phase' \in {"TX_HDLC_DATA", "TX_HDLC_DRAIN"}
  BY DEF PumpHdlcFcs, burstVars, PhaseInv
<1>2. Exact(r)
  BY <1>1 DEF Follows, Interrupted
<1>3. r.hdlc = Frame(asked, frame)
  BY <1>1, <1>2 DEF Exact, Partial
<1>4. r.hdlc # <<>>
  <2>1. Len(Frame(asked, frame)) = Chunks
    BY Sizes, SMT DEF Frame
  <2>2. Chunks # 0 /\ Len(<<>>) = 0
    BY Sizes
  <2>. QED BY <1>3, <2>1, <2>2
<1>5. s = rx_hdlc_frame(r)
  BY HearField
<1>6. /\ s.hdlc = <<>> /\ s.carrier = r.carrier /\ s.fast = r.fast
      /\ s.heard = Append(r.heard, FrameEvent(r.hdlc))
  BY <1>4, <1>5, FrameDone
<1>7. Partial' = <<>>
  <2>1. [k \in 1..0 |-> <<asked', frame', k>>] = <<>>
    BY SMT
  <2>. QED BY <1>1, <2>1 DEF Partial
<1>8. Carrying' <=> Carrying
  BY <1>1 DEF Carrying
<1>. QED BY <1>1, <1>2, <1>3, <1>6, <1>7, <1>8 DEF Exact, Interrupted

(* The end of the data and of the signal. *)
LEMMA EndExact ==
  ASSUME PhaseInv, NEW r \in RxStates, r.on, Follows(r), PumpEnd,
         NEW ft, ft = IF tx_phase = "TX_HDLC_END" THEN "HDLC_SIG_END" ELSE "T4_NON_ECM_SIG_END",
         NEW m, m = rx_ifp(r, Item1(Data(ft, <<>>))),
         NEW s, s = rx_ifp(m, Item1(Ind("NO_SIGNAL")))
  PROVE  /\ m \in RxStates /\ m.on /\ m.hdlc = <<>> /\ m.heard = said'
         /\ Exact(s)' /\ ~Interrupted'
<1>1. /\ tx_phase \in {"TX_HDLC_END", "TX_NONECM_END"} /\ burst' = burst
      /\ said' = (IF burst.fast THEN Append(said, Event("DOWN")) ELSE said)
      /\ tx_phase' = "TX_IDLE"
  BY DEF PumpEnd, step_complete, burstVars
<1>2. Exact(r)
  BY <1>1 DEF Follows, Interrupted
<1>3. r.hdlc = <<>>
  BY <1>1, <1>2 DEF Exact, Partial
<1>4. Fallen(r) = said'
  BY <1>1, <1>2 DEF Exact, Fallen, Carrying
<1>5. m \in RxStates /\ m.on /\ m.hdlc = <<>> /\ m.heard = said' /\ m.carrier = FALSE
  <2>1. CASE tx_phase = "TX_HDLC_END"
    <3>. DEFINE t == rx_hdlc_frame(r)
    <3>1. m = rx_carrier_down(t)
      BY <2>1, HearField
    <3>2. /\ t \in RxStates /\ t.hdlc = <<>> /\ t.on = r.on
          /\ t.carrier = r.carrier /\ t.fast = r.fast /\ t.heard = r.heard
      BY <1>3, FrameDone
    <3>. HIDE DEF t
    <3>3. Fallen(t) = Fallen(r)
      BY <3>2 DEF Fallen
    <3>. DEFINE u == rx_carrier_down(t)
    <3>4. /\ u \in RxStates
          /\ u.hdlc = t.hdlc /\ u.fast = t.fast
          /\ u.carrier = FALSE /\ u.on = t.on
          /\ u.heard = IF t.on THEN Fallen(t) ELSE t.heard
      BY <3>2, Down
    <3>5. m = u
      BY <3>1
    <3>. HIDE DEF u
    <3>. QED BY <1>4, <3>2, <3>3, <3>4, <3>5
  <2>2. CASE tx_phase # "TX_HDLC_END"
    <3>1. m = rx_carrier_down(r)
      BY <2>2, HearField
    <3>. QED BY <1>3, <1>4, <3>1, Down
  <2>. QED BY <2>1, <2>2
<1>6. s.hdlc = <<>> /\ s.fast = FALSE /\ s.heard = said'
  <2>1. Fallen(m) = m.heard
    BY <1>5 DEF Fallen
  <2>2. /\ s.hdlc = <<>> /\ s.fast = FALSE /\ s.heard = IF m.on THEN Fallen(m) ELSE m.heard
        /\ s \in RxStates /\ s.on = m.on /\ s.carrier = ("NO_SIGNAL" = "V21_PREAMBLE")
    BY <1>5, HearQuiet DEF QuietSignals
  <2>. QED BY <1>5, <2>1, <2>2
<1>7. ~Carrying' /\ Partial' = <<>>
  BY <1>1 DEF Carrying, Partial
<1>. QED BY <1>1, <1>5, <1>6, <1>7 DEF Exact, Interrupted

(* Image data, and its tail. *)
LEMMA ImageExact ==
  ASSUME PhaseInv, NEW r \in RxStates, r.on, Follows(r), PumpImage \/ PumpTrail,
         NEW p, p = IF tx_phase = "TX_NONECM" THEN <<asked, 0, chunk + 1>> ELSE <<asked, 0, 0>>,
         NEW s, s = rx_ifp(r, Item1(Data("T4_NON_ECM_DATA", p)))
  PROVE  Exact(s)' /\ ~Interrupted'
<1>1. /\ tx_phase \in {"TX_NONECM", "TX_NONECM_TRAIL"} /\ burst' = burst
      /\ said' = Append(said, DataEvent(p))
      /\ tx_phase' \in {"TX_NONECM", "TX_NONECM_TRAIL", "TX_NONECM_END"}
  BY DEF PumpImage, PumpTrail, burstVars
<1>2. Exact(r)
  BY <1>1 DEF Follows, Interrupted
<1>3. Partial = <<>> /\ Partial' = <<>> /\ (Carrying' <=> Carrying)
  BY <1>1 DEF Partial, Carrying
<1>4. DataEvent(p) \in Calls
  <2>1. p \in Seq(Nat)
    BY SMT DEF PhaseInv
  <2>. QED BY <2>1 DEF Calls
<1>5. s = [r EXCEPT !.heard = IF r.on THEN Append(r.heard, DataEvent(p)) ELSE r.heard]
  BY <1>4, HearField, Told
<1>6. s.hdlc = r.hdlc /\ s.carrier = r.carrier /\ s.fast = r.fast /\ s.heard = Append(r.heard, DataEvent(p))
  BY <1>5 DEF RxStates
<1>. QED BY <1>1, <1>2, <1>3, <1>6 DEF Exact, Interrupted

-----------------------------------------------------------------------------
(* The beginning of a call: the first Repeats packets are indicators that   *)
(* call nothing up, so one of them more or less makes no difference.        *)

Quiet == {Ind(v) : v \in QuietSignals}

Leading ==
  /\ \A i \in 1..Len(out.sent) : i <= Repeats => out.sent[i].primary \in Quiet
  /\ Len(out.sent) < Repeats =>
       \/ asked = 0
       \/ /\ tx_phase = "TX_IND" /\ ~burst.fast
          /\ tx_ind_left + 1 + Len(out.sent) >= Repeats

(* A frame or image that is being sent is on the air. *)
Airing == OnAir <=> Carrying

LEMMA AirUp ==
  ASSUME NEW S, said \in Seq(S), said' = Append(said, Event("UP"))
  PROVE  OnAir'
<1>1. /\ Len(said) \in Nat /\ Len(said') = Len(said) + 1
      /\ said'[Len(said) + 1] = Event("UP")
  OBVIOUS
<1>. DEFINE n == Len(said) + 1
<1>2. n \in 1..Len(said') /\ Len(said') > 0 /\ n + 1 > Len(said')
  BY <1>1, SMT
<1>3. \A j \in (n + 1)..Len(said') : FALSE
  BY <1>1, SMT
<1>4. said'[n] = Event("UP")
  BY <1>1
<1>. HIDE DEF n
<1>. QED BY <1>2, <1>3, <1>4 DEF OnAir

LEMMA AirDown ==
  ASSUME NEW S, said \in Seq(S), said' = Append(said, Event("DOWN"))
  PROVE  ~OnAir'
<1>1. /\ Len(said) \in Nat /\ Len(said') = Len(said) + 1
      /\ said'[Len(said) + 1] = Event("DOWN")
  OBVIOUS
<1>2. Event("UP") # Event("DOWN")
  BY DEF Event
<1>3. ASSUME NEW i \in 1..Len(said'), said'[i] = Event("UP"),
             \A j \in (i + 1)..Len(said') : said'[j] # Event("DOWN")
      PROVE  FALSE
  <2>1. i # Len(said) + 1
    BY <1>1, <1>2, <1>3
  <2>2. Len(said) + 1 \in (i + 1)..Len(said')
    BY <1>1, <2>1, SMT
  <2>. QED BY <1>1, <1>3, <2>2
<1>. QED BY <1>3 DEF OnAir

LEMMA AirSame ==
  ASSUME NEW S, said \in Seq(S), NEW e, e # Event("UP"), e # Event("DOWN"),
         said' = Append(said, e)
  PROVE  OnAir' <=> OnAir
<1>1. /\ Len(said) \in Nat /\ Len(said') = Len(said) + 1
      /\ said'[Len(said) + 1] = e
      /\ \A i \in 1..Len(said) : said'[i] = said[i]
  OBVIOUS
<1>2. \A i \in 1..Len(said') : i \in 1..Len(said) \/ i = Len(said) + 1
  BY <1>1, SMT
<1>3. \A i \in 1..Len(said) : /\ i \in 1..Len(said')
                              /\ \A j \in (i + 1)..Len(said) : j \in (i + 1)..Len(said') /\ j \in 1..Len(said)
                              /\ \A j \in (i + 1)..Len(said') : j \in (i + 1)..Len(said) \/ j = Len(said) + 1
  BY <1>1, SMT
<1>4. ASSUME NEW i \in 1..Len(said)
      PROVE  (\A j \in (i + 1)..Len(said') : said'[j] # Event("DOWN"))
             <=> (\A j \in (i + 1)..Len(said) : said[j] # Event("DOWN"))
  BY <1>1, <1>3
<1>5. said'[Len(said) + 1] # Event("UP")
  BY <1>1
<1>6. (\E i \in 1..Len(said') : said'[i] = Event("UP") /\
         \A j \in (i + 1)..Len(said') : said'[j] # Event("DOWN"))
      <=> \E i \in 1..Len(said) : said[i] = Event("UP") /\
            \A j \in (i + 1)..Len(said) : said[j] # Event("DOWN")
  BY <1>1, <1>2, <1>3, <1>4, <1>5
<1>7. \A i \in 1..Len(said) : Len(said) > 0
  BY <1>1, SMT
<1>8. \A i \in 1..Len(said') : Len(said') > 0
  BY <1>1, SMT
<1>. QED BY <1>6, <1>7, <1>8 DEF OnAir

LEMMA AirStep ==
  ASSUME SenderOK, Airing, (\E req \in Requests : set_tx_type(req)) \/ nf_t38_pump
  PROVE  Airing'
<1>1. said \in Seq(Noises) /\ PhaseInv /\ burst \in Requests
  BY DEF SenderOK, SaidInv, PhaseInv
<1>2. ASSUME said' = said, Carrying' <=> Carrying PROVE Airing'
  BY <1>2 DEF Airing, OnAir
<1>3. ASSUME NEW e, e.call \notin {"UP", "DOWN"}, said' = Append(said, e), Carrying' <=> Carrying
      PROVE  Airing'
  <2>1. e # Event("UP") /\ e # Event("DOWN")
    BY <1>3 DEF Event
  <2>. QED BY <1>1, <1>3, <2>1, AirSame DEF Airing
<1>4. ASSUME NEW req \in Requests, set_tx_type(req) PROVE Airing'
  <2>1. ~Carrying'
    BY <1>4, RequestFacts DEF set_tx_type, Carrying
  <2>2. CASE OnAir
    <3>1. ~OnAir'
      BY <1>1, <1>4, <2>2, AirDown DEF set_tx_type
    <3>. QED BY <2>1, <3>1 DEF Airing
  <2>3. CASE ~OnAir
    <3>1. said' = said
      BY <1>4, <2>3 DEF set_tx_type
    <3>. QED BY <2>1, <2>3, <3>1 DEF Airing, OnAir
  <2>. QED BY <2>2, <2>3
<1>5. CASE PumpIndicator
  <2>1. tx_phase = "TX_IND" /\ burst' = burst
    BY <1>5 DEF PumpIndicator, burstVars
  <2>2. CASE burst.fast
    <3>1. tx_ind_left = 0 /\ ~(tx_ind_left > 0)
      BY <1>1, <2>1, <2>2 DEF PhaseInv
    <3>2. burst # Silence /\ burst \notin Tones
      BY <1>1, <2>2, RequestFacts
    <3>3. tx_phase' = "TX_IND_WAIT" /\ said' = Append(said, Event("UP"))
      BY <1>5, <2>2, <3>1, <3>2 DEF PumpIndicator
    <3>4. OnAir'
      BY <1>1, <3>3, AirUp
    <3>. QED BY <2>1, <2>2, <3>3, <3>4 DEF Airing, Carrying
  <2>3. CASE ~burst.fast
    BY <1>2, <1>5, <2>1, <2>3 DEF PumpIndicator, Carrying
  <2>. QED BY <2>2, <2>3
<1>6. CASE PumpIndicatorWait \/ PumpHdlcData \/ PumpHdlcDrain \/ PumpWait
  <2>1. said' = said /\ burst' = burst
    BY <1>6 DEF PumpIndicatorWait, PumpHdlcData, PumpHdlcDrain, PumpWait, step_complete, burstVars
  <2>2. CASE PumpWait
    <3>1. ~burst.fast
      BY <1>1, <2>2, RequestFacts DEF PumpWait, PhaseInv
    <3>. QED BY <1>2, <2>1, <3>1 DEF Carrying
  <2>3. CASE PumpIndicatorWait \/ PumpHdlcData \/ PumpHdlcDrain
    <3>1. tx_phase \notin {"TX_IND", "TX_IDLE"} /\ tx_phase' \notin {"TX_IND", "TX_IDLE"}
      BY <1>1, <2>3 DEF PumpIndicatorWait, PumpHdlcData, PumpHdlcDrain, PhaseInv
    <3>. QED BY <1>2, <2>1, <3>1 DEF Carrying
  <2>. QED BY <1>6, <2>2, <2>3
<1>7. CASE PumpHdlcFcs
  <2>1. FrameEvent(Frame(asked, frame)).call \notin {"UP", "DOWN"}
    BY DEF FrameEvent
  <2>2. Carrying' <=> Carrying
    BY <1>7 DEF PumpHdlcFcs, burstVars, Carrying
  <2>. QED BY <1>3, <1>7, <2>1, <2>2 DEF PumpHdlcFcs
<1>8. CASE PumpEnd
  <2>1. /\ burst' = burst /\ tx_phase' = "TX_IDLE"
        /\ said' = (IF burst.fast THEN Append(said, Event("DOWN")) ELSE said)
    BY <1>8 DEF PumpEnd, step_complete, burstVars
  <2>2. CASE burst.fast
    <3>1. ~OnAir'
      BY <1>1, <2>1, <2>2, AirDown
    <3>. QED BY <2>1, <3>1 DEF Airing, Carrying
  <2>3. CASE ~burst.fast
    BY <1>2, <2>1, <2>3 DEF Carrying
  <2>. QED BY <2>2, <2>3
<1>9. CASE PumpImage \/ PumpTrail
  <2>1. /\ \E p : said' = Append(said, DataEvent(p))
        /\ Carrying' <=> Carrying
    BY <1>9 DEF PumpImage, PumpTrail, burstVars, Carrying
  <2>2. \A p : DataEvent(p).call \notin {"UP", "DOWN"}
    BY DEF DataEvent
  <2>. QED BY <1>3, <2>1, <2>2
<1>. QED BY <1>4, <1>5, <1>6, <1>7, <1>8, <1>9 DEF nf_t38_pump

LEMMA LeadQuiet ==
  ASSUME NEW at, TraceOf(at, out.sent), Leading, Len(out.sent) \in Nat
  PROVE  \A i \in 0..Len(out.sent) : i <= Repeats =>
           at[i].heard = <<>> /\ at[i].fast = FALSE /\ at[i].on
<1>. DEFINE N == Len(out.sent)
            T == {i \in 0..N : i <= Repeats =>
                    at[i].heard = <<>> /\ at[i].fast = FALSE /\ at[i].on}
<1>1. 0 \in T
  <2>1. 0 \in 0..N
    BY SMT
  <2>. QED BY <2>1 DEF TraceOf, Deaf
<1>2. ASSUME NEW k \in 0..(N - 1), k \in T PROVE k + 1 \in T
  <2>1. k + 1 \in 0..N /\ k + 1 \in 1..N /\ (k + 1) - 1 = k /\ k \in 0..N
        /\ (k + 1 <= Repeats => k <= Repeats)
    BY Sizes, SMT
  <2>2. ASSUME k + 1 <= Repeats
        PROVE  at[k + 1].heard = <<>> /\ at[k + 1].fast = FALSE /\ at[k + 1].on
    <3>1. PICK v \in QuietSignals : out.sent[k + 1].primary = Ind(v)
      BY <2>1, <2>2 DEF Leading, Quiet
    <3>2. at[k] \in RxStates /\ at[k].heard = <<>> /\ at[k].fast = FALSE /\ at[k].on
      BY <1>2, <2>1, <2>2 DEF TraceOf
    <3>3. at[k + 1] = rx_ifp(at[k], Item1(Ind(v)))
      <4>1. \A i \in 1..Len(out.sent) : at[i] = rx_ifp(at[i - 1], Item1(out.sent[i].primary))
        BY DEF TraceOf
      <4>. QED BY <2>1, <3>1, <4>1
    <3>. DEFINE q == at[k]
    <3>4. q \in RxStates /\ q.heard = <<>> /\ q.fast = FALSE /\ q.on
      BY <3>2
    <3>. HIDE DEF q
    <3>. DEFINE t == rx_ifp(q, Item1(Ind(v)))
    <3>5. /\ t.hdlc = <<>> /\ t.fast = FALSE
          /\ t.heard = IF q.on THEN Fallen(q) ELSE q.heard
          /\ t \in RxStates /\ t.on = q.on /\ t.carrier = (v = "V21_PREAMBLE")
      BY <3>4, HearQuiet
    <3>6. at[k + 1] = t
      BY <3>3 DEF q
    <3>. HIDE DEF t
    <3>7. Fallen(q) = <<>>
      BY <3>4 DEF Fallen
    <3>. QED BY <3>4, <3>5, <3>6, <3>7
  <2>. QED BY <2>1, <2>2
<1>3. \A k \in 0..N : k \in T
  <2>. HIDE DEF T
  <2>1. N \in Nat
    OBVIOUS
  <2>. HIDE DEF N
  <2>. QED BY <1>1, <1>2, <2>1, UpTo
<1>. QED BY <1>3

(* Only a burst that is complete is followed by a pause or a fast one. *)
LEMMA AskFacts ==
  ASSUME PhaseInv, NEW req \in Requests, set_tx_type(req)
  PROVE  /\ burst' = req /\ asked' = asked + 1 /\ out' = out
         /\ said' = (IF OnAir THEN Append(said, Event("DOWN")) ELSE said)
         /\ tx_phase' = (IF req = Pause THEN "TX_PAUSE_WAIT" ELSE "TX_IND")
         /\ tx_ind_left' = (IF req = Pause \/ req.fast THEN 0 ELSE Repeats - 1)
         /\ req = Silence => burst # Silence
         /\ req # Silence => completed \/ burst \in Tones \/ asked = 0
         /\ req = Pause \/ req.fast => completed
<1>1. MayAsk(req)
  BY DEF set_tx_type
<1>2. CASE req \in Tones
  BY <1>1, <1>2, RequestFacts DEF MayAsk, set_tx_type
<1>3. CASE req = Silence
  BY <1>1, <1>3, RequestFacts DEF MayAsk, set_tx_type
<1>4. CASE req = Pause \/ req.fast
  <2>1. req \notin Tones /\ req # Silence
    BY <1>4, RequestFacts
  <2>. QED BY <1>1, <1>4, <2>1 DEF MayAsk, set_tx_type
<1>5. CASE req \notin Tones /\ req # Silence /\ ~(req = Pause \/ req.fast)
  BY <1>1, <1>5 DEF MayAsk, set_tx_type
<1>. QED BY <1>2, <1>3, <1>4, <1>5

LEMMA LeadAsk ==
  ASSUME SenderOK, Leading, SenderInv(out), NEW req \in Requests, set_tx_type(req)
  PROVE  Leading'
<1>1. /\ burst' = req /\ out' = out
      /\ tx_phase' = (IF req = Pause THEN "TX_PAUSE_WAIT" ELSE "TX_IND")
      /\ tx_ind_left' = (IF req = Pause \/ req.fast THEN 0 ELSE Repeats - 1)
      /\ req = Pause \/ req.fast => completed
  BY AskFacts DEF SenderOK
<1>2. Len(out.sent) \in Nat
  BY DEF SenderInv
<1>3. ASSUME Len(out.sent) < Repeats
      PROVE  tx_phase' = "TX_IND" /\ ~burst'.fast /\ tx_ind_left' + 1 + Len(out'.sent) >= Repeats
  <2>1. ~completed
    <3>1. asked = 0 \/ tx_phase = "TX_IND"
      BY <1>3 DEF Leading
    <3>2. completed => tx_phase = "TX_IDLE" /\ asked > 0
      BY DEF SenderOK, PhaseInv
    <3>3. ~(0 > 0)
      BY SMT
    <3>. QED BY <3>1, <3>2, <3>3, Zenon
  <2>2. tx_phase' = "TX_IND" /\ ~burst'.fast /\ tx_ind_left' = Repeats - 1
    BY <1>1, <2>1
  <2>3. Repeats \in Nat
    BY Sizes
  <2>4. \A n \in Nat : (Repeats - 1) + 1 + n >= Repeats
    BY <2>3, SMT
  <2>5. Len(out'.sent) = Len(out.sent)
    BY <1>1
  <2>. QED BY <1>2, <2>2, <2>4, <2>5, Zenon
<1>4. \A i \in 1..Len(out'.sent) : i <= Repeats => out'.sent[i].primary \in Quiet
  BY <1>1 DEF Leading
<1>5. Len(out'.sent) < Repeats => \/ asked' = 0
                                  \/ /\ tx_phase' = "TX_IND" /\ ~burst'.fast
                                     /\ tx_ind_left' + 1 + Len(out'.sent) >= Repeats
  BY <1>1, <1>3
<1>. QED BY <1>4, <1>5 DEF Leading, Quiet, QuietSignals

LEMMA LeadPump ==
  ASSUME SpareEnough, SenderOK, TransportInv, Leading, nf_t38_pump
  PROVE  Leading'
<1>1. SenderInv(out') /\ Extends(out.sent, out'.sent) /\ SenderInv(out)
  BY PumpStep DEF TransportInv
<1>2. Len(out.sent) \in Nat /\ Len(out'.sent) \in Nat /\ Len(out'.sent) >= Len(out.sent) /\ Repeats \in Nat
  BY <1>1, Sizes DEF SenderInv, Extends
<1>3. CASE Len(out.sent) >= Repeats
  <2>1. \A i \in 1..Len(out'.sent) : i <= Repeats =>
          i \in 1..Len(out.sent) /\ out'.sent[i] = out.sent[i]
    <3>1. \A i \in 1..Len(out'.sent) : i <= Repeats => i \in 1..Len(out.sent)
      BY <1>2, <1>3, SMT
    <3>. QED BY <1>1, <3>1 DEF Extends
  <2>2. ~(Len(out'.sent) < Repeats)
    BY <1>2, <1>3, SMT
  <2>. QED BY <2>1, <2>2 DEF Leading
<1>4. CASE Len(out.sent) < Repeats
  <2>1. tx_phase # "TX_IDLE"
    BY DEF nf_t38_pump, PumpIndicator, PumpIndicatorWait, PumpHdlcData, PumpHdlcFcs,
       PumpHdlcDrain, PumpEnd, PumpImage, PumpTrail, PumpWait
  <2>2. tx_phase = "TX_IND" /\ ~burst.fast /\ tx_ind_left + 1 + Len(out.sent) >= Repeats
    BY <1>4, <2>1 DEF Leading, SenderOK, PhaseInv
  <2>3. PumpIndicator
    BY <2>2 DEF nf_t38_pump, PumpIndicatorWait, PumpHdlcData, PumpHdlcFcs,
       PumpHdlcDrain, PumpEnd, PumpImage, PumpTrail, PumpWait
  <2>4. PICK v \in QuietSignals : tx_ind = v
    BY <2>2, TxInd DEF SenderOK, PhaseInv, QuietSignals
  <2>5. OneMore(out, out', Ind(v))
    <3>1. out' = emit_indicator(out, v)
      BY <2>3, <2>4 DEF PumpIndicator
    <3>2. v \in {"CED", "CNG", "TRAINING", "V21_PREAMBLE", "NO_SIGNAL"}
      BY DEF QuietSignals
    <3>. QED BY <1>1, <3>1, <3>2, IndOne
  <2>6. Len(out'.sent) = Len(out.sent) + 1 /\ out'.sent[Len(out.sent) + 1].primary = Ind(v)
    BY <2>5 DEF OneMore
  <2>7. \A i \in 1..Len(out'.sent) : out'.sent[i].primary \in Quiet
    <3>1. \A i \in 1..Len(out'.sent) : i = Len(out.sent) + 1 \/ i \in 1..Len(out.sent)
      BY <1>2, <2>6, SMT
    <3>2. \A i \in 1..Len(out.sent) : i <= Repeats
      BY <1>2, <1>4, SMT
    <3>3. \A i \in 1..Len(out.sent) : out'.sent[i].primary \in Quiet
      BY <1>1, <3>2 DEF Extends, Leading
    <3>4. Ind(v) \in Quiet
      BY DEF Quiet
    <3>. QED BY <2>6, <3>1, <3>3, <3>4
  <2>8. ASSUME Len(out'.sent) < Repeats
        PROVE  tx_phase' = "TX_IND" /\ ~burst'.fast /\ tx_ind_left' + 1 + Len(out'.sent) >= Repeats
    <3>1. tx_ind_left \in Nat /\ tx_ind_left > 0
      <4>1. tx_ind_left \in 0..(Repeats - 1)
        BY DEF SenderOK, PhaseInv
      <4>2. tx_ind_left + 1 + Len(out.sent) >= Repeats /\ Len(out.sent) + 1 < Repeats
        BY <2>2, <2>6, <2>8
      <4>. DEFINE n == Len(out.sent)
      <4>3. n \in Nat /\ Repeats \in Nat /\ tx_ind_left + 1 + n >= Repeats /\ n + 1 < Repeats
        BY <1>2, <4>2
      <4>. HIDE DEF n
      <4>. QED BY <4>1, <4>3, SMT
    <3>2. tx_phase' = "TX_IND" /\ burst' = burst /\ tx_ind_left' = tx_ind_left - 1
      BY <2>3, <3>1 DEF PumpIndicator, burstVars
    <3>3. \A l, n \in Nat : l + 1 + n >= Repeats => (l - 1) + 1 + (n + 1) >= Repeats
      BY <1>2, SMT
    <3>. QED BY <1>2, <2>2, <2>6, <3>1, <3>2, <3>3, Zenon
  <2>9. Len(out'.sent) < Repeats => \/ asked' = 0
                                    \/ /\ tx_phase' = "TX_IND" /\ ~burst'.fast
                                       /\ tx_ind_left' + 1 + Len(out'.sent) >= Repeats
    BY <2>8
  <2>10. \A i \in 1..Len(out'.sent) : i <= Repeats => out'.sent[i].primary \in Quiet
    BY <2>7
  <2>. QED BY <2>9, <2>10 DEF Leading, Quiet, QuietSignals
<1>. QED BY <1>2, <1>3, <1>4, SMT

-----------------------------------------------------------------------------
(* Such a receiver has heard the beginning of what was said, all of it with *)
(* the last packet, unless silence has just cut a burst short.              *)

AllDeep(sent) == \A n \in 1..Len(sent) : Deep(sent, n)

Good(at, sent, words) ==
  /\ TraceOf(at, sent)
  /\ \A i \in 0..Len(sent) :
       at[i].on /\ Len(at[i].hdlc) <= Chunks /\ Extends(at[i].heard, words)

LEMMA Further ==
  ASSUME NEW S, NEW a \in Seq(S), NEW b \in Seq(S), NEW c \in Seq(S),
         Extends(a, b), Extends(b, c)
  PROVE  Extends(a, c)
<1>1. Len(a) \in Nat /\ Len(b) \in Nat /\ Len(c) \in Nat
  OBVIOUS
<1>2. Len(c) >= Len(a) /\ \A n \in 1..Len(a) : n \in 1..Len(b)
  BY <1>1, SMT DEF Extends
<1>. QED BY <1>2 DEF Extends

LEMMA DeepOne ==
  ASSUME NEW o, NEW o2, NEW ifp, SenderInv(o), OneMore(o, o2, ifp), AllDeep(o.sent)
  PROVE  AllDeep(o2.sent)
<1>1. \A n \in 1..Len(o2.sent) : n \in 1..Len(o.sent) \/ n = Len(o2.sent)
  BY SMT DEF OneMore, SenderInv
<1>2. \A n \in 1..Len(o.sent) : Deep(o2.sent, n)
  BY DEF AllDeep, Deep, OneMore, Extends
<1>. QED BY <1>1, <1>2 DEF AllDeep, OneMore

LEMMA GoodLonger ==
  ASSUME NEW o, NEW o2, NEW ifp, SenderInv(o), OneMore(o, o2, ifp),
         NEW words \in Seq(Calls), NEW words2 \in Seq(Calls), Extends(words, words2),
         NEW at, Good(at, o.sent, words),
         NEW s, s = rx_ifp(at[Len(o.sent)], Item1(ifp)),
         s.on, Len(s.hdlc) <= Chunks, Extends(s.heard, words2)
  PROVE  \E at2 : /\ Good(at2, o2.sent, words2) /\ at2[Len(o2.sent)] = s
                  /\ \A i \in 0..Len(o.sent) : at2[i] = at[i]
<1>1. PICK at2 : /\ TraceOf(at2, o2.sent)
                 /\ \A i \in 0..Len(o.sent) : at2[i] = at[i]
                 /\ at2[Len(o2.sent)] = rx_ifp(at[Len(o.sent)], Item1(ifp))
  BY Longer DEF Good
<1>2. \A i \in 0..Len(o2.sent) : i \in 0..Len(o.sent) \/ i = Len(o2.sent)
  BY SMT DEF OneMore, SenderInv
<1>3. \A i \in 0..Len(o.sent) : Extends(at[i].heard, words2)
  <2>1. \A i \in 0..Len(o.sent) : at[i].heard \in Seq(Calls) /\ Extends(at[i].heard, words)
    BY DEF Good, TraceOf, RxStates
  <2>. QED BY <2>1, Further
<1>4. \A i \in 0..Len(o2.sent) :
        at2[i].on /\ Len(at2[i].hdlc) <= Chunks /\ Extends(at2[i].heard, words2)
  <2>1. \A i \in 0..Len(o.sent) :
          at2[i].on /\ Len(at2[i].hdlc) <= Chunks /\ Extends(at2[i].heard, words2)
    BY <1>1, <1>3 DEF Good
  <2>2. at2[Len(o2.sent)] = s
    BY <1>1
  <2>. QED BY <1>2, <2>1, <2>2
<1>. QED BY <1>1, <1>4 DEF Good

(* The receiver at a state of that one: the same while its engine listens,  *)
(* and afterwards the same half received frame.                             *)
Hearing(r) ==
  /\ rx_hdlc = r.hdlc
  /\ rx_on => rx_carrier = r.carrier /\ rx_is_fast = r.fast /\ heard = r.heard
  /\ heard \in Seq(Calls) /\ Extends(heard, said)
  /\ rx_carrier \in BOOLEAN /\ rx_is_fast \in BOOLEAN /\ rx_on \in BOOLEAN

HeardInv ==
  \E at : /\ Good(at, out.sent, said)
          /\ Follows(at[Len(out.sent)])
          /\ Hearing(at[next - 1])

LEMMA NoisesAreCalls == Noises \subseteq Calls
<1>1. ASSUME NEW b \in 1..Bursts, NEW f \in 1..Frames PROVE FrameEvent(Frame(b, f)) \in Calls
  <2>1. b \in Nat /\ f \in Nat /\ Chunks \in Nat
    BY Sizes, SMT
  <2>2. \A k \in 1..Chunks : <<b, f, k>> \in Seq(Nat)
    BY <2>1, SMT
  <2>3. Frame(b, f) \in Seq(Seq(Nat))
    BY <2>1, <2>2 DEF Frame
  <2>. QED BY <2>3 DEF Calls
<1>2. ASSUME NEW b \in 1..Bursts, NEW k \in 0..Chunks PROVE DataEvent(<<b, 0, k>>) \in Calls
  <2>1. <<b, 0, k>> \in Seq(Nat)
    BY Sizes, SMT
  <2>. QED BY <2>1 DEF Calls
<1>3. {Event("UP"), Event("DOWN")} \subseteq Calls
  BY DEF Calls
<1>4. {FrameEvent(Frame(b, f)) : b \in 1..Bursts, f \in 1..Frames} \subseteq Calls
  BY <1>1
<1>5. {DataEvent(<<b, 0, k>>) : b \in 1..Bursts, k \in 0..Chunks} \subseteq Calls
  <2>. SUFFICES ASSUME NEW e \in {DataEvent(<<b, 0, k>>) : b \in 1..Bursts, k \in 0..Chunks}
                PROVE  e \in Calls
    OBVIOUS
  <2>1. PICK b \in 1..Bursts, k \in 0..Chunks : e = DataEvent(<<b, 0, k>>)
    OBVIOUS
  <2>. QED BY <1>2, <2>1
<1>. QED BY <1>3, <1>4, <1>5 DEF Noises

LEMMA SaidCalls ==
  ASSUME NEW words \in Seq(Noises)
  PROVE  words \in Seq(Calls)
<1>1. \A i \in 1..Len(words) : words[i] \in Calls
  BY NoisesAreCalls
<1>. QED BY <1>1

LEMMA PartialFits == ASSUME PhaseInv' PROVE Len(Partial') <= Chunks
<1>1. chunk' \in Nat /\ chunk' <= Chunks /\ Chunks \in Nat
  BY Sizes, SMT DEF PhaseInv
<1>2. Len([k \in 1..(chunk') |-> <<asked', frame', k>>]) = chunk'
  BY <1>1, SMT
<1>3. Len([k \in 1..Chunks |-> <<asked', frame', k>>]) = Chunks
  BY <1>1, SMT
<1>4. Len(<<>>) <= Chunks
  BY <1>1, SMT
<1>5. Chunks <= Chunks
  BY <1>1, SMT
<1>. QED BY <1>1, <1>2, <1>3, <1>4, <1>5 DEF Partial, Frame

LEMMA SaidGrows ==
  ASSUME SenderOK, (\E req \in Requests : set_tx_type(req)) \/ nf_t38_pump
  PROVE  Extends(said, said')
<1>1. said' = said \/ \E e : said' = Append(said, e)
  BY DEF set_tx_type, nf_t38_pump, PumpIndicator, PumpIndicatorWait, PumpHdlcData, PumpHdlcFcs,
     PumpHdlcDrain, PumpEnd, PumpImage, PumpTrail, PumpWait
<1>2. said \in Seq(Calls) /\ Len(said) \in Nat
  BY SaidCalls DEF SenderOK, SaidInv
<1>3. CASE said' = said
  BY <1>2, <1>3, SMT DEF Extends
<1>4. ASSUME NEW e, said' = Append(said, e) PROVE Extends(said, said')
  <2>1. Len(said') = Len(said) + 1 /\ \A n \in 1..Len(said) : said'[n] = said[n]
    BY <1>2, <1>4
  <2>2. Len(said) + 1 >= Len(said)
    BY <1>2, SMT
  <2>. QED BY <2>1, <2>2 DEF Extends
<1>. QED BY <1>1, <1>3, <1>4

(* A packet is sent, and nothing happens at the receiver.                   *)
LEMMA StillHearing ==
  ASSUME SenderOK, SenderOK', Extends(said, said'), UNCHANGED <<rxVars, rxState>>,
         NEW r, Hearing(r), NEW at2, at2[next - 1] = r,
         Good(at2, out'.sent, said'), NEW s, at2[Len(out'.sent)] = s, Follows(s)'
  PROVE  HeardInv'
<1>1. said \in Seq(Calls) /\ said' \in Seq(Calls)
  <2>1. said \in Seq(Noises) /\ said' \in Seq(Noises)
    BY DEF SenderOK, SaidInv
  <2>. QED BY <2>1, SaidCalls
<1>2. /\ rx_hdlc' = rx_hdlc /\ rx_on' = rx_on /\ rx_carrier' = rx_carrier
      /\ rx_is_fast' = rx_is_fast /\ heard' = heard /\ next' = next
  BY DEF rxVars, rxState
<1>3. Extends(heard, said')
  BY <1>1, Further DEF Hearing
<1>4. Hearing(r)'
  BY <1>2, <1>3 DEF Hearing
<1>5. Hearing(at2[next - 1])'
  <2>1. at2[next' - 1] = r
    BY <1>2
  <2>. QED BY <1>4, <2>1 DEF Hearing
<1>6. Follows(at2[Len(out.sent)])'
  BY DEF Follows, Exact
<1>. QED BY <1>5, <1>6 DEF HeardInv

(* What every case needs of the sender's end. *)
LineOK == SenderOK /\ TransportInv /\ AllDeep(out.sent) /\ Airing /\ Leading

LEMMA AskFollows ==
  ASSUME PhaseInv, Airing, NEW r, Follows(r), NEW req \in Requests, set_tx_type(req)
  PROVE  Follows(r)'
<1>1. /\ burst' = req /\ burst \in Requests
      /\ said' = (IF OnAir THEN Append(said, Event("DOWN")) ELSE said)
      /\ tx_phase' = (IF req = Pause THEN "TX_PAUSE_WAIT" ELSE "TX_IND")
      /\ tx_ind_left' = (IF req = Pause \/ req.fast THEN 0 ELSE Repeats - 1)
      /\ req = Silence => burst # Silence
      /\ req # Silence => completed \/ burst \in Tones \/ asked = 0
  BY AskFacts DEF PhaseInv
<1>2. CASE req = Silence
  <2>1. ~Interrupted
    BY <1>1, <1>2, RequestFacts DEF Interrupted
  <2>2. Exact(r)
    BY <2>1 DEF Follows
  <2>3. said' = Fallen(r)
    BY <1>1, <2>2 DEF Exact, Airing, Fallen
  <2>4. req.kind = "NONE" /\ req # Pause /\ req.fast = FALSE
    BY <1>2 DEF Silence, Pause
  <2>5. Interrupted'
    BY <1>1, <2>4 DEF Interrupted
  <2>. QED BY <2>3, <2>5 DEF Follows
<1>3. CASE req # Silence
  <2>1. tx_phase = "TX_IDLE" \/ burst \in Tones
    BY <1>1, <1>3 DEF PhaseInv
  <2>2. ~Carrying /\ Partial = <<>>
    <3>1. burst \in Tones => ~burst.fast /\ burst.kind \notin {"frame", "stream"}
      BY <1>1, RequestFacts
    <3>2. ~Carrying
      BY <2>1, <3>1 DEF Carrying
    <3>3. tx_phase \notin {"TX_HDLC_DATA", "TX_HDLC_FCS"}
      BY <2>1, <3>1 DEF PhaseInv
    <3>. QED BY <3>2, <3>3 DEF Partial
  <2>3. ~Interrupted
    <3>1. tx_phase = "TX_IND" => burst.kind # "NONE"
      BY <1>1, <2>1, RequestFacts
    <3>. QED BY <3>1 DEF Interrupted
  <2>4. Exact(r)
    BY <2>3 DEF Follows
  <2>5. said' = said
    BY <1>1, <2>2 DEF Airing
  <2>6. req.kind # "NONE" /\ (req = Pause => ~req.fast)
    BY <1>3, RequestFacts DEF Pause
  <2>7. ~Carrying' /\ Partial' = <<>> /\ ~Interrupted'
    BY <1>1, <2>6 DEF Carrying, Partial, Interrupted
  <2>. QED BY <2>2, <2>4, <2>5, <2>7 DEF Follows, Exact
<1>. QED BY <1>2, <1>3

LEMMA AskHeard ==
  ASSUME LineOK, SenderOK', HeardInv, UNCHANGED <<rxVars, rxState>>,
         NEW req \in Requests, set_tx_type(req)
  PROVE  HeardInv'
<1>1. PICK at : /\ Good(at, out.sent, said)
                /\ Follows(at[Len(out.sent)])
                /\ Hearing(at[next - 1])
  BY DEF HeardInv
<1>2. PhaseInv /\ SenderOK /\ Airing
  BY DEF LineOK, SenderOK
<1>3. PICK r, q : Follows(r) /\ Hearing(q) /\ at[Len(out.sent)] = r /\ at[next - 1] = q
  BY <1>1
<1>4. Follows(r)'
  BY <1>2, <1>3, AskFollows
<1>5. out' = out
  BY DEF set_tx_type
<1>6. Extends(said, said')
  BY <1>2, SaidGrows
<1>7. said \in Seq(Calls) /\ said' \in Seq(Calls)
  <2>1. said \in Seq(Noises) /\ said' \in Seq(Noises)
    BY <1>2 DEF SenderOK, SaidInv
  <2>. QED BY <2>1, SaidCalls
<1>8. Good(at, out'.sent, said')
  <2>1. \A i \in 0..Len(out.sent) : at[i].heard \in Seq(Calls) /\ Extends(at[i].heard, said)
    BY <1>1 DEF Good, TraceOf, RxStates
  <2>2. \A i \in 0..Len(out.sent) : Extends(at[i].heard, said')
    BY <1>6, <1>7, <2>1, Further
  <2>. QED BY <1>1, <1>5, <2>2 DEF Good
<1>9. at[Len(out'.sent)] = r
  BY <1>3, <1>5
<1>. QED BY <1>2, <1>3, <1>4, <1>6, <1>8, <1>9, StillHearing

(* One packet, or none, is sent. *)
LEMMA OneHeard ==
  ASSUME LineOK, SenderOK', nf_t38_pump, UNCHANGED <<rxVars, rxState>>,
         NEW ifp, OneMore(out, out', ifp),
         NEW at, Good(at, out.sent, said), Hearing(at[next - 1]),
         NEW s, s = rx_ifp(at[Len(out.sent)], Item1(ifp)), Exact(s)', ~Interrupted'
  PROVE  HeardInv'
<1>1. SenderOK /\ SenderInv(out) /\ next - 1 \in 0..Len(out.sent) /\ Len(out.sent) \in 0..Len(out.sent)
  BY SMT DEF LineOK, TransportInv, Received, SenderInv
<1>2. Extends(said, said')
  BY <1>1, SaidGrows
<1>3. said \in Seq(Calls) /\ said' \in Seq(Calls)
  <2>1. said \in Seq(Noises) /\ said' \in Seq(Noises)
    BY <1>1 DEF SenderOK, SaidInv
  <2>. QED BY <2>1, SaidCalls
<1>4. s.on
  <2>1. ifp \in Packets /\ at[Len(out.sent)] \in RxStates /\ at[Len(out.sent)].on
    BY <1>1 DEF OneMore, Good, TraceOf
  <2>. QED BY <2>1, HearAny
<1>5. Len(s.hdlc) <= Chunks
  <2>1. Len(Partial') <= Chunks
    <3>1. PhaseInv'
      BY DEF SenderOK
    <3>. QED BY <3>1, PartialFits
  <2>. QED BY <2>1 DEF Exact
<1>6. Extends(s.heard, said')
  <2>1. s.heard = said'
    BY DEF Exact
  <2>2. Len(said') >= Len(said')
    BY <1>3, SMT
  <2>. QED BY <2>1, <2>2 DEF Extends
<1>7. PICK at2 : /\ Good(at2, out'.sent, said') /\ at2[Len(out'.sent)] = s
                 /\ \A i \in 0..Len(out.sent) : at2[i] = at[i]
  BY <1>1, <1>2, <1>3, <1>4, <1>5, <1>6, GoodLonger
<1>8. PICK q : Hearing(q) /\ at2[next - 1] = q
  BY <1>1, <1>7
<1>9. Follows(s)'
  BY DEF Follows
<1>. QED BY <1>1, <1>2, <1>7, <1>8, <1>9, StillHearing

LEMMA QuietHeard ==
  ASSUME LineOK, SenderOK', UNCHANGED <<rxVars, rxState>>, nf_t38_pump,
         NEW at, Good(at, out.sent, said), Follows(at[Len(out.sent)]), Hearing(at[next - 1]),
         \/ PumpIndicatorWait
         \/ PumpHdlcData /\ chunk = 0 /\ frame = FramesOf(burst)
         \/ PumpHdlcDrain \/ PumpWait
  PROVE  HeardInv'
<1>1. SenderOK /\ PhaseInv /\ Len(out.sent) \in 0..Len(out.sent)
  BY SMT DEF LineOK, SenderOK, TransportInv, SenderInv
<1>2. PICK r, q : Follows(r) /\ Hearing(q) /\ at[Len(out.sent)] = r /\ at[next - 1] = q
  OBVIOUS
<1>3. r \in RxStates
  BY <1>1, <1>2 DEF Good, TraceOf
<1>4. Exact(r)' /\ ~Interrupted' /\ out' = out /\ said' = said
  BY <1>1, <1>2, <1>3, QuietExact
<1>5. Follows(r)'
  BY <1>4 DEF Follows
<1>6. Extends(said, said') /\ Good(at, out'.sent, said') /\ at[Len(out'.sent)] = r
  BY <1>1, <1>2, <1>4, SaidGrows
<1>. QED BY <1>1, <1>2, <1>5, <1>6, StillHearing

(* The two packets at the end of a burst. *)
LEMMA EndHeard ==
  ASSUME SpareEnough, LineOK, SenderOK', UNCHANGED <<rxVars, rxState>>, PumpEnd,
         NEW at, Good(at, out.sent, said), Follows(at[Len(out.sent)]), Hearing(at[next - 1])
  PROVE  HeardInv' /\ AllDeep(out'.sent)
<1>1. /\ SenderOK /\ PhaseInv /\ SenderInv(out) /\ AllDeep(out.sent)
      /\ next - 1 \in 0..Len(out.sent) /\ Len(out.sent) \in 0..Len(out.sent)
  BY SMT DEF LineOK, SenderOK, TransportInv, Received, SenderInv
<1>2. nf_t38_pump
  BY DEF nf_t38_pump
<1>. DEFINE ft == IF tx_phase = "TX_HDLC_END" THEN "HDLC_SIG_END" ELSE "T4_NON_ECM_SIG_END"
            mid == emit_data(out, ft, <<>>)
<1>3. OneMore(out, mid, Data(ft, <<>>))
  <2>1. /\ ft \in {"HDLC_DATA", "HDLC_FCS_OK", "HDLC_SIG_END", "T4_NON_ECM_DATA",
                   "T4_NON_ECM_SIG_END"}
        /\ <<>> \in Seq(Nat)
    OBVIOUS
  <2>. HIDE DEF ft
  <2>. QED BY <1>1, <2>1, DataOne
<1>4. out' = emit_indicator(mid, "NO_SIGNAL")
  BY DEF PumpEnd
<1>5. PICK f, o : f = ft /\ o = mid
  OBVIOUS
<1>. HIDE DEF ft, mid
<1>6. SenderInv(o) /\ OneMore(out, o, Data(f, <<>>)) /\ OneMore(o, out', Ind("NO_SIGNAL"))
  <2>1. SenderInv(o) /\ OneMore(out, o, Data(f, <<>>))
    BY <1>3, <1>5 DEF OneMore
  <2>2. OneMore(o, emit_indicator(o, "NO_SIGNAL"), Ind("NO_SIGNAL"))
    BY <2>1, IndOne
  <2>. QED BY <1>4, <1>5, <2>1, <2>2
<1>7. AllDeep(out'.sent)
  <2>1. AllDeep(o.sent)
    BY <1>1, <1>6, DeepOne
  <2>. QED BY <1>6, <2>1, DeepOne
<1>8. PICK r, q : Follows(r) /\ Hearing(q) /\ at[Len(out.sent)] = r /\ at[next - 1] = q
  OBVIOUS
<1>9. r \in RxStates /\ r.on
  BY <1>1, <1>8 DEF Good, TraceOf
<1>10. PICK m, s : m = rx_ifp(r, Item1(Data(f, <<>>))) /\ s = rx_ifp(m, Item1(Ind("NO_SIGNAL")))
  OBVIOUS
<1>11. /\ m \in RxStates /\ m.on /\ m.hdlc = <<>> /\ m.heard = said'
       /\ Exact(s)' /\ ~Interrupted'
  <2>1. f = IF tx_phase = "TX_HDLC_END" THEN "HDLC_SIG_END" ELSE "T4_NON_ECM_SIG_END"
    BY <1>5 DEF ft
  <2>. QED BY <1>1, <1>8, <1>9, <1>10, <2>1, EndExact
<1>12. s.on
  <2>1. Ind("NO_SIGNAL") \in Packets
    BY DEF Packets
  <2>. QED BY <1>10, <1>11, <2>1, HearAny
<1>13. Len(m.hdlc) <= Chunks /\ Len(s.hdlc) <= Chunks
  <2>1. Len(Partial') <= Chunks
    BY PartialFits DEF SenderOK
  <2>2. s.hdlc = Partial'
    BY <1>11 DEF Exact
  <2>3. Len(<<>>) <= Chunks
    BY Sizes, SMT
  <2>. QED BY <1>11, <2>1, <2>2, <2>3
<1>14. said \in Seq(Calls) /\ said' \in Seq(Calls)
  <2>1. said \in Seq(Noises) /\ said' \in Seq(Noises)
    BY <1>1 DEF SenderOK, SaidInv
  <2>. QED BY <2>1, SaidCalls
<1>15. Extends(said, said') /\ Extends(said', said') /\ Extends(m.heard, said') /\ Extends(s.heard, said')
  <2>1. Extends(said, said')
    BY <1>1, <1>2, SaidGrows
  <2>2. Extends(said', said')
    <3>1. Len(said') >= Len(said')
      BY <1>14, SMT
    <3>. QED BY <3>1 DEF Extends
  <2>3. s.heard = said'
    BY <1>11 DEF Exact
  <2>. QED BY <1>11, <2>1, <2>2, <2>3
<1>16. PICK at1 : /\ Good(at1, o.sent, said') /\ at1[Len(o.sent)] = m
                  /\ \A i \in 0..Len(out.sent) : at1[i] = at[i]
  <2>1. PICK w, v : w = said' /\ v = said
    OBVIOUS
  <2>2. /\ SenderInv(out) /\ OneMore(out, o, Data(f, <<>>)) /\ Good(at, out.sent, v)
        /\ m = rx_ifp(at[Len(out.sent)], Item1(Data(f, <<>>)))
    BY <1>1, <1>6, <1>8, <1>10, <2>1
  <2>3. /\ v \in Seq(Calls) /\ w \in Seq(Calls) /\ Extends(v, w) /\ Extends(m.heard, w)
        /\ m.on /\ Len(m.hdlc) <= Chunks
    BY <1>11, <1>13, <1>14, <1>15, <2>1
  <2>4. \E at3 : /\ Good(at3, o.sent, w) /\ at3[Len(o.sent)] = m
                 /\ \A i \in 0..Len(out.sent) : at3[i] = at[i]
    BY <2>2, <2>3, GoodLonger
  <2>. QED BY <2>1, <2>4
<1>17. PICK at2 : /\ Good(at2, out'.sent, said') /\ at2[Len(out'.sent)] = s
                  /\ \A i \in 0..Len(o.sent) : at2[i] = at1[i]
  <2>1. s = rx_ifp(at1[Len(o.sent)], Item1(Ind("NO_SIGNAL"))) /\ Good(at1, o.sent, said')
    BY <1>10, <1>16
  <2>2. s.on /\ Len(s.hdlc) <= Chunks /\ Extends(s.heard, said') /\ Extends(said', said')
    BY <1>12, <1>13, <1>15
  <2>3. SenderInv(o) /\ OneMore(o, out', Ind("NO_SIGNAL")) /\ said' \in Seq(Calls)
    BY <1>6, <1>14
  <2>4. PICK w, o2 : w = said' /\ o2 = out'
    OBVIOUS
  <2>5. SenderInv(o) /\ OneMore(o, o2, Ind("NO_SIGNAL")) /\ w \in Seq(Calls)
    BY <2>3, <2>4, Zenon
  <2>6. /\ s = rx_ifp(at1[Len(o.sent)], Item1(Ind("NO_SIGNAL"))) /\ Good(at1, o.sent, w)
        /\ s.on /\ Len(s.hdlc) <= Chunks /\ Extends(s.heard, w) /\ Extends(w, w)
    BY <2>1, <2>2, <2>4, Zenon
  <2>7. \E at3 : /\ Good(at3, o2.sent, w) /\ at3[Len(o2.sent)] = s
                 /\ \A i \in 0..Len(o.sent) : at3[i] = at1[i]
    BY <2>5, <2>6, GoodLonger
  <2>. QED BY <2>4, <2>7
<1>18. at2[next - 1] = q
  <2>1. next - 1 \in 0..Len(o.sent)
    BY <1>1, <1>6, SMT DEF OneMore, SenderInv
  <2>. QED BY <1>1, <1>8, <1>16, <1>17, <2>1
<1>19. Follows(s)'
  BY <1>11 DEF Follows
<1>. QED BY <1>1, <1>7, <1>8, <1>15, <1>17, <1>18, <1>19, StillHearing

LEMMA PumpHeard ==
  ASSUME SpareEnough, LineOK, SenderOK', HeardInv, UNCHANGED <<rxVars, rxState>>, nf_t38_pump
  PROVE  HeardInv' /\ AllDeep(out'.sent)
<1>1. PICK at : Good(at, out.sent, said) /\ Follows(at[Len(out.sent)]) /\ Hearing(at[next - 1])
  BY DEF HeardInv
<1>2. /\ SenderOK /\ PhaseInv /\ SenderInv(out) /\ AllDeep(out.sent)
      /\ Len(out.sent) \in 0..Len(out.sent)
  BY SMT DEF LineOK, SenderOK, TransportInv, SenderInv
<1>3. PICK r : Follows(r) /\ at[Len(out.sent)] = r
  BY <1>1
<1>4. r \in RxStates /\ r.on
  BY <1>1, <1>2, <1>3 DEF Good, TraceOf
<1>5. asked \in Nat /\ frame \in Nat /\ chunk \in Nat
  BY <1>2, Sizes, SMT DEF PhaseInv
<1>6. ASSUME NEW ifp, OneMore(out, out', ifp),
             NEW s, s = rx_ifp(r, Item1(ifp)), Exact(s)', ~Interrupted'
      PROVE  HeardInv' /\ AllDeep(out'.sent)
  <2>1. s = rx_ifp(at[Len(out.sent)], Item1(ifp))
    BY <1>3, <1>6
  <2>. QED BY <1>1, <1>2, <1>6, <2>1, OneHeard, DeepOne
<1>7. CASE PumpIndicator
  <2>1. PICK v \in {"CED", "CNG", "TRAINING", "V21_PREAMBLE", "NO_SIGNAL"} : tx_ind = v
    BY <1>2, TxInd DEF PhaseInv
  <2>2. OneMore(out, out', Ind(v))
    <3>1. out' = emit_indicator(out, v)
      BY <1>7, <2>1 DEF PumpIndicator
    <3>. QED BY <1>2, <3>1, IndOne
  <2>3. PICK s : s = rx_ifp(r, Item1(Ind(v)))
    OBVIOUS
  <2>4. Exact(s)' /\ ~Interrupted'
    <3>1. s = rx_ifp(r, Item1(Ind(tx_ind)))
      BY <2>1, <2>3
    <3>. QED BY <1>2, <1>3, <1>4, <1>7, <3>1, IndicatorExact
  <2>. QED BY <1>6, <2>2, <2>3, <2>4
<1>8. CASE PumpHdlcData /\ ~(chunk = 0 /\ frame = FramesOf(burst))
  <2>1. PICK f : f = IF chunk = 0 THEN frame + 1 ELSE frame
    OBVIOUS
  <2>2. out' = emit_data(out, "HDLC_DATA", <<asked, f, chunk + 1>>)
    BY <1>8, <2>1 DEF PumpHdlcData
  <2>3. <<asked, f, chunk + 1>> \in Seq(Nat)
    <3>1. f \in Nat /\ chunk + 1 \in Nat
      BY <1>5, <2>1, SMT
    <3>. QED BY <1>5, <3>1
  <2>4. PICK p : p = <<asked, f, chunk + 1>>
    OBVIOUS
  <2>5. OneMore(out, out', Data("HDLC_DATA", p))
    BY <1>2, <2>2, <2>3, <2>4, DataOne
  <2>6. PICK s : s = rx_ifp(r, Item1(Data("HDLC_DATA", p)))
    OBVIOUS
  <2>7. Exact(s)' /\ ~Interrupted'
    <3>1. s = rx_ifp(r, Item1(Data("HDLC_DATA", <<asked, f, chunk + 1>>)))
      BY <2>4, <2>6
    <3>. QED BY <1>2, <1>3, <1>4, <1>8, <2>1, <3>1, PieceExact
  <2>. QED BY <1>6, <2>5, <2>6, <2>7
<1>9. CASE PumpHdlcFcs
  <2>1. out' = emit_data(out, "HDLC_FCS_OK", <<>>) /\ <<>> \in Seq(Nat)
    BY <1>9 DEF PumpHdlcFcs
  <2>2. OneMore(out, out', Data("HDLC_FCS_OK", <<>>))
    BY <1>2, <2>1, DataOne
  <2>3. PICK s : s = rx_ifp(r, Item1(Data("HDLC_FCS_OK", <<>>)))
    OBVIOUS
  <2>4. Exact(s)' /\ ~Interrupted'
    BY <1>2, <1>3, <1>4, <1>9, <2>3, FrameExact
  <2>. QED BY <1>6, <2>2, <2>3, <2>4
<1>10. CASE PumpImage \/ PumpTrail
  <2>1. PICK p : p = IF tx_phase = "TX_NONECM" THEN <<asked, 0, chunk + 1>> ELSE <<asked, 0, 0>>
    OBVIOUS
  <2>2. out' = emit_data(out, "T4_NON_ECM_DATA", p)
    BY <1>10, <2>1 DEF PumpImage, PumpTrail
  <2>3. p \in Seq(Nat)
    BY <1>5, <2>1, SMT
  <2>4. OneMore(out, out', Data("T4_NON_ECM_DATA", p))
    BY <1>2, <2>2, <2>3, DataOne
  <2>5. PICK s : s = rx_ifp(r, Item1(Data("T4_NON_ECM_DATA", p)))
    OBVIOUS
  <2>6. Exact(s)' /\ ~Interrupted'
    BY <1>2, <1>3, <1>4, <1>10, <2>1, <2>5, ImageExact
  <2>. QED BY <1>6, <2>4, <2>5, <2>6
<1>11. CASE PumpEnd
  BY <1>1, <1>11, EndHeard
<1>12. CASE \/ PumpIndicatorWait
            \/ PumpHdlcData /\ chunk = 0 /\ frame = FramesOf(burst)
            \/ PumpHdlcDrain \/ PumpWait
  <2>1. HeardInv'
    BY <1>1, <1>12, QuietHeard
  <2>2. out' = out
    BY <1>12 DEF PumpIndicatorWait, PumpHdlcData, PumpHdlcDrain, PumpWait
  <2>. QED BY <1>2, <2>1, <2>2
<1>. QED BY <1>7, <1>8, <1>9, <1>10, <1>11, <1>12 DEF nf_t38_pump

-----------------------------------------------------------------------------
(* The receiver. *)

Match(b, a) == b.hdlc = a.hdlc /\ (b.on => b = a)

(* A run of packets, all that were sent after the first p, is heard as by   *)
(* the receiver that misses nothing.                                        *)
LEMMA RunHeard ==
  ASSUME NEW sent, NEW at, TraceOf(at, sent), \A i \in 0..Len(sent) : at[i].on,
         Len(sent) \in Nat, \A i \in 1..Len(sent) : sent[i].primary \in Packets,
         NEW p \in Nat, NEW n \in Nat, p + n <= Len(sent),
         NEW items, DOMAIN items = 1..n,
         \A k \in 1..n : items[k].ifp = sent[p + k].primary,
         NEW b \in RxStates, Match(b, at[p])
  PROVE  LET s == RxFold(b, items) IN
         /\ s \in RxStates /\ Match(s, at[p + n]) /\ s.on = b.on
         /\ ~b.on => s.heard = b.heard
<1>0. PICK st : StepsOf(st, b, items, n)
  BY FoldSteps
<1>1. /\ st[0] = b /\ st[n] = RxFold(b, items)
      /\ \A k \in 0..(n - 1) : st[k + 1] = rx_ifp(st[k], items[k + 1])
  BY <1>0 DEF StepsOf
<1>. DEFINE T == {k \in 0..n : /\ st[k] \in RxStates /\ Match(st[k], at[p + k]) /\ st[k].on = b.on
                               /\ ~b.on => st[k].heard = b.heard}
<1>2. 0 \in T
  <2>1. 0 \in 0..n /\ p + 0 = p
    BY SMT
  <2>. QED BY <1>1, <2>1
<1>3. ASSUME NEW k \in 0..(n - 1), k \in T PROVE k + 1 \in T
  <2>1. /\ k + 1 \in 0..n /\ k + 1 \in 1..n /\ p + k \in 0..Len(sent) /\ p + k + 1 \in 1..Len(sent)
        /\ (p + k + 1) - 1 = p + k /\ p + (k + 1) = p + k + 1
    BY SMT
  <2>2. PICK q, a, ifp : q = st[k] /\ a = at[p + k] /\ ifp = sent[p + k + 1].primary
    OBVIOUS
  <2>3. /\ q \in RxStates /\ Match(q, a) /\ q.on = b.on /\ (~b.on => q.heard = b.heard)
        /\ a \in RxStates /\ a.on /\ ifp \in Packets
    BY <1>3, <2>1, <2>2 DEF TraceOf
  <2>4. at[p + (k + 1)] = rx_ifp(a, Item1(ifp))
    <3>1. \A i \in 1..Len(sent) : at[i] = rx_ifp(at[i - 1], Item1(sent[i].primary))
      BY DEF TraceOf
    <3>2. at[p + k + 1] = rx_ifp(at[(p + k + 1) - 1], Item1(sent[p + k + 1].primary))
      BY <2>1, <3>1
    <3>. QED BY <2>1, <2>2, <3>2
  <2>5. st[k + 1] = rx_ifp(q, Item1(ifp))
    <3>1. st[k + 1] = rx_ifp(q, items[k + 1])
      BY <1>1, <2>2
    <3>2. items[k + 1].ifp = ifp
      BY <2>1, <2>2
    <3>3. rx_ifp(q, items[k + 1]) = rx_ifp(q, Item1(ifp))
      BY <3>2 DEF rx_ifp, Item1
    <3>. QED BY <3>1, <3>3
  <2>6. PICK s, c : s = rx_ifp(q, Item1(ifp)) /\ c = rx_ifp(a, Item1(ifp))
    OBVIOUS
  <2>7. /\ s \in RxStates /\ s.on = q.on /\ (~q.on => s.heard = q.heard)
        /\ s.hdlc = HdlcAfter(q.hdlc, ifp)
    BY <2>3, <2>6, HearAny
  <2>8. c.hdlc = HdlcAfter(a.hdlc, ifp)
    BY <2>3, <2>6, HearAny
  <2>9. Match(s, c)
    <3>1. s.hdlc = c.hdlc
      BY <2>3, <2>7, <2>8 DEF Match
    <3>2. s.on => s = c
      BY <2>3, <2>6, <2>7 DEF Match
    <3>. QED BY <3>1, <3>2 DEF Match
  <2>. QED BY <2>1, <2>3, <2>4, <2>5, <2>6, <2>7, <2>9
<1>4. \A k \in 0..n : k \in T
  <2>. HIDE DEF T
  <2>. QED BY <1>2, <1>3, UpTo
<1>5. n \in 0..n
  BY SMT
<1>6. n \in T
  BY <1>4, <1>5
<1>. QED BY <1>1, <1>6

LEMMA SameState ==
  ASSUME NEW a \in RxStates, NEW b \in RxStates,
         a.hdlc = b.hdlc, a.carrier = b.carrier, a.fast = b.fast, a.on = b.on, a.heard = b.heard
  PROVE  a = b
BY DEF RxStates

(* A datagram that comes after lost ones brings them all; the first to come *)
(* brings itself.                                                           *)
Brought(n) == IF rx_started THEN n - next ELSE 0

LEMMA AllHanded ==
  ASSUME SpareEnough, SenderInv(out), Received, AllDeep(out.sent), NEW n, MayArrive(n),
         ~IsOld(out.sent[n].seq)
  PROVE  /\ n \in 1..Len(out.sent) /\ n >= next /\ Brought(n) \in 0..(n - 1)
         /\ DOMAIN HandedUp(n) = 1..(Brought(n) + 1)
         /\ \A k \in 1..(Brought(n) + 1) :
              HandedUp(n)[k].ifp = out.sent[(n - Brought(n) - 1) + k].primary
<1>1. n \in 1..Len(out.sent) /\ n - next <= MaxRun /\ next - n <= MaxLate
  BY DEF MayArrive
<1>2. n >= next /\ Ahead(out.sent[n].seq) \in 0..(n - next)
  BY <1>1, NotOld
<1>3. /\ n \in Int /\ next \in Int /\ n >= 1 /\ next >= 1 /\ MaxRun \in Nat /\ MaxRun < SEQ
      /\ SEQ \in Nat \ {0} /\ HALF \in 1..(SEQ - 1)
  <2>1. Len(out.sent) \in Nat
    BY DEF SenderInv
  <2>. QED BY <1>1, <2>1, UdptlAssumption, SMT DEF Received, SpareEnough
<1>4. out.sent[n].seq = (n - 1) % SEQ
  BY <1>1 DEF SenderInv, CarriesEarlier
<1>5. Ahead(out.sent[n].seq) = Brought(n)
  <2>1. CASE ~rx_started
    <3>1. next = 1 /\ (n - 1) % SEQ \in Int
      BY <1>3, <2>1, ModFacts, SMT DEF Received
    <3>2. ((n - 1) % SEQ) - ((n - 1) % SEQ) = 0
      BY <3>1, SMT
    <3>3. 0 % SEQ = 0
      <4>1. 0 = 0 * SEQ + 0 /\ 0 \in Int /\ 0 \in 0..(SEQ - 1)
        BY <1>3, SMT
      <4>. QED BY <4>1, <1>3, Remainder
    <3>. QED BY <1>4, <2>1, <3>2, <3>3, Zenon DEF Ahead, Brought
  <2>2. CASE rx_started
    <3>1. Ahead(out.sent[n].seq) = (((n - 1) % SEQ) - ((next - 1) % SEQ)) % SEQ
      BY <1>4, <2>2 DEF Ahead, Received
    <3>2. Ahead(out.sent[n].seq) = ((n - 1) - (next - 1)) % SEQ
      <4>1. n - 1 \in Int /\ next - 1 \in Int
        BY <1>3, SMT
      <4>. QED BY <3>1, <4>1, <1>3, ModDifference
    <3>3. (n - 1) - (next - 1) = n - next
      BY <1>3, SMT
    <3>4. (n - next) % SEQ = n - next
      <4>1. n - next \in Int /\ 0 \in Int /\ n - next \in 0..(SEQ - 1) /\ n - next = 0 * SEQ + (n - next)
        BY <1>1, <1>2, <1>3, SMT
      <4>. QED BY <4>1, <1>3, Remainder
    <3>. QED BY <2>2, <3>2, <3>3, <3>4 DEF Brought
  <2>. QED BY <2>1, <2>2
<1>. DEFINE d == out.sent[n]
            gap == Lesser(Ahead(d.seq), Len(d.secs))
            g == Brought(n)
<1>6. d \in Datagram /\ Len(d.secs) \in Nat /\ d.primary \in Packets
  <2>1. d \in Datagram
    BY <1>1 DEF SenderInv
  <2>. QED BY <2>1 DEF Datagram
<1>7. g \in 0..(n - 1) /\ g <= MaxRun
  <2>1. g \in 0..(n - next)
    BY <1>2, <1>5
  <2>. HIDE DEF g
  <2>. QED BY <1>1, <1>2, <1>3, <2>1, SMT
<1>8. gap = g
  <2>1. Lesser(MaxRun, n - 1) <= Len(d.secs)
    BY <1>1 DEF AllDeep, Deep
  <2>2. PICK l : l = Len(d.secs) /\ l \in Nat
    BY <1>6
  <2>3. gap = Lesser(g, l)
    BY <1>5, <2>2
  <2>. HIDE DEF gap, g, d
  <2>4. g <= l
    BY <1>3, <1>7, <2>1, <2>2, SMT DEF Lesser
  <2>. QED BY <1>7, <2>2, <2>3, <2>4, SMT DEF Lesser
<1>9. HandedUp(n) = [k \in 1..(gap + 1) |->
                       [place |-> n - gap - 1 + k,
                        ifp |-> IF k = gap + 1 THEN d.primary ELSE d.secs[gap + 1 - k]]]
  BY DEF HandedUp
<1>. HIDE DEF gap, d
<1>10. ASSUME NEW k \in 1..(g + 1)
       PROVE  HandedUp(n)[k].ifp = out.sent[(n - g - 1) + k].primary
  <2>1. HandedUp(n)[k].ifp = IF k = g + 1 THEN d.primary ELSE d.secs[g + 1 - k]
    BY <1>8, <1>9
  <2>. HIDE DEF g
  <2>2. CASE k = g + 1
    <3>1. (n - g - 1) + k = n
      BY <1>3, <1>7, <2>2, SMT
    <3>. QED BY <2>1, <2>2, <3>1 DEF d
  <2>3. CASE k # g + 1
    <3>1. PICK l : l = Len(d.secs) /\ l \in Nat
      BY <1>6
    <3>2. g <= l
      BY <1>7, <1>8, <3>1, SMT DEF gap, Lesser
    <3>3. g + 1 - k \in 1..l /\ n - (g + 1 - k) = (n - g - 1) + k
      BY <1>3, <1>7, <2>3, <3>1, <3>2, SMT
    <3>4. \A m \in 1..Len(d.secs) : d.secs[m] = out.sent[n - m].primary
      BY <1>1 DEF SenderInv, CarriesEarlier, d
    <3>5. d.secs[g + 1 - k] = out.sent[(n - g - 1) + k].primary
      BY <3>1, <3>3, <3>4
    <3>. QED BY <2>1, <2>3, <3>5
  <2>. QED BY <2>2, <2>3
<1>11. DOMAIN HandedUp(n) = 1..(g + 1)
  BY <1>8, <1>9
<1>. QED BY <1>1, <1>2, <1>7, <1>10, <1>11

LEMMA FirstHeard ==
  ASSUME SpareEnough, LineOK, NEW n, MayArrive(n), next = 1, n \in 1..Len(out.sent),
         NEW at, TraceOf(at, out.sent), NEW b \in RxStates, Match(b, Deaf),
         NEW items, DOMAIN items = 1..1, items[1].ifp = out.sent[n].primary
  PROVE  LET s == RxFold(b, items) IN
         /\ s \in RxStates /\ Match(s, at[n]) /\ s.on = b.on /\ (~b.on => s.heard = b.heard)
<1>1. Len(out.sent) \in Nat /\ Leading
  BY DEF LineOK, TransportInv, SenderInv
<1>2. /\ n <= Repeats /\ n - 1 \in 0..Len(out.sent) /\ n - 1 <= Repeats /\ n \in 0..Len(out.sent)
  <2>1. n - 1 <= MaxRun /\ MaxRun < Repeats /\ MaxRun \in Nat /\ Repeats \in Nat
    BY UdptlAssumption, Sizes DEF MayArrive, SpareEnough
  <2>. QED BY <1>1, <2>1, SMT
<1>3. PICK v \in QuietSignals : out.sent[n].primary = Ind(v)
  BY <1>1, <1>2 DEF Leading, Quiet
<1>4. PICK q : q = at[n - 1] /\ q \in RxStates /\ q.heard = <<>> /\ q.fast = FALSE /\ q.on
  BY <1>1, <1>2, LeadQuiet DEF TraceOf
<1>5. PICK s, c : s = rx_ifp(b, Item1(Ind(v))) /\ c = rx_ifp(q, Item1(Ind(v)))
  OBVIOUS
<1>6. at[n] = c
  <2>1. \A i \in 1..Len(out.sent) : at[i] = rx_ifp(at[i - 1], Item1(out.sent[i].primary))
    BY DEF TraceOf
  <2>. QED BY <1>3, <1>4, <1>5, <2>1
<1>7. RxFold(b, items) = s
  <2>1. PICK st : StepsOf(st, b, items, 1)
    BY FoldSteps
  <2>2. 0 \in 0..(1 - 1) /\ 0 + 1 = 1
    BY SMT
  <2>3. RxFold(b, items) = rx_ifp(b, items[1])
    BY <2>1, <2>2 DEF StepsOf
  <2>4. rx_ifp(b, items[1]) = rx_ifp(b, Item1(Ind(v)))
    BY <1>3 DEF rx_ifp, Item1
  <2>. QED BY <1>5, <2>3, <2>4
<1>8. /\ s.hdlc = <<>> /\ s.fast = FALSE /\ s.heard = IF b.on THEN Fallen(b) ELSE b.heard
      /\ s \in RxStates /\ s.on = b.on /\ s.carrier = (v = "V21_PREAMBLE")
  BY <1>5, HearQuiet
<1>9. /\ c.hdlc = <<>> /\ c.fast = FALSE /\ c.heard = IF q.on THEN Fallen(q) ELSE q.heard
      /\ c \in RxStates /\ c.on = q.on /\ c.carrier = (v = "V21_PREAMBLE")
  <2>1. q \in RxStates
    BY <1>4
  <2>2. c = rx_ifp(q, Item1(Ind(v)))
    BY <1>5
  <2>. QED BY <2>1, <2>2, HearQuiet
<1>10. c.heard = <<>>
  BY <1>4, <1>9 DEF Fallen
<1>11. ASSUME s.on PROVE s = c
  <2>1. b = Deaf
    BY <1>8, <1>11 DEF Match
  <2>2. s.heard = <<>>
    BY <1>8, <2>1 DEF Fallen, Deaf
  <2>3. s.on = c.on
    BY <1>4, <1>8, <1>9, <2>1 DEF Deaf, RxStates
  <2>. QED BY <1>8, <1>9, <1>10, <2>2, <2>3, SameState
<1>12. Match(s, c)
  BY <1>8, <1>9, <1>11 DEF Match
<1>. QED BY <1>6, <1>7, <1>8, <1>12

LEMMA ArriveHeard ==
  ASSUME SpareEnough, LineOK, HeardInv, NEW n \in 1..Len(out.sent), RxDatagram(n)
  PROVE  HeardInv'
<1>1. PICK at : Good(at, out.sent, said) /\ Follows(at[Len(out.sent)]) /\ Hearing(at[next - 1])
  BY DEF HeardInv
<1>2. /\ SenderOK /\ SenderInv(out) /\ Received /\ AllDeep(out.sent)
      /\ Len(out.sent) \in Nat /\ next \in 1..(Len(out.sent) + 1)
      /\ next - 1 \in 0..Len(out.sent)
  BY SMT DEF LineOK, TransportInv, SenderInv, Received
<1>3. nf_udptl_rx(n) /\ MayArrive(n) /\ out' = out /\ said' = said /\ rx_on' = rx_on
  BY DEF RxDatagram, nf_udptl_rx, txState
<1>4. UNCHANGED txState
  BY DEF RxDatagram
<1>5. PICK q : q = at[next - 1] /\ Hearing(q)
  BY <1>1
<1>6. q \in RxStates /\ q.on /\ q.on = TRUE
  BY <1>1, <1>2, <1>5 DEF Good, TraceOf, RxStates
<1>7. PICK b : b = [hdlc |-> rx_hdlc, carrier |-> rx_carrier, fast |-> rx_is_fast,
                    on |-> rx_on, heard |-> heard]
  OBVIOUS
<1>8. b \in RxStates /\ b.hdlc = rx_hdlc /\ b.on = rx_on /\ b.heard = heard
  <2>1. rx_hdlc \in Seq(Seq(Nat))
    BY <1>5, <1>6 DEF Hearing, RxStates
  <2>. QED BY <1>5, <1>7, <2>1 DEF Hearing, RxStates
<1>9. Match(b, q)
  <2>1. b.hdlc = q.hdlc
    BY <1>5, <1>8 DEF Hearing
  <2>2. ASSUME b.on PROVE b = q
    <3>1. /\ b.carrier = q.carrier /\ b.fast = q.fast /\ b.heard = q.heard /\ b.on = q.on
      BY <1>5, <1>6, <1>7, <2>2 DEF Hearing
    <3>. QED BY <1>6, <1>8, <2>1, <3>1, SameState
  <2>. QED BY <2>1, <2>2 DEF Match
<1>10. PICK items : items = IF IsOld(out.sent[n].seq) THEN <<>> ELSE HandedUp(n)
  OBVIOUS
<1>11. PICK s : s = RxFold(b, items)
  OBVIOUS
<1>12. rx_hdlc' = s.hdlc /\ rx_carrier' = s.carrier /\ rx_is_fast' = s.fast /\ heard' = s.heard
  BY <1>7, <1>10, <1>11 DEF RxDatagram, RxFold
<1>13. next' \in 1..(Len(out.sent) + 1) /\ next' - 1 \in 0..Len(out.sent)
       /\ s \in RxStates /\ Match(s, at[next' - 1]) /\ s.on = b.on /\ (~b.on => s.heard = b.heard)
  <2>1. CASE IsOld(out.sent[n].seq)
    <3>1. next' = next
      BY <1>3, <2>1 DEF nf_udptl_rx
    <3>2. DOMAIN items = 1..0 /\ 0 \in Nat
      BY <1>10, <2>1, SMT
    <3>3. PICK st : StepsOf(st, b, items, 0)
      BY <3>2, FoldSteps
    <3>4. s = b
      BY <1>11, <3>3 DEF StepsOf
    <3>. QED BY <1>2, <1>5, <1>8, <1>9, <3>1, <3>4
  <2>2. CASE ~IsOld(out.sent[n].seq)
    <3>. DEFINE g == Brought(n)
    <3>1. /\ n >= next /\ g \in 0..(n - 1) /\ DOMAIN HandedUp(n) = 1..(g + 1)
          /\ \A k \in 1..(g + 1) : HandedUp(n)[k].ifp = out.sent[(n - g - 1) + k].primary
      BY <1>2, <1>3, <2>2, AllHanded
    <3>2. items = HandedUp(n)
      BY <1>10, <2>2
    <3>3. next' = n + 1 /\ next' - 1 = n /\ next' \in 1..(Len(out.sent) + 1) /\ next' - 1 \in 0..Len(out.sent)
      <4>1. next' = n + 1
        BY <1>3, <2>2 DEF nf_udptl_rx
      <4>. QED BY <1>2, <4>1, SMT
    <3>4. CASE rx_started
      <4>1. g = n - next
        BY <3>4 DEF Brought
      <4>. HIDE DEF g
      <4>2. PICK p, m : p = next - 1 /\ m = g + 1
        OBVIOUS
      <4>3. /\ p \in Nat /\ m \in Nat /\ p + m = n /\ p + m <= Len(out.sent) /\ n - g - 1 = p
        BY <1>2, <3>1, <4>1, <4>2, SMT
      <4>4. DOMAIN items = 1..m /\ \A k \in 1..m : items[k].ifp = out.sent[p + k].primary
        BY <3>1, <3>2, <4>2, <4>3
      <4>5. Match(b, at[p])
        BY <1>5, <1>9, <4>2
      <4>6. /\ TraceOf(at, out.sent) /\ \A i \in 0..Len(out.sent) : at[i].on
            /\ \A i \in 1..Len(out.sent) : out.sent[i].primary \in Packets
        <5>1. \A i \in 1..Len(out.sent) : out.sent[i] \in Datagram
          BY <1>2 DEF SenderInv
        <5>2. \A i \in 1..Len(out.sent) : out.sent[i].primary \in Packets
          BY <5>1 DEF Datagram
        <5>. QED BY <1>1, <5>2 DEF Good
      <4>7. /\ s \in RxStates /\ Match(s, at[p + m]) /\ s.on = b.on
            /\ ~b.on => s.heard = b.heard
        <5>. DEFINE t == RxFold(b, items)
                    sent == out.sent
        <5>1. /\ TraceOf(at, sent) /\ \A i \in 0..Len(sent) : at[i].on
              /\ Len(sent) \in Nat /\ \A i \in 1..Len(sent) : sent[i].primary \in Packets
              /\ p \in Nat /\ m \in Nat /\ p + m <= Len(sent) /\ DOMAIN items = 1..m
              /\ \A k \in 1..m : items[k].ifp = sent[p + k].primary
              /\ b \in RxStates /\ Match(b, at[p])
          BY <1>2, <1>8, <4>3, <4>4, <4>5, <4>6
        <5>. HIDE DEF sent
        <5>2. /\ t \in RxStates /\ Match(t, at[p + m]) /\ t.on = b.on
              /\ ~b.on => t.heard = b.heard
          BY <5>1, RunHeard
        <5>. QED BY <1>11, <5>2
      <4>. QED BY <3>3, <4>3, <4>7
    <3>5. CASE ~rx_started
      <4>1. next = 1 /\ g = 0
        BY <1>2, <3>5 DEF Received, Brought
      <4>2. q = Deaf
        <5>1. next - 1 = 0
          BY <4>1, SMT
        <5>. QED BY <1>1, <1>5, <5>1 DEF Good, TraceOf
      <4>. HIDE DEF g
      <4>3. g + 1 = 1 /\ 1 \in 1..(g + 1) /\ (n - g - 1) + 1 = n
        BY <4>1, SMT
      <4>4. DOMAIN items = 1..1 /\ items[1].ifp = out.sent[n].primary
        BY <3>1, <3>2, <4>3
      <4>5. /\ s \in RxStates /\ Match(s, at[n]) /\ s.on = b.on /\ (~b.on => s.heard = b.heard)
        BY <1>1, <1>3, <1>8, <1>9, <1>11, <4>1, <4>2, <4>4, FirstHeard DEF Good
      <4>. QED BY <3>3, <4>5
    <3>. QED BY <3>4, <3>5
  <2>. QED BY <2>1, <2>2
<1>14. PICK c : c = at[next' - 1]
  OBVIOUS
<1>15. Hearing(c)'
  <2>1. c \in RxStates /\ Extends(c.heard, said)
    BY <1>1, <1>13, <1>14 DEF Good, TraceOf
  <2>2. rx_hdlc' = c.hdlc
    BY <1>12, <1>13, <1>14 DEF Match
  <2>3. rx_on' => rx_carrier' = c.carrier /\ rx_is_fast' = c.fast /\ heard' = c.heard
    BY <1>3, <1>8, <1>12, <1>13, <1>14 DEF Match
  <2>4. Extends(heard', said')
    <3>1. rx_on => heard' = c.heard
      BY <1>3, <2>3
    <3>2. ~rx_on => heard' = heard
      BY <1>8, <1>12, <1>13
    <3>3. Extends(heard, said)
      BY <1>5 DEF Hearing
    <3>. QED BY <1>3, <2>1, <3>1, <3>2, <3>3
  <2>5. /\ heard' \in Seq(Calls) /\ rx_carrier' \in BOOLEAN /\ rx_is_fast' \in BOOLEAN
        /\ rx_on' \in BOOLEAN
    BY <1>3, <1>5, <1>12, <1>13 DEF RxStates, Hearing
  <2>. QED BY <2>2, <2>3, <2>4, <2>5 DEF Hearing
<1>16. PICK r : r = at[Len(out.sent)] /\ Follows(r)
  BY <1>1
<1>17. Follows(r)'
  BY <1>4, <1>16 DEF Follows, Interrupted, Exact, Partial, Carrying, txState
<1>18. Good(at, out'.sent, said')
  BY <1>1, <1>3
<1>. QED BY <1>3, <1>14, <1>15, <1>16, <1>17, <1>18 DEF HeardInv

LEMMA RetuneHeard ==
  ASSUME SpareEnough, HeardInv, NEW type \in {"V21", "NONE"}, set_rx_type(type)
  PROVE  HeardInv'
<1>1. PICK at : Good(at, out.sent, said) /\ Follows(at[Len(out.sent)]) /\ Hearing(at[next - 1])
  BY DEF HeardInv
<1>2. /\ rx_hdlc = <<>> /\ rx_hdlc' = <<>> /\ rx_carrier' = (rx_carrier /\ type # "NONE")
      /\ rx_on' = (type # "NONE") /\ rx_on /\ rx_is_fast' = rx_is_fast /\ heard' = heard
      /\ out' = out /\ next' = next /\ UNCHANGED txState
  BY DEF set_rx_type, SpareEnough, rxVars
<1>3. PICK q, r : /\ q = at[next - 1] /\ Hearing(q)
                  /\ r = at[Len(out.sent)] /\ Follows(r)
  BY <1>1
<1>4. said' = said
  BY <1>2 DEF txState
<1>5. Hearing(q)'
  <2>1. rx_carrier \in BOOLEAN /\ rx_is_fast \in BOOLEAN
    BY <1>3 DEF Hearing
  <2>2. rx_carrier' \in BOOLEAN /\ (rx_on' => rx_carrier' = rx_carrier)
    BY <1>2, <2>1
  <2>. QED BY <1>2, <1>3, <1>4, <2>1, <2>2 DEF Hearing
<1>6. Follows(r)'
  BY <1>2, <1>3 DEF Follows, Interrupted, Exact, Partial, Carrying, txState
<1>7. Good(at, out'.sent, said')
  BY <1>1, <1>2, <1>4
<1>. QED BY <1>2, <1>3, <1>5, <1>6, <1>7 DEF HeardInv

-----------------------------------------------------------------------------
(* The invariant of the whole, and the theorems.                            *)

WholeInv == LineOK /\ HeardInv /\ rx_seq_no \in 0..(SEQ - 1)

LEMMA WholeInit == ASSUME Init PROVE WholeInv
<1>1. SenderOK /\ TransportInv
  BY SenderInit, TransportInit
<1>2. out.sent = <<>> /\ Len(out.sent) = 0 /\ next = 1 /\ rx_seq_no = 0
  BY DEF Init, UdptlInit
<1>3. AllDeep(out.sent)
  <2>1. \A n \in 1..Len(out.sent) : FALSE
    BY <1>2, SMT
  <2>. QED BY <2>1 DEF AllDeep
<1>4. Airing
  <2>1. ~(Len(said) > 0)
    BY SMT DEF Init
  <2>. QED BY <2>1 DEF Airing, OnAir, Carrying, Init
<1>5. Leading
  <2>1. \A n \in 1..Len(out.sent) : FALSE
    BY <1>2, SMT
  <2>. QED BY <2>1 DEF Leading, Init
<1>6. HeardInv
  <2>. DEFINE at == [i \in 0..0 |-> Deaf]
  <2>1. Deaf \in RxStates
    BY DEF Deaf, RxStates
  <2>2. 0 \in 0..0 /\ next - 1 = 0 /\ \A i \in 1..Len(out.sent) : FALSE
    BY <1>2, SMT
  <2>3. TraceOf(at, out.sent)
    BY <1>2, <2>1, <2>2 DEF TraceOf
  <2>4. Extends(<<>>, said) /\ Len(<<>>) <= Chunks
    <3>1. said = <<>>
      BY DEF Init
    <3>2. Chunks \in Nat
      BY Sizes
    <3>. QED BY <3>1, <3>2, SMT DEF Extends
  <2>5. \A i \in 0..Len(out.sent) : i = 0
    BY <1>2, SMT
  <2>6. Good(at, out.sent, said)
    <3>1. at[0].on /\ at[0].hdlc = <<>> /\ at[0].heard = <<>>
      BY <2>2 DEF Deaf
    <3>. HIDE DEF at
    <3>. QED BY <1>2, <2>3, <2>4, <2>5, <3>1 DEF Good
  <2>7. Follows(Deaf)
    BY DEF Follows, Interrupted, Exact, Carrying, Partial, Deaf, Init
  <2>8. Hearing(Deaf)
    <3>1. Deaf.hdlc = <<>> /\ Deaf.carrier = FALSE /\ Deaf.fast = FALSE /\ Deaf.heard = <<>>
      BY DEF Deaf
    <3>2. /\ rx_hdlc = <<>> /\ rx_carrier = FALSE /\ rx_is_fast = FALSE /\ rx_on = TRUE
          /\ heard = <<>>
      BY DEF Init
    <3>3. <<>> \in Seq(Calls)
      OBVIOUS
    <3>. QED BY <2>4, <3>1, <3>2, <3>3 DEF Hearing
  <2>9. at[Len(out.sent)] = Deaf /\ at[next - 1] = Deaf
    BY <1>2, <2>2
  <2>. QED BY <2>6, <2>7, <2>8, <2>9 DEF HeardInv
<1>7. rx_seq_no \in 0..(SEQ - 1)
  BY <1>2, UdptlAssumption, SMT
<1>. QED BY <1>1, <1>3, <1>4, <1>5, <1>6, <1>7 DEF WholeInv, LineOK

LEMMA NumberStep ==
  ASSUME SenderInv(out), rx_seq_no \in 0..(SEQ - 1), NEW n \in 1..Len(out.sent), nf_udptl_rx(n)
  PROVE  rx_seq_no' \in 0..(SEQ - 1)
<1>1. SEQ \in Nat \ {0} /\ Len(out.sent) \in Nat
  BY UdptlAssumption, SMT DEF SenderInv
<1>2. out.sent[n].seq = (n - 1) % SEQ
  BY DEF SenderInv, CarriesEarlier
<1>3. (n - 1) % SEQ \in 0..(SEQ - 1)
  <2>1. n - 1 \in Int
    BY <1>1, SMT
  <2>. QED BY <1>1, <2>1, ModFacts
<1>4. (((n - 1) % SEQ) + 1) % SEQ \in 0..(SEQ - 1)
  <2>1. ((n - 1) % SEQ) + 1 \in Int
    BY <1>1, <1>3, SMT
  <2>. QED BY <1>1, <2>1, ModFacts
<1>5. rx_seq_no' \in {rx_seq_no, (n - 1) % SEQ, (((n - 1) % SEQ) + 1) % SEQ}
  BY <1>2 DEF nf_udptl_rx
<1>. QED BY <1>3, <1>4, <1>5

LEMMA WholeStep ==
  ASSUME SpareEnough, WholeInv, [Next]_vars PROVE WholeInv'
<1>1. SenderOK /\ SenderOK' /\ TransportInv /\ TransportInv' /\ LineOK /\ HeardInv /\ SenderInv(out)
  BY SenderStep, TransportStep DEF WholeInv, LineOK, TransportInv
<1>2. AllDeep(out.sent) /\ Airing /\ Leading
  BY <1>1 DEF LineOK
<1>3. ASSUME NEW req \in Requests, set_tx_type(req), UNCHANGED <<rxVars, rxState>>
      PROVE  WholeInv'
  <2>1. HeardInv'
    BY <1>1, <1>3, AskHeard
  <2>2. Airing' /\ Leading'
    BY <1>1, <1>2, <1>3, AirStep, LeadAsk
  <2>3. out' = out /\ rx_seq_no' = rx_seq_no
    BY <1>3 DEF set_tx_type, rxVars
  <2>. QED BY <1>1, <1>2, <2>1, <2>2, <2>3 DEF WholeInv, LineOK
<1>4. ASSUME nf_t38_pump, UNCHANGED <<rxVars, rxState>> PROVE WholeInv'
  <2>1. HeardInv' /\ AllDeep(out'.sent)
    BY <1>1, <1>4, PumpHeard
  <2>2. Airing' /\ Leading'
    BY <1>1, <1>2, <1>4, AirStep, LeadPump
  <2>3. rx_seq_no' = rx_seq_no
    BY <1>4 DEF rxVars
  <2>. QED BY <1>1, <2>1, <2>2, <2>3 DEF WholeInv, LineOK
<1>5. ASSUME UNCHANGED <<out, txState>> PROVE AllDeep(out'.sent) /\ Airing' /\ Leading'
  BY <1>2, <1>5 DEF Airing, OnAir, Carrying, Leading, txState, Quiet, QuietSignals
<1>6. ASSUME NEW n \in 1..Len(out.sent), RxDatagram(n) PROVE WholeInv'
  <2>1. HeardInv'
    BY <1>1, <1>6, ArriveHeard
  <2>2. rx_seq_no' \in 0..(SEQ - 1)
    BY <1>1, <1>6, NumberStep DEF WholeInv, RxDatagram
  <2>3. UNCHANGED <<out, txState>>
    BY <1>6 DEF RxDatagram
  <2>. QED BY <1>1, <1>5, <2>1, <2>2, <2>3 DEF WholeInv, LineOK
<1>7. ASSUME NEW type \in {"V21", "NONE"}, set_rx_type(type) PROVE WholeInv'
  <2>1. HeardInv'
    BY <1>1, <1>7, RetuneHeard
  <2>2. UNCHANGED <<out, txState>> /\ rx_seq_no' = rx_seq_no
    BY <1>7 DEF set_rx_type, rxVars
  <2>. QED BY <1>1, <1>5, <2>1, <2>2 DEF WholeInv, LineOK
<1>8. ASSUME UNCHANGED vars PROVE WholeInv'
  <2>1. /\ UNCHANGED <<out, txState>> /\ rx_seq_no' = rx_seq_no /\ next' = next
        /\ rx_hdlc' = rx_hdlc /\ rx_on' = rx_on /\ rx_carrier' = rx_carrier
        /\ rx_is_fast' = rx_is_fast /\ heard' = heard
    BY <1>8 DEF vars, rxVars, rxState
  <2>2. HeardInv'
    <3>1. PICK at : Good(at, out.sent, said) /\ Follows(at[Len(out.sent)]) /\ Hearing(at[next - 1])
      BY <1>1 DEF HeardInv
    <3>2. PICK q, r : /\ q = at[next - 1] /\ Hearing(q)
                      /\ r = at[Len(out.sent)] /\ Follows(r)
      BY <3>1
    <3>3. Follows(r)'
      BY <2>1, <3>2 DEF Follows, Interrupted, Exact, Partial, Carrying, txState
    <3>4. said' = said /\ out' = out
      BY <2>1 DEF txState
    <3>5. Hearing(q)'
      BY <2>1, <3>2, <3>4 DEF Hearing
    <3>6. Good(at, out'.sent, said')
      BY <3>1, <3>4
    <3>. QED BY <2>1, <3>2, <3>3, <3>4, <3>5, <3>6 DEF HeardInv
  <2>. QED BY <1>1, <1>5, <2>1, <2>2 DEF WholeInv, LineOK
<1>. QED BY <1>3, <1>4, <1>6, <1>7, <1>8 DEF Next, Ask, Pump, Arrive, Retune

LEMMA WholeHolds == ASSUME SpareEnough PROVE Spec => []WholeInv
<1>1. Init => WholeInv
  BY WholeInit
<1>2. WholeInv /\ [Next]_vars => WholeInv'
  BY WholeStep
<1>. QED BY <1>1, <1>2, PTL DEF Spec

(* HeardAsSaid of T38Term: whatever the network loses, up to what each       *)
(* datagram repeats, and however it doubles and reorders, the receiving      *)
(* engine is called as on a perfect line, up to some moment, and has been    *)
(* told everything when the last datagram is in and the sender idle.         *)
THEOREM HeardAsSaidCorrect == ASSUME SpareEnough PROVE Spec => []HeardAsSaid
<1>1. WholeInv => HeardAsSaid
  <2>. SUFFICES ASSUME WholeInv PROVE HeardAsSaid
    OBVIOUS
  <2>1. PICK at : Good(at, out.sent, said) /\ Follows(at[Len(out.sent)]) /\ Hearing(at[next - 1])
    BY DEF WholeInv, HeardInv
  <2>2. SenderOK /\ Received /\ SenderInv(out)
    BY DEF WholeInv, LineOK, TransportInv
  <2>3. said \in Seq(Calls) /\ heard \in Seq(Calls) /\ Extends(heard, said)
    BY <2>1, <2>2, SaidCalls DEF SenderOK, SaidInv, Hearing
  <2>4. IsPrefix(heard, said)
    <3>1. Len(heard) \in Nat /\ Len(said) \in Nat /\ Len(heard) <= Len(said)
      BY <2>3, SMT DEF Extends
    <3>2. SubSeq(heard, 1, Len(heard)) = SubSeq(said, 1, Len(heard))
      <4>1. \A i \in 1..Len(heard) : heard[i] = said[i]
        BY <2>3 DEF Extends
      <4>. QED BY <2>3, <3>1, <4>1, SMT
    <3>. QED BY <3>1, <3>2 DEF IsPrefix
  <2>5. ASSUME rx_on, next > Len(out.sent), tx_phase = "TX_IDLE" PROVE heard = said
    <3>1. next - 1 = Len(out.sent)
      <4>1. next \in 1..(Len(out.sent) + 1) /\ Len(out.sent) \in Nat
        BY <2>2 DEF Received, SenderInv
      <4>. QED BY <2>5, <4>1, SMT
    <3>2. said = at[Len(out.sent)].heard
      BY <2>1, <2>5 DEF Follows, Interrupted, Exact
    <3>. QED BY <2>1, <2>5, <3>1, <3>2 DEF Hearing
  <2>. QED BY <2>4, <2>5 DEF HeardAsSaid
<1>. QED BY <1>1, WholeHolds, PTL

(* FramesWhole of T38Term, which fails when the engine retunes in the middle *)
(* of a frame: while it does not, a frame handed up as good is one that was  *)
(* sent, and whole.                                                          *)
THEOREM FramesWholeCorrect == ASSUME SpareEnough PROVE Spec => []FramesWhole
<1>1. WholeInv => FramesWhole
  <2>. SUFFICES ASSUME WholeInv, NEW i \in 1..Len(heard), heard[i].call = "FRAME"
                PROVE  \E b \in 1..Bursts, f \in 1..Frames : heard[i].p = Frame(b, f)
    BY DEF FramesWhole
  <2>1. said \in Seq(Noises) /\ heard \in Seq(Calls) /\ Extends(heard, said)
    <3>1. said \in Seq(Noises)
      BY DEF WholeInv, LineOK, SenderOK, SaidInv
    <3>2. heard \in Seq(Calls) /\ Extends(heard, said)
      BY DEF WholeInv, HeardInv, Hearing
    <3>. QED BY <3>1, <3>2
  <2>2. heard[i] = said[i] /\ i \in 1..Len(said)
    BY <2>1, SMT DEF Extends
  <2>3. said[i] \in Noises
    BY <2>1, <2>2
  <2>4. said[i] # Event("UP") /\ said[i] # Event("DOWN")
    BY <2>2 DEF Event
  <2>5. \A p : said[i] # DataEvent(p)
    BY <2>2 DEF DataEvent
  <2>6. PICK b \in 1..Bursts, f \in 1..Frames : said[i] = FrameEvent(Frame(b, f))
    <3>. DEFINE frames == {FrameEvent(Frame(b, f)) : b \in 1..Bursts, f \in 1..Frames}
                datas == {DataEvent(<<b, 0, k>>) : b \in 1..Bursts, k \in 0..Chunks}
    <3>1. said[i] \in frames \/ said[i] \in datas
      BY <2>3, <2>4 DEF Noises
    <3>2. said[i] \notin datas
      <4>1. ASSUME NEW e \in datas PROVE \E p : e = DataEvent(p)
        <5>1. PICK b \in 1..Bursts, k \in 0..Chunks : e = DataEvent(<<b, 0, k>>)
          OBVIOUS
        <5>. QED BY <5>1
      <4>. HIDE DEF datas
      <4>. QED BY <2>5, <4>1
    <3>3. ASSUME NEW e \in frames PROVE \E b \in 1..Bursts, f \in 1..Frames : e = FrameEvent(Frame(b, f))
      OBVIOUS
    <3>. HIDE DEF frames, datas
    <3>. QED BY <3>1, <3>2, <3>3
  <2>. QED BY <2>2, <2>6 DEF FrameEvent
<1>. QED BY <1>1, WholeHolds, PTL

(* TypeOK of T38Term; the frame being received never holds more than a frame *)
(* is sent in, although only its end empties it.                             *)
THEOREM TypeCorrect == ASSUME SpareEnough PROVE Spec => []TypeOK
<1>1. WholeInv => TypeOK
  <2>. SUFFICES ASSUME WholeInv PROVE TypeOK
    OBVIOUS
  <2>1. PhaseInv /\ Received /\ SenderInv(out) /\ rx_seq_no \in 0..(SEQ - 1)
    BY DEF WholeInv, LineOK, SenderOK, TransportInv
  <2>2. PICK at : Good(at, out.sent, said) /\ Hearing(at[next - 1])
    BY DEF WholeInv, HeardInv
  <2>3. Len(rx_hdlc) <= Chunks
    <3>1. next - 1 \in 0..Len(out.sent)
      BY <2>1, SMT DEF Received, SenderInv
    <3>. QED BY <2>2, <3>1 DEF Good, Hearing
  <2>4. {completed, rx_carrier, rx_is_fast, rx_on, rx_started} \subseteq BOOLEAN
    BY <2>1, <2>2 DEF PhaseInv, Received, Hearing
  <2>5. out.tx_seq_no = Len(out.sent)
    BY <2>1 DEF SenderInv
  <2>6. /\ tx_phase \in Phases /\ tx_next_phase \in {"TX_IDLE", "TX_NONECM", "TX_HDLC_DATA"}
        /\ burst \in Requests /\ asked \in 0..Bursts /\ frame \in 0..Frames /\ chunk \in 0..Chunks
        /\ tx_ind_left \in 0..(Repeats - 1)
    BY <2>1 DEF PhaseInv
  <2>. QED BY <2>1, <2>3, <2>4, <2>5, <2>6 DEF TypeOK, Phases
<1>. QED BY <1>1, WholeHolds, PTL
=============================================================================
