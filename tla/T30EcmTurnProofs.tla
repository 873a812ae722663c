-------------------------- MODULE T30EcmTurnProofs --------------------------
(***************************************************************************)
(* What error correction mode delivers, proved of T30Ecm for every         *)
(* document, ladder, limit and kind of call, while no timer races an       *)
(* answer. MCF, PPR, CTR and ERR carry no number; the invariant says why   *)
(* each is still taken for the answer to what it answers: there is one     *)
(* turn, and it is in one place.                                           *)
(***************************************************************************)
EXTENDS T30EcmProofs

-----------------------------------------------------------------------------
(* The invariant. *)

Block == 0..(FramesIn(cur_page, ecm_block) - 1)
Octets == <<cur_page % OCTET, ecm_block % OCTET>>
Fcf2 == IF at_page_end THEN next_tx_step ELSE "NULL"
PageSoFar(p, n) == [b \in 1..n |-> BlockData(p, b - 1)]

(* The messages the caller may have on the line.                            *)
IsBurst(x) ==
  /\ cst \in {"C_SEND_PPS", "C_WAIT_PPS_RESP"}
  /\ x.m = "BURST" /\ x.page = cur_page /\ x.block = ecm_block
  /\ x.kept \subseteq ecm_send /\ x.row = fallback

IsCommand(x) ==
  \/ /\ cst = "C_WAIT_PPS_RESP" /\ x.m = "PPS" /\ x.fcf2 = Fcf2
     /\ <<x.page, x.block>> = Octets
     /\ x.frames = (IF ecm_burst = 0 THEN 1 ELSE ecm_burst)
  \/ cst = "C_WAIT_CTR" /\ x.m = "CTC" /\ x.dcs = FB[fallback].dcs
  \/ cst = "C_WAIT_EOR" /\ x.m = "EOR"
  \/ cst = "ST_DONE" /\ cresult = "OK" /\ x.m = "DCN"

AsksInv ==
  \/ c2a = <<>>
  \/ Len(c2a) = 1 /\ (IsBurst(c2a[1]) \/ IsCommand(c2a[1]))
  \/ Len(c2a) = 2 /\ IsBurst(c2a[1]) /\ IsCommand(c2a[2])

(* The block being sent is open: the answerer is at it, holds frames of it  *)
(* only, and lacks none of it but what the caller still has to send.        *)
FramesOpen ==
  /\ \A i \in FrameNo : ecm_data[i] # NoFrame =>
       i \in Block /\ ecm_data[i] = <<cur_page, ecm_block, i>>
  /\ \A i \in Block : ecm_data[i] = NoFrame => i \in ecm_send

(* The block's size is known to the answerer, or told by the first PPS.     *)
SizeOpen ==
  \/ ecm_frames = FramesIn(cur_page, ecm_block)
  \/ /\ ecm_frames = -1
     /\ ecm_send = Block
     /\ cst \in {"C_SEND_PPS", "C_WAIT_PPS_RESP"} =>
          ecm_burst = FramesIn(cur_page, ecm_block)

Open ==
  /\ pages_tx = cur_page /\ Len(pages) = cur_page
  /\ rxbuf = PageSoFar(cur_page, ecm_block)
  /\ acked # Octets
  /\ FramesOpen
  /\ SizeOpen
  /\ ast \notin {"A_WAIT_DCN", "A_SEND_ECM_MCF", "A_REACK"}

(* It is closed: the answerer has all of it, the caller does not know.      *)
Closed ==
  /\ pages_tx = cur_page
  /\ acked = Octets /\ ecm_data = NoFrames /\ ecm_frames = -1
  /\ IF at_page_end /\ ast # "A_SEND_ECM_MCF"
     THEN Len(pages) = cur_page + 1 /\ rxbuf = <<>>
     ELSE Len(pages) = cur_page /\ rxbuf = PageSoFar(cur_page, ecm_block + 1)
  /\ ast = "A_SEND_ECM_MCF" => last_pps_fcf2 = Fcf2
  /\ ast = "A_WAIT_DCN" \/ (ast = "A_REACK" /\ reack_return = "A_WAIT_DCN") => Fcf2 = "EOP"
  /\ ast \notin {"A_SEND_PPR", "A_SEND_CTR", "A_SEND_ERR", "A_WAIT_PPS"}
  /\ c2a # <<>> => c2a[1].m # "BURST"

BlockInv ==
  /\ cst \in {"C_SEND_ECM", "C_SEND_CTC", "C_WAIT_CTR"} => Open
  /\ cst \in {"C_SEND_PPS", "C_WAIT_PPS_RESP"} => Open \/ Closed
  /\ cst \in {"C_SEND_EOR", "C_WAIT_EOR"} => pages_tx = cur_page /\ Len(pages) = cur_page
  /\ cst = "C_SEND_DCN" \/ cresult = "OK" => pages_tx = Len(Doc) /\ Len(pages) = Len(Doc)
  /\ cst = "ST_DONE" => PagesConfirmed

(* An answer on the line, or about to be sent, is that to the last command. *)
Missing == {i \in FrameNo : ecm_data[i] = NoFrame}

IsAnswer(x) ==
  \/ cst = "C_WAIT_PPS_RESP" /\ x.m = "MCF" /\ Closed
  \/ cst = "C_WAIT_PPS_RESP" /\ x.m = "PPR" /\ Open /\ ecm_frames # -1 /\ x.missing = Missing
  \/ cst = "C_WAIT_CTR" /\ x.m = "CTR" /\ rfallback = fallback
  \/ cst = "C_WAIT_EOR" /\ x.m = "ERR"

AnswersInv ==
  /\ a2c # <<>> =>
       /\ Len(a2c) = 1 /\ IsAnswer(a2c[1])
       /\ c2a = <<>> /\ ast \notin AnswererSending
  /\ ast \in AnswererSending => Quiet /\ ~atimer
  /\ ast = "A_SEND_PPR" => cst = "C_WAIT_PPS_RESP" /\ Open /\ ecm_frames # -1
  /\ ast \in {"A_SEND_ECM_MCF", "A_REACK"} => cst = "C_WAIT_PPS_RESP" /\ Closed
  /\ ast = "A_SEND_CTR" => cst = "C_WAIT_CTR" /\ rfallback = fallback
  /\ ast = "A_SEND_ERR" => cst = "C_WAIT_EOR"

RowInv ==
  cst \in {"C_SEND_ECM", "C_SEND_PPS", "C_WAIT_PPS_RESP"} => rfallback = fallback

PagesInv ==
  /\ pages \in Seq({PageData(p) : p \in 0..LastPage})
  /\ PagesIntact

DeliveryInv == AsksInv /\ BlockInv /\ AnswersInv /\ RowInv /\ PagesInv

Inv == TypeInv /\ SuccessInv /\ DeliveryInv

-----------------------------------------------------------------------------
(* Queues of at most two messages. *)
LEMMA NotEmpty ==
  ASSUME NEW q, Len(q) = 1 \/ Len(q) = 2
  PROVE  q # <<>>
<1>1. Len(<<>>) = 0
  BY EmptySeq
<1>2. 1 # 0 /\ 2 # 0
  OBVIOUS
<1>. QED BY <1>1, <1>2, Zenon

LEMMA SendFirst ==
  ASSUME NEW m, NEW q, q = <<>>, NEW q2, q2 \in {q, Append(q, m)}
  PROVE  q2 = <<>> \/ (Len(q2) = 1 /\ q2[1] = m /\ q2 # <<>>)
BY SMT

LEMMA Appended ==
  ASSUME NEW M, NEW q \in Seq(M), NEW m \in M
  PROVE  /\ Len(Append(q, m)) = Len(q) + 1
         /\ \A i \in 1..Len(q) : Append(q, m)[i] = q[i]
         /\ Append(q, m)[Len(q) + 1] = m
BY AppendProperties

LEMMA SendSecond ==
  ASSUME NEW M, NEW q \in Seq(M), Len(q) = 1, NEW m \in M, NEW q2, q2 \in {q, Append(q, m)}
  PROVE  q2 = q \/ (Len(q2) = 2 /\ q2[1] = q[1] /\ q2[2] = m /\ q2 # <<>>)
<1>. DEFINE n == Len(q)
            t == Append(q, m)
<1>0. /\ Len(Append(q, m)) = Len(q) + 1
      /\ \A i \in 1..Len(q) : Append(q, m)[i] = q[i]
      /\ Append(q, m)[Len(q) + 1] = m
  BY Appended, Zenon
<1>1. Len(t) = n + 1 /\ t[n + 1] = m /\ \A i \in 1..n : t[i] = q[i]
  BY <1>0, Zenon
<1>2. n = 1
  OBVIOUS
<1>. HIDE DEF n
<1>3. 1 \in 1..n /\ n + 1 = 2
  BY <1>2
<1>4. Len(t) = 2 /\ t[2] = m /\ t[1] = q[1]
  BY <1>1, <1>3, Zenon
<1>5. t # <<>>
  BY <1>4, NotEmpty
<1>. QED BY <1>4, <1>5, Zenon

LEMMA TakeFirst ==
  ASSUME NEW M, NEW q \in Seq(M), Len(q) = 1
  PROVE  q # <<>> /\ Head(q) = q[1] /\ Tail(q) = <<>>
<1>1. q # <<>>
  BY EmptySeq
<1>2. Tail(q) \in Seq(M) /\ Len(Tail(q)) = 0
  BY <1>1, HeadTailProperties
<1>3. Tail(q) = <<>>
  BY <1>2, EmptySeq
<1>. QED BY <1>1, <1>3, SMT

LEMMA TakeSecond ==
  ASSUME NEW M, NEW q \in Seq(M), Len(q) = 2
  PROVE  /\ q # <<>> /\ Head(q) = q[1]
         /\ Tail(q) # <<>> /\ Len(Tail(q)) = 1 /\ Tail(q)[1] = q[2]
<1>. DEFINE t == Tail(q)
            n == Len(t)
<1>1. q # <<>>
  BY EmptySeq
<1>2. n = 1 /\ \A i \in 1..n : t[i] = q[i + 1]
  BY <1>1, HeadTailProperties
<1>3. t # <<>>
  BY <1>2, NotEmpty
<1>. HIDE DEF n
<1>4. 1 \in 1..n /\ 1 + 1 = 2
  BY <1>2
<1>5. t[1] = q[2]
  BY <1>2, <1>4, Zenon
<1>6. Head(q) = q[1]
  BY <1>1, SMT
<1>. QED BY <1>1, <1>2, <1>3, <1>5, <1>6, Zenon DEF n

(* One is no multiple of a greater number. *)
LEMMA OneNoMultiple ==
  ASSUME NEW r \in Int, NEW w \in Nat, w > 1
  PROVE  r * w # 1
<1>1. CASE r >= 1
  <2>1. r * w = (r - 1) * w + w /\ (r - 1) * w >= 0
    BY <1>1, SMT
  <2>. QED BY <2>1, SMT
<1>2. CASE r <= 0
  <2>1. r * w = -((-r) * w) /\ (-r) * w >= 0
    BY <1>2, SMT
  <2>. QED BY <2>1, SMT
<1>. QED BY <1>1, <1>2, SMT

(* The octets of a PPS tell a block from the next one of the page, and from  *)
(* the first of the next page: neighbouring numbers differ even as octets.   *)
LEMMA NextOctet ==
  ASSUME NEW n \in Nat
  PROVE  (n + 1) % OCTET # n % OCTET
<1>. DEFINE w == OCTET
            a == n % w
            b == (n + 1) % w
            p == n \div w
            q == (n + 1) \div w
<1>1. w \in Nat /\ w > 1
  BY Limits
<1>2. p \in Int /\ q \in Int /\ n = p * w + a /\ n + 1 = q * w + b
  BY <1>1, SMT
<1>3. a \in 0..(w - 1) /\ b \in 0..(w - 1)
  BY <1>1, SMT
<1>. HIDE DEF w, a, b, p, q
<1>4. SUFFICES ASSUME a = b PROVE FALSE
  BY DEF a, b, w
<1>5. (q - p) * w = q * w - p * w /\ q - p \in Int /\ p * w \in Int /\ q * w \in Int
  BY <1>1, <1>2, SMT
<1>6. (q - p) * w = 1
  BY <1>2, <1>3, <1>4, <1>5, SMT
<1>. QED BY <1>1, <1>5, <1>6, OneNoMultiple

(* A page grows by the block that completes it. *)
LEMMA PageGrows ==
  ASSUME NEW p \in Nat, NEW n \in Nat
  PROVE  Append(PageSoFar(p, n), BlockData(p, n)) = PageSoFar(p, n + 1)
BY SMT DEF PageSoFar

LEMMA PageDone ==
  ASSUME NEW p \in 0..LastPage
  PROVE  PageSoFar(p, Blocks(p)) = PageData(p)
BY DEF PageSoFar, PageData

(* The first burst of a block carries all its frames. *)
LEMMA WholeBlock ==
  ASSUME NEW n \in Nat
  PROVE  Cardinality(0..(n - 1)) = n
BY FS_Interval, SMT

(* What the kind of the message at the head of the line says of the rest of  *)
(* it.                                                                       *)
LEMMA HeadBurst ==
  ASSUME TypeInv, DeliveryInv, c2a # <<>>, Head(c2a).m = "BURST"
  PROVE  /\ IsBurst(Head(c2a)) /\ Open /\ a2c = <<>> /\ ast \notin AnswererSending
         /\ Tail(c2a) # <<>> => Len(Tail(c2a)) = 1 /\ IsCommand(Tail(c2a)[1])
<1>1. c2a \in Seq(ToAnswererMsg)
  BY DEF TypeInv, TypeOK, LineTypeOK
<1>2. /\ a2c = <<>> /\ ast \notin AnswererSending
  BY DEF DeliveryInv, AnswersInv, Quiet
<1>3. IsBurst(Head(c2a)) /\ (Tail(c2a) # <<>> => Len(Tail(c2a)) = 1 /\ IsCommand(Tail(c2a)[1]))
  <2>1. CASE Len(c2a) = 1 /\ (IsBurst(c2a[1]) \/ IsCommand(c2a[1]))
    BY <1>1, <2>1, TakeFirst DEF IsCommand
  <2>2. CASE Len(c2a) = 2 /\ IsBurst(c2a[1]) /\ IsCommand(c2a[2])
    BY <1>1, <2>2, TakeSecond
  <2>. QED BY <2>1, <2>2 DEF DeliveryInv, AsksInv
<1>4. Head(c2a) = c2a[1]
  BY <1>1, HeadTailProperties
<1>5. Open
  BY <1>3, <1>4 DEF DeliveryInv, BlockInv, Closed, IsBurst
<1>. QED BY <1>2, <1>3, <1>5

LEMMA HeadCommand ==
  ASSUME TypeInv, DeliveryInv, c2a # <<>>, Head(c2a).m # "BURST"
  PROVE  /\ IsCommand(Head(c2a)) /\ Tail(c2a) = <<>>
         /\ a2c = <<>> /\ ast \notin AnswererSending
<1>1. c2a \in Seq(ToAnswererMsg)
  BY DEF TypeInv, TypeOK, LineTypeOK
<1>2. /\ a2c = <<>> /\ ast \notin AnswererSending
  BY DEF DeliveryInv, AnswersInv, Quiet
<1>3. IsCommand(Head(c2a)) /\ Tail(c2a) = <<>>
  <2>1. CASE Len(c2a) = 1 /\ (IsBurst(c2a[1]) \/ IsCommand(c2a[1]))
    BY <1>1, <2>1, TakeFirst DEF IsBurst
  <2>2. CASE Len(c2a) = 2 /\ IsBurst(c2a[1]) /\ IsCommand(c2a[2])
    BY <1>1, <2>2, TakeSecond DEF IsBurst
  <2>. QED BY <2>1, <2>2 DEF DeliveryInv, AsksInv
<1>. QED BY <1>2, <1>3

LEMMA HeadAnswer ==
  ASSUME TypeInv, DeliveryInv, a2c # <<>>
  PROVE  /\ IsAnswer(Head(a2c)) /\ Tail(a2c) = <<>>
         /\ c2a = <<>> /\ ast \notin AnswererSending
<1>1. a2c \in Seq(ToCallerMsg)
  BY DEF TypeInv, TypeOK, LineTypeOK
<1>2. Head(a2c) = a2c[1] /\ Tail(a2c) = <<>>
  BY <1>1, TakeFirst DEF DeliveryInv, AnswersInv
<1>. QED BY <1>2 DEF DeliveryInv, AnswersInv

-----------------------------------------------------------------------------
(* The pages and the block are where they were when a step leaves alone what *)
(* says so.                                                                  *)
LEMMA PagesKept ==
  ASSUME DeliveryInv, UNCHANGED pages
  PROVE  PagesInv'
BY DEF DeliveryInv, PagesInv, PagesIntact

LEMMA BlockHere ==
  ASSUME TypeInv
  PROVE  /\ cur_page \in 0..LastPage /\ cur_page \in Nat
         /\ ecm_block \in 0..(Blocks(cur_page) - 1) /\ ecm_block \in Nat
         /\ Blocks(cur_page) \in Nat
         /\ FramesIn(cur_page, ecm_block) \in 1..FRAMES
         /\ FramesIn(cur_page, ecm_block) \in Nat
         /\ Block \subseteq FrameNo
<1>1. CallerTypeOK
  BY DEF TypeInv, TypeOK
<1>2. /\ cur_page \in 0..LastPage /\ ecm_block \in 0..(Blocks(cur_page) - 1)
  BY <1>1 DEF CallerTypeOK
<1>3. /\ Blocks(cur_page) \in Nat /\ FramesIn(cur_page, ecm_block) \in 1..FRAMES
      /\ LastPage \in Nat
  BY <1>2, DocFacts
<1>. DEFINE n == FramesIn(cur_page, ecm_block)
<1>. HIDE DEF n
<1>4. n \in 1..FRAMES /\ FRAMES \in Nat
  BY <1>3, Limits DEF n
<1>5. 0..(n - 1) \subseteq FrameNo
  BY <1>4, SMT DEF FrameNo
<1>6. n \in Nat
  BY <1>4, SMT
<1>. QED BY <1>2, <1>3, <1>5, <1>6, SMT DEF Block, n

(* Open and Closed survive a step that leaves alone what they are about. *)
LEMMA OpenKept ==
  ASSUME Open,
         UNCHANGED <<cur_page, ecm_block, ecm_send, pages_tx, pages, rxbuf, acked, ecm_data,
                     ecm_frames>>,
         ecm_burst' = ecm_burst /\ (cst' \in {"C_SEND_PPS", "C_WAIT_PPS_RESP"} =>
                                      cst \in {"C_SEND_PPS", "C_WAIT_PPS_RESP"}),
         ast' \notin {"A_WAIT_DCN", "A_SEND_ECM_MCF", "A_REACK"}
  PROVE  Open'
<1>1. FramesOpen'
  BY DEF Open, FramesOpen, Block
<1>2. SizeOpen'
  BY DEF Open, SizeOpen, Block
<1>. QED BY <1>1, <1>2 DEF Open, Octets

LEMMA ClosedKept ==
  ASSUME Closed,
         UNCHANGED <<cur_page, ecm_block, pages_tx, pages, rxbuf, acked, ecm_data, ecm_frames,
                     ast, last_pps_fcf2, reack_return>>,
         c2a' # <<>> => c2a'[1].m # "BURST"
  PROVE  Closed'
BY DEF Closed, Octets, Fcf2, at_page_end, next_tx_step

-----------------------------------------------------------------------------
(* What the caller does. *)

LEMMA SendBlockStep ==
  ASSUME Inv, SendBlock
  PROVE  DeliveryInv'
<1>. USE DEF Inv
<1>1. /\ cst = "C_SEND_ECM" /\ cst' = "C_SEND_PPS" /\ cresult = "NONE" /\ cresult' = "NONE"
      /\ UNCHANGED <<cur_page, ecm_block, ecm_send, fallback, pages_tx, answererVars, a2c>>
      /\ ecm_burst' = Cardinality(ecm_send)
  BY DEF SendBlock, SuccessInv
<1>2. /\ c2a = <<>> /\ a2c = <<>> /\ ast \notin AnswererSending /\ Open
      /\ rfallback = fallback
  BY <1>1 DEF DeliveryInv, AsksInv, IsBurst, IsCommand, AnswersInv, IsAnswer, BlockInv, RowInv,
              AnswererSending
<1>3. AsksInv'
  <2>1. PICK kept \in SUBSET ecm_send, down \in BOOLEAN :
          c2a' = IF kept = {} /\ ~down THEN c2a
                 ELSE Append(c2a, [m |-> "BURST", page |-> cur_page, block |-> ecm_block,
                                   kept |-> kept, down |-> down, row |-> fallback])
    BY DEF SendBlock
  <2>. DEFINE x == [m |-> "BURST", page |-> cur_page, block |-> ecm_block,
                    kept |-> kept, down |-> down, row |-> fallback]
  <2>2. c2a' = <<>> \/ (Len(c2a') = 1 /\ c2a'[1] = x)
    <3>. HIDE DEF x
    <3>. QED BY <1>2, <2>1, SendFirst DEF x
  <2>3. /\ x.m = "BURST" /\ x.page = cur_page /\ x.block = ecm_block
        /\ x.kept = kept /\ x.row = fallback
    OBVIOUS
  <2>. HIDE DEF x
  <2>4. ASSUME c2a' # <<>> PROVE IsBurst(c2a[1])'
    BY <1>1, <2>2, <2>3, <2>4 DEF IsBurst
  <2>. QED BY <2>2, <2>4 DEF AsksInv
<1>4. Open'
  <2>1. FramesOpen'
    BY <1>1, <1>2 DEF Open, FramesOpen, Block, answererVars
  <2>2. SizeOpen'
    <3>1. Cardinality(Block) = FramesIn(cur_page, ecm_block)
      BY BlockHere, WholeBlock DEF Block
    <3>. QED BY <1>1, <1>2, <3>1 DEF Open, SizeOpen, Block, answererVars
  <2>. QED BY <1>1, <1>2, <2>1, <2>2 DEF Open, Octets, answererVars
<1>5. BlockInv'
  BY <1>1, <1>4 DEF BlockInv
<1>6. AnswersInv'
  BY <1>1, <1>2 DEF AnswersInv, AnswererSending, answererVars
<1>7. RowInv' /\ PagesInv'
  BY <1>1, <1>2, PagesKept DEF RowInv, answererVars
<1>. QED BY <1>3, <1>5, <1>6, <1>7 DEF DeliveryInv

LEMMA SendPpsStep ==
  ASSUME Inv, SendPps
  PROVE  DeliveryInv'
<1>. USE DEF Inv
<1>1. /\ cst = "C_SEND_PPS" /\ cst' = "C_WAIT_PPS_RESP" /\ cresult = "NONE" /\ cresult' = "NONE"
      /\ UNCHANGED <<cur_page, ecm_block, ecm_send, ecm_burst, fallback, pages_tx,
                     answererVars, a2c>>
  BY DEF SendPps, SuccessInv
<1>2. /\ a2c = <<>> /\ ast \notin AnswererSending /\ rfallback = fallback
      /\ c2a = <<>> \/ (Len(c2a) = 1 /\ IsBurst(c2a[1]))
  BY <1>1 DEF DeliveryInv, AsksInv, IsCommand, IsBurst, AnswersInv, IsAnswer, RowInv,
              AnswererSending
<1>. DEFINE x == [m |-> "PPS", fcf2 |-> IF at_page_end THEN next_tx_step ELSE "NULL",
                  page |-> cur_page % OCTET, block |-> ecm_block % OCTET,
                  frames |-> IF ecm_burst = 0 THEN 1 ELSE ecm_burst]
<1>3. /\ x \in ToAnswererMsg /\ x.m = "PPS" /\ x.fcf2 = Fcf2 /\ <<x.page, x.block>> = Octets
      /\ x.frames = (IF ecm_burst = 0 THEN 1 ELSE ecm_burst)
  BY PpsSent DEF TypeInv, TypeOK, Fcf2, Octets
<1>4. c2a' \in {c2a, Append(c2a, x)} /\ c2a \in Seq(ToAnswererMsg)
  BY DEF SendPps, ToAnswerer, TypeInv, TypeOK, LineTypeOK
<1>. HIDE DEF x
<1>5. \/ c2a' = c2a
      \/ c2a = <<>> /\ Len(c2a') = 1 /\ c2a'[1] = x /\ c2a' # <<>>
      \/ /\ c2a # <<>> /\ Len(c2a') = 2 /\ c2a'[1] = c2a[1] /\ c2a'[2] = x /\ c2a' # <<>>
         /\ IsBurst(c2a[1])
  <2>1. CASE c2a = <<>>
    BY <1>4, <2>1, SendFirst
  <2>2. CASE Len(c2a) = 1 /\ IsBurst(c2a[1])
    <3>1. c2a # <<>>
      BY <2>2, NotEmpty
    <3>. QED BY <1>3, <1>4, <2>2, <3>1, SendSecond
  <2>. QED BY <1>2, <2>1, <2>2
<1>6. AsksInv'
  <2>1. CASE c2a' = c2a
    BY <1>1, <1>2, <2>1 DEF AsksInv, IsBurst
  <2>2. CASE c2a = <<>> /\ Len(c2a') = 1 /\ c2a'[1] = x
    BY <1>1, <1>3, <2>2 DEF AsksInv, IsCommand, Octets, Fcf2, at_page_end, next_tx_step
  <2>3. CASE Len(c2a') = 2 /\ c2a'[1] = c2a[1] /\ c2a'[2] = x /\ IsBurst(c2a[1])
    <3>1. IsBurst(c2a[1])'
      BY <1>1, <2>3 DEF IsBurst
    <3>2. IsCommand(c2a[2])'
      BY <1>1, <1>3, <2>3 DEF IsCommand, Octets, Fcf2, at_page_end, next_tx_step
    <3>. QED BY <2>3, <3>1, <3>2 DEF AsksInv
  <2>. QED BY <1>5, <2>1, <2>2, <2>3
<1>7. Open' \/ Closed'
  <2>1. CASE Open
    BY <1>1, <2>1, OpenKept DEF Open, answererVars
  <2>2. CASE Closed
    <3>1. c2a' # <<>> => c2a'[1].m # "BURST"
      BY <1>3, <1>5, <2>2 DEF Closed
    <3>. QED BY <1>1, <2>2, <3>1, ClosedKept DEF answererVars
  <2>. QED BY <1>1, <2>1, <2>2 DEF DeliveryInv, BlockInv
<1>8. BlockInv'
  BY <1>1, <1>7 DEF BlockInv
<1>9. AnswersInv'
  BY <1>1, <1>2 DEF AnswersInv, AnswererSending, answererVars
<1>10. RowInv' /\ PagesInv'
  BY <1>1, <1>2, PagesKept DEF RowInv, answererVars
<1>. QED BY <1>6, <1>8, <1>9, <1>10 DEF DeliveryInv

LEMMA SendCtcStep ==
  ASSUME Inv, SendCtc
  PROVE  DeliveryInv'
<1>. USE DEF Inv
<1>1. /\ cst = "C_SEND_CTC" /\ cst' = "C_WAIT_CTR" /\ cresult = "NONE" /\ cresult' = "NONE"
      /\ UNCHANGED <<cur_page, ecm_block, ecm_send, ecm_burst, fallback, pages_tx,
                     answererVars, a2c>>
  BY DEF SendCtc, SuccessInv
<1>2. /\ c2a = <<>> /\ a2c = <<>> /\ ast \notin AnswererSending /\ Open
  BY <1>1 DEF DeliveryInv, AsksInv, IsBurst, IsCommand, AnswersInv, IsAnswer, BlockInv,
              AnswererSending
<1>3. AsksInv'
  <2>. DEFINE x == [m |-> "CTC", dcs |-> FB[fallback].dcs]
  <2>1. x.m = "CTC" /\ x.dcs = FB[fallback].dcs /\ c2a' \in {c2a, Append(c2a, x)}
    BY DEF SendCtc, ToAnswerer
  <2>. HIDE DEF x
  <2>2. c2a' = <<>> \/ (Len(c2a') = 1 /\ c2a'[1] = x)
    BY <1>2, <2>1, SendFirst
  <2>. QED BY <1>1, <2>1, <2>2 DEF AsksInv, IsCommand
<1>4. Open'
  BY <1>1, <1>2, OpenKept DEF Open, answererVars
<1>5. BlockInv' /\ AnswersInv'
  BY <1>1, <1>2, <1>4 DEF BlockInv, AnswersInv, AnswererSending, answererVars
<1>6. RowInv' /\ PagesInv'
  BY <1>1, PagesKept DEF RowInv, answererVars
<1>. QED BY <1>3, <1>5, <1>6 DEF DeliveryInv

LEMMA SendEorStep ==
  ASSUME Inv, SendEor
  PROVE  DeliveryInv'
<1>. USE DEF Inv
<1>1. /\ cst = "C_SEND_EOR" /\ cst' = "C_WAIT_EOR" /\ cresult = "NONE" /\ cresult' = "NONE"
      /\ UNCHANGED <<cur_page, pages_tx, answererVars, a2c>>
  BY DEF SendEor, SuccessInv
<1>2. /\ c2a = <<>> /\ a2c = <<>> /\ ast \notin AnswererSending
      /\ pages_tx = cur_page /\ Len(pages) = cur_page
  BY <1>1 DEF DeliveryInv, AsksInv, IsBurst, IsCommand, AnswersInv, IsAnswer, BlockInv,
              AnswererSending
<1>3. AsksInv'
  <2>. DEFINE x == [m |-> "EOR"]
  <2>1. x.m = "EOR" /\ c2a' \in {c2a, Append(c2a, x)}
    BY DEF SendEor, ToAnswerer
  <2>. HIDE DEF x
  <2>2. c2a' = <<>> \/ (Len(c2a') = 1 /\ c2a'[1] = x)
    BY <1>2, <2>1, SendFirst
  <2>. QED BY <1>1, <2>1, <2>2 DEF AsksInv, IsCommand
<1>4. BlockInv' /\ AnswersInv'
  BY <1>1, <1>2 DEF BlockInv, AnswersInv, AnswererSending, answererVars
<1>5. RowInv' /\ PagesInv'
  BY <1>1, PagesKept DEF RowInv, answererVars
<1>. QED BY <1>3, <1>4, <1>5 DEF DeliveryInv

LEMMA SendDcnStep ==
  ASSUME Inv, SendDcn
  PROVE  DeliveryInv'
<1>. USE DEF Inv
<1>1. /\ cst = "C_SEND_DCN" /\ cst' = "ST_DONE" /\ cresult' = "OK"
      /\ UNCHANGED <<cur_page, pages_tx, answererVars, a2c>>
  BY DEF SendDcn, CallerFinish
<1>2. /\ c2a = <<>> /\ a2c = <<>> /\ ast \notin AnswererSending
      /\ pages_tx = Len(Doc) /\ Len(pages) = Len(Doc)
  BY <1>1 DEF DeliveryInv, AsksInv, IsBurst, IsCommand, AnswersInv, IsAnswer, BlockInv,
              AnswererSending
<1>3. AsksInv'
  <2>. DEFINE x == [m |-> "DCN"]
  <2>1. x.m = "DCN" /\ c2a' \in {c2a, Append(c2a, x)}
    BY DEF SendDcn, ToAnswerer
  <2>. HIDE DEF x
  <2>2. c2a' = <<>> \/ (Len(c2a') = 1 /\ c2a'[1] = x)
    BY <1>2, <2>1, SendFirst
  <2>. QED BY <1>1, <2>1, <2>2 DEF AsksInv, IsCommand
<1>4. PagesConfirmed'
  BY <1>1, <1>2, DocFacts DEF PagesConfirmed, answererVars
<1>5. BlockInv' /\ AnswersInv'
  BY <1>1, <1>2, <1>4 DEF BlockInv, AnswersInv, AnswererSending, answererVars
<1>6. RowInv' /\ PagesInv'
  BY <1>1, PagesKept DEF RowInv, answererVars
<1>. QED BY <1>3, <1>5, <1>6 DEF DeliveryInv

(* What the caller knows when it hears an answer. *)
LEMMA Answered ==
  ASSUME Inv, NEW kind, CallerTakes(kind)
  PROVE  /\ IsAnswer(Head(a2c)) /\ Head(a2c).m = kind
         /\ c2a' = <<>> /\ a2c' = <<>> /\ ast \notin AnswererSending
         /\ cst # "ST_DONE" /\ cresult = "NONE"
         /\ UNCHANGED answererVars
BY HeadAnswer DEF Inv, CallerTakes, IsAnswer, SuccessInv

(* A step that leaves both queues empty and no answer due.                   *)
LEMMA NothingAsked ==
  ASSUME c2a' = <<>>, a2c' = <<>>, ast' \notin AnswererSending
  PROVE  AsksInv' /\ AnswersInv'
BY DEF AsksInv, AnswersInv, AnswererSending

(* A block just started is open: the answerer has nothing of it.             *)
LEMMA BlockStarted ==
  ASSUME Closed, ast \notin AnswererSending, ast # "A_WAIT_DCN", UNCHANGED answererVars,
         NEW p, NEW b, StartBlock(p, b), pages_tx' = p, Len(pages) = p,
         rxbuf = PageSoFar(p, b), <<p % OCTET, b % OCTET>> # acked
  PROVE  Open'
<1>1. cur_page' = p /\ ecm_block' = b /\ ecm_send' = 0..(FramesIn(p, b) - 1)
      /\ cst' = "C_SEND_ECM"
  BY DEF StartBlock
<1>2. FramesOpen'
  BY <1>1 DEF FramesOpen, Block, Closed, NoFrames, answererVars
<1>3. SizeOpen'
  BY <1>1 DEF SizeOpen, Block, Closed, answererVars
<1>. QED BY <1>1, <1>2, <1>3 DEF Open, Octets, AnswererSending, answererVars

LEMMA HearMcfNextBlockStep ==
  ASSUME Inv, HearMcfNextBlock
  PROVE  DeliveryInv'
<1>. USE DEF Inv
<1>1. CallerTakes("MCF") /\ cst = "C_WAIT_PPS_RESP" /\ cst' = "C_SEND_ECM" /\ ~at_page_end
      /\ StartBlock(cur_page, ecm_block + 1) /\ UNCHANGED <<cresult, fallback, pages_tx>>
  BY DEF HearMcfNextBlock, StartBlock
<1>2. /\ Closed /\ c2a' = <<>> /\ a2c' = <<>> /\ ast \notin AnswererSending
      /\ cresult = "NONE" /\ UNCHANGED answererVars /\ rfallback = fallback
  BY <1>1, Answered DEF IsAnswer, DeliveryInv, RowInv
<1>3. Open'
  <2>1. Fcf2 # "EOP"
    BY <1>1 DEF Fcf2
  <2>2. ast # "A_WAIT_DCN" /\ Len(pages) = cur_page /\ rxbuf = PageSoFar(cur_page, ecm_block + 1)
        /\ pages_tx' = cur_page
    BY <1>1, <1>2, <2>1 DEF Closed
  <2>3. (ecm_block + 1) % OCTET # ecm_block % OCTET
    BY BlockHere, NextOctet
  <2>4. <<cur_page % OCTET, (ecm_block + 1) % OCTET>> # acked
    BY <1>2, <2>3 DEF Closed, Octets
  <2>. QED BY <1>1, <1>2, <2>2, <2>4, BlockStarted
<1>4. BlockInv' /\ RowInv'
  BY <1>1, <1>2, <1>3 DEF BlockInv, RowInv, answererVars
<1>. QED BY <1>2, <1>4, NothingAsked, PagesKept DEF DeliveryInv, answererVars

LEMMA HearMcfNextPageStep ==
  ASSUME Inv, HearMcfNextPage
  PROVE  DeliveryInv'
<1>. USE DEF Inv
<1>1. CallerTakes("MCF") /\ cst = "C_WAIT_PPS_RESP" /\ cst' = "C_SEND_ECM" /\ at_page_end
      /\ next_tx_step = "MPS" /\ StartBlock(cur_page + 1, 0) /\ pages_tx' = cur_page + 1
      /\ UNCHANGED <<cresult, fallback>>
  BY DEF HearMcfNextPage, StartBlock
<1>2. /\ Closed /\ c2a' = <<>> /\ a2c' = <<>> /\ ast \notin AnswererSending
      /\ cresult = "NONE" /\ UNCHANGED answererVars /\ rfallback = fallback
  BY <1>1, Answered DEF IsAnswer, DeliveryInv, RowInv
<1>3. Open'
  <2>1. Fcf2 # "EOP"
    BY <1>1 DEF Fcf2
  <2>2. ast # "A_WAIT_DCN" /\ Len(pages) = cur_page + 1 /\ rxbuf = <<>>
    BY <1>1, <1>2, <2>1 DEF Closed, AnswererSending
  <2>3. rxbuf = PageSoFar(cur_page + 1, 0)
    BY <2>2, SMT DEF PageSoFar
  <2>4. (cur_page + 1) % OCTET # cur_page % OCTET
    BY BlockHere, NextOctet
  <2>5. <<(cur_page + 1) % OCTET, 0 % OCTET>> # acked
    BY <1>2, <2>4 DEF Closed, Octets
  <2>. QED BY <1>1, <1>2, <2>2, <2>3, <2>5, BlockStarted
<1>4. BlockInv' /\ RowInv'
  BY <1>1, <1>2, <1>3 DEF BlockInv, RowInv, answererVars
<1>. QED BY <1>2, <1>4, NothingAsked, PagesKept DEF DeliveryInv, answererVars

LEMMA HearMcfLastPageStep ==
  ASSUME Inv, HearMcfLastPage
  PROVE  DeliveryInv'
<1>. USE DEF Inv
<1>1. CallerTakes("MCF") /\ cst = "C_WAIT_PPS_RESP" /\ cst' = "C_SEND_DCN" /\ at_page_end
      /\ next_tx_step = "EOP" /\ pages_tx' = cur_page + 1
      /\ UNCHANGED <<cresult, fallback>>
  BY DEF HearMcfLastPage
<1>2. /\ Closed /\ c2a' = <<>> /\ a2c' = <<>> /\ ast \notin AnswererSending
      /\ cresult = "NONE" /\ UNCHANGED answererVars
  BY <1>1, Answered DEF IsAnswer
<1>3. Len(pages) = Len(Doc) /\ pages_tx' = Len(Doc)
  BY <1>1, <1>2, LastPageCounted DEF Closed, AnswererSending, TypeInv
<1>4. BlockInv' /\ RowInv'
  BY <1>1, <1>2, <1>3 DEF BlockInv, RowInv, answererVars
<1>. QED BY <1>2, <1>4, NothingAsked, PagesKept DEF DeliveryInv, answererVars

(* After a PPR what is left to send is what the answerer lacks.              *)
LEMMA Reduced ==
  ASSUME Inv, CallerTakes("PPR"), cst = "C_WAIT_PPS_RESP", ApplyPpr(Head(a2c).missing),
         cst' \in {"C_SEND_ECM", "C_SEND_CTC"},
         UNCHANGED <<cur_page, ecm_block, pages_tx>>
  PROVE  Open'
<1>1. /\ Open /\ ecm_frames # -1 /\ Head(a2c).missing = Missing
      /\ ast \notin AnswererSending /\ UNCHANGED answererVars
  BY Answered DEF IsAnswer
<1>2. FramesOpen'
  <2>1. ecm_send' = Missing \cap Block
    BY <1>1 DEF ApplyPpr, Block
  <2>2. \A i \in Block : ecm_data[i] = NoFrame => i \in ecm_send'
    BY <2>1, BlockHere DEF Missing, Inv
  <2>. QED BY <1>1, <2>2 DEF Open, FramesOpen, Block, answererVars
<1>3. SizeOpen'
  BY <1>1 DEF Open, SizeOpen, answererVars
<1>. QED BY <1>1, <1>2, <1>3 DEF Open, Octets, answererVars

LEMMA HearPprStep ==
  ASSUME Inv, HearPprResend \/ HearPprStepDown
  PROVE  DeliveryInv'
<1>. USE DEF Inv
<1>1. CallerTakes("PPR") /\ cst = "C_WAIT_PPS_RESP" /\ ApplyPpr(Head(a2c).missing)
      /\ \/ cst' = "C_SEND_ECM" /\ fallback' = fallback
         \/ cst' = "C_SEND_CTC"
      /\ UNCHANGED <<cresult, cur_page, ecm_block, pages_tx>>
  BY DEF HearPprResend, HearPprStepDown
<1>2. /\ c2a' = <<>> /\ a2c' = <<>> /\ ast \notin AnswererSending
      /\ cresult = "NONE" /\ UNCHANGED answererVars /\ rfallback = fallback
  BY <1>1, Answered DEF DeliveryInv, RowInv
<1>3. Open'
  BY <1>1, Reduced
<1>4. BlockInv' /\ RowInv'
  BY <1>1, <1>2, <1>3 DEF BlockInv, RowInv, answererVars
<1>. QED BY <1>2, <1>4, NothingAsked, PagesKept DEF DeliveryInv, answererVars

LEMMA HearPprEndStep ==
  ASSUME Inv, HearPprGiveUp \/ HearPprFailV34
  PROVE  DeliveryInv'
<1>. USE DEF Inv
<1>1. CallerTakes("PPR") /\ cst = "C_WAIT_PPS_RESP"
      /\ \/ cst' = "C_SEND_EOR" /\ cresult' = cresult
         \/ cst' = "ST_DONE" /\ cresult' = "GENERAL"
      /\ UNCHANGED <<cur_page, pages_tx>>
  BY DEF HearPprGiveUp, HearPprFailV34, CallerFinish
<1>2. /\ c2a' = <<>> /\ a2c' = <<>> /\ ast \notin AnswererSending
      /\ cresult = "NONE" /\ UNCHANGED answererVars
      /\ pages_tx = cur_page /\ Len(pages) = cur_page
  BY <1>1, Answered DEF IsAnswer, Open
<1>3. PagesConfirmed'
  BY <1>1, <1>2, BlockHere, SMT DEF PagesConfirmed, answererVars
<1>4. BlockInv' /\ RowInv'
  BY <1>1, <1>2, <1>3 DEF BlockInv, RowInv, answererVars
<1>. QED BY <1>2, <1>4, NothingAsked, PagesKept DEF DeliveryInv, answererVars

LEMMA HearCtrStep ==
  ASSUME Inv, HearCtr
  PROVE  DeliveryInv'
<1>. USE DEF Inv
<1>1. CallerTakes("CTR") /\ cst = "C_WAIT_CTR" /\ cst' = "C_SEND_ECM"
      /\ UNCHANGED <<cresult, cur_page, ecm_block, ecm_send, ecm_burst, fallback, pages_tx>>
  BY DEF HearCtr
<1>2. /\ c2a' = <<>> /\ a2c' = <<>> /\ ast \notin AnswererSending
      /\ cresult = "NONE" /\ UNCHANGED answererVars /\ rfallback = fallback
  BY <1>1, Answered DEF IsAnswer
<1>3. Open
  BY <1>1 DEF DeliveryInv, BlockInv
<1>4. Open'
  BY <1>1, <1>2, <1>3, OpenKept DEF Open, answererVars
<1>5. BlockInv' /\ RowInv'
  BY <1>1, <1>2, <1>4 DEF BlockInv, RowInv, answererVars
<1>. QED BY <1>2, <1>5, NothingAsked, PagesKept DEF DeliveryInv, answererVars

LEMMA HearErrStep ==
  ASSUME Inv, HearErr
  PROVE  DeliveryInv'
<1>. USE DEF Inv
<1>1. CallerTakes("ERR") /\ cst = "C_WAIT_EOR" /\ cst' = "ST_DONE" /\ cresult' = "GENERAL"
      /\ UNCHANGED <<cur_page, pages_tx>>
  BY DEF HearErr, CallerFinish
<1>2. /\ c2a' = <<>> /\ a2c' = <<>> /\ ast \notin AnswererSending /\ UNCHANGED answererVars
      /\ pages_tx = cur_page /\ Len(pages) = cur_page
  BY <1>1, Answered DEF DeliveryInv, BlockInv
<1>3. PagesConfirmed'
  BY <1>1, <1>2, BlockHere, SMT DEF PagesConfirmed, answererVars
<1>4. BlockInv' /\ RowInv'
  BY <1>1, <1>2, <1>3 DEF BlockInv, RowInv, answererVars
<1>. QED BY <1>2, <1>4, NothingAsked, PagesKept DEF DeliveryInv, answererVars

(* While no timer races an answer, no other message reaches the caller.      *)
LEMMA NothingIgnored ==
  ASSUME Inv, CallerIgnores
  PROVE  FALSE
<1>1. IsAnswer(Head(a2c))
  BY HeadAnswer DEF Inv, CallerIgnores
<1>. QED BY <1>1 DEF IsAnswer, CallerIgnores, CallerAnswers

LEMMA ExpireRepeatStep ==
  ASSUME Inv, ~Racing, ExpireRepeatPps \/ ExpireRepeatCtc
  PROVE  DeliveryInv'
<1>. USE DEF Inv
<1>1. /\ c2a = <<>> /\ a2c = <<>> /\ ast \notin AnswererSending
      /\ \/ cst = "C_WAIT_PPS_RESP" /\ cst' = "C_SEND_PPS"
         \/ cst = "C_WAIT_CTR" /\ cst' = "C_SEND_CTC"
      /\ UNCHANGED <<cresult, cur_page, ecm_block, ecm_send, ecm_burst, fallback, pages_tx,
                     answererVars, c2a, a2c>>
  BY DEF ExpireRepeatPps, ExpireRepeatCtc, CallerMayExpire, Quiet
<1>2. cresult = "NONE" /\ cresult' = "NONE"
  BY <1>1 DEF SuccessInv
<1>3. CASE Open
  BY <1>1, <1>2, <1>3, OpenKept, NothingAsked, PagesKept
  DEF Open, BlockInv, DeliveryInv, RowInv, answererVars
<1>4. CASE Closed /\ cst = "C_WAIT_PPS_RESP"
  BY <1>1, <1>2, <1>4, ClosedKept, NothingAsked, PagesKept
  DEF BlockInv, DeliveryInv, RowInv, answererVars
<1>. QED BY <1>1, <1>3, <1>4 DEF DeliveryInv, BlockInv

LEMMA ExpireCallerStep ==
  ASSUME Inv, ~Racing, ExpireCaller
  PROVE  DeliveryInv'
<1>. USE DEF Inv
<1>1. /\ c2a = <<>> /\ a2c = <<>> /\ ast \notin AnswererSending
      /\ cst \in CallerWaiting /\ cst' = "ST_DONE" /\ cresult' = "TIMEOUT"
      /\ UNCHANGED <<cur_page, pages_tx, answererVars, c2a, a2c>>
  BY DEF ExpireCaller, CallerMayExpire, Quiet, SuccessInv, CallerFinish
<1>2. pages_tx = cur_page /\ (Len(pages) = cur_page \/ Len(pages) = cur_page + 1)
  BY <1>1 DEF CallerWaiting, DeliveryInv, BlockInv, Open, Closed
<1>3. PagesConfirmed'
  BY <1>1, <1>2, BlockHere, SMT DEF PagesConfirmed, answererVars
<1>. QED BY <1>1, <1>3, NothingAsked, PagesKept DEF BlockInv, DeliveryInv, RowInv, answererVars

-----------------------------------------------------------------------------
(* What the answerer does. *)

(* The end of what a command says: taken, nothing else is on the line.       *)
LEMMA Commanded ==
  ASSUME Inv, NEW kind, kind # "BURST", AnswererTakes(kind)
  PROVE  /\ IsCommand(Head(c2a)) /\ Head(c2a).m = kind
         /\ c2a' = <<>> /\ a2c = <<>> /\ a2c' = <<>> /\ ast \notin AnswererSending
         /\ UNCHANGED callerVars
BY HeadCommand DEF Inv, AnswererTakes

(* Neither of the two ways to take a burst sends anything.                   *)
LEMMA BurstTaken ==
  ASSUME Inv, AnswererTakes("BURST")
  PROVE  /\ IsBurst(Head(c2a)) /\ Open /\ a2c' = <<>> /\ ast \notin AnswererSending
         /\ UNCHANGED callerVars /\ AsksInv'
<1>1. /\ IsBurst(Head(c2a)) /\ Open /\ a2c = <<>> /\ ast \notin AnswererSending
      /\ Tail(c2a) # <<>> => Len(Tail(c2a)) = 1 /\ IsCommand(Tail(c2a)[1])
      /\ c2a' = Tail(c2a) /\ UNCHANGED <<callerVars, a2c>>
  BY HeadBurst DEF Inv, AnswererTakes
<1>2. c2a' # <<>> => Len(c2a') = 1 /\ IsCommand(c2a[1])'
  BY <1>1 DEF IsCommand, Octets, Fcf2, at_page_end, next_tx_step, callerVars
<1>. QED BY <1>1, <1>2 DEF AsksInv

LEMMA HearBlockStep ==
  ASSUME Inv, HearBlock
  PROVE  DeliveryInv'
<1>. USE DEF Inv
<1>1. PICK kept \in SUBSET ecm_send :
        /\ ecm_data' = [i \in FrameNo |-> IF i \in kept THEN <<cur_page, ecm_block, i>>
                                                         ELSE ecm_data[i]]
        /\ ast = "A_RECV_ECM" /\ AnswererTakes("BURST")
        /\ ast' \in {"A_WAIT_PPS", "A_RECV_ECM"}
        /\ UNCHANGED <<ecm_frames, acked, rfallback, rxbuf, pages>>
  <2>1. AnswererTakes("BURST")
    BY DEF HearBlock
  <2>2. Head(c2a).page = cur_page /\ Head(c2a).block = ecm_block
        /\ Head(c2a).kept \in SUBSET ecm_send
    BY <2>1, BurstTaken DEF IsBurst
  <2>3. CASE Audible(Head(c2a))
    BY <2>2, <2>3 DEF HearBlock
  <2>4. CASE ~Audible(Head(c2a))
    <3>1. {} \in SUBSET ecm_send
      OBVIOUS
    <3>2. /\ ecm_data' = [i \in FrameNo |-> IF i \in {} THEN <<cur_page, ecm_block, i>>
                                                         ELSE ecm_data[i]]
          /\ ast' = ast
      BY <2>2, <2>4 DEF HearBlock
    <3>. QED BY <3>1, <3>2 DEF HearBlock
  <2>. QED BY <2>3, <2>4
<1>2. /\ IsBurst(Head(c2a)) /\ Open /\ a2c' = <<>> /\ AsksInv' /\ UNCHANGED callerVars
  BY <1>1, BurstTaken
<1>3. cst \in {"C_SEND_PPS", "C_WAIT_PPS_RESP"}
  BY <1>2 DEF IsBurst
<1>4. FramesOpen'
  <2>1. kept \subseteq Block /\ Block \subseteq FrameNo
    BY BlockHere DEF TypeInv, TypeOK, CallerTypeOK, Block
  <2>2. ASSUME NEW i \in FrameNo, ecm_data'[i] # NoFrame
        PROVE  i \in Block /\ ecm_data'[i] = <<cur_page, ecm_block, i>>
    BY <1>1, <1>2, <2>1, <2>2 DEF Open, FramesOpen
  <2>3. ASSUME NEW i \in Block, ecm_data'[i] = NoFrame
        PROVE  i \in ecm_send
    <3>1. i \in FrameNo /\ cur_page # -1
      BY <2>1, BlockHere
    <3>2. i \notin kept
      BY <1>1, <2>3, <3>1 DEF NoFrame
    <3>. QED BY <1>1, <1>2, <2>3, <3>1, <3>2 DEF Open, FramesOpen
  <2>. QED BY <1>2, <2>2, <2>3 DEF FramesOpen, Block, callerVars
<1>5. SizeOpen'
  BY <1>1, <1>2 DEF Open, SizeOpen, Block, callerVars
<1>6. Open'
  BY <1>1, <1>2, <1>4, <1>5 DEF Open, Octets, callerVars
<1>7. cresult = "NONE"
  BY <1>3 DEF SuccessInv
<1>8. BlockInv'
  BY <1>2, <1>3, <1>6, <1>7 DEF BlockInv, callerVars
<1>9. AnswersInv' /\ RowInv'
  BY <1>1, <1>2 DEF AnswersInv, AnswererSending, RowInv, DeliveryInv, callerVars
<1>. QED BY <1>1, <1>2, <1>8, <1>9, PagesKept DEF DeliveryInv

LEMMA MissBlockStep ==
  ASSUME Inv, MissBlock
  PROVE  DeliveryInv'
<1>. USE DEF Inv
<1>1. /\ AnswererTakes("BURST")
      /\ UNCHANGED <<ast, ecm_data, ecm_frames, acked, rfallback, rxbuf, pages>>
  BY DEF MissBlock
<1>2. /\ IsBurst(Head(c2a)) /\ Open /\ a2c' = <<>> /\ AsksInv' /\ UNCHANGED callerVars
      /\ ast \notin AnswererSending
  BY <1>1, BurstTaken
<1>3. cst \in {"C_SEND_PPS", "C_WAIT_PPS_RESP"} /\ cresult = "NONE"
  BY <1>2 DEF IsBurst, SuccessInv
<1>4. Open'
  BY <1>1, <1>2, OpenKept DEF Open, callerVars
<1>5. BlockInv' /\ AnswersInv' /\ RowInv'
  BY <1>1, <1>2, <1>3, <1>4
  DEF BlockInv, AnswersInv, AnswererSending, RowInv, DeliveryInv, callerVars
<1>. QED BY <1>1, <1>2, <1>5, PagesKept DEF DeliveryInv

(* A PPS is heard only while the caller waits for the answer to it.          *)
LEMMA PpsHeard ==
  ASSUME Inv, AnswererTakes("PPS")
  PROVE  /\ Head(c2a).m = "PPS" /\ cst = "C_WAIT_PPS_RESP" /\ cresult = "NONE"
         /\ Head(c2a).fcf2 = Fcf2 /\ <<Head(c2a).page, Head(c2a).block>> = Octets
         /\ Head(c2a).frames = (IF ecm_burst = 0 THEN 1 ELSE ecm_burst)
         /\ Open \/ Closed
         /\ c2a' = <<>> /\ a2c' = <<>> /\ ast \notin AnswererSending
         /\ rfallback = fallback
         /\ UNCHANGED callerVars
<1>1. /\ IsCommand(Head(c2a)) /\ Head(c2a).m = "PPS"
      /\ c2a' = <<>> /\ a2c' = <<>> /\ ast \notin AnswererSending /\ UNCHANGED callerVars
  BY Commanded
<1>2. cst = "C_WAIT_PPS_RESP"
  BY <1>1 DEF IsCommand
<1>. QED BY <1>1, <1>2 DEF IsCommand, Inv, SuccessInv, DeliveryInv, BlockInv, RowInv

(* The repeated command ends in a repeated answer, to a block that is closed. *)
LEMMA ReackStep ==
  ASSUME Inv, HearRepeatedPps \/ HearPpsAfterEnd
  PROVE  /\ DeliveryInv'
         /\ cst = "C_WAIT_PPS_RESP" /\ acked = Octets /\ a2c = <<>>
<1>. USE DEF Inv
<1>1. /\ AnswererTakes("PPS") /\ ast' = "A_REACK" /\ ~atimer'
      /\ \/ RepeatedPps(Head(c2a)) /\ reack_return' = "A_RECV_ECM"
         \/ ast = "A_WAIT_DCN" /\ reack_return' = "A_WAIT_DCN"
      /\ UNCHANGED <<ecm_data, ecm_frames, acked, last_pps_fcf2, rfallback, rxbuf, pages>>
  BY DEF HearRepeatedPps, HearPpsAfterEnd, Reack
<1>2. /\ cst = "C_WAIT_PPS_RESP" /\ cresult = "NONE" /\ c2a' = <<>> /\ a2c' = <<>>
      /\ ast \notin AnswererSending /\ rfallback = fallback /\ UNCHANGED callerVars
  BY <1>1, PpsHeard
<1>3. Closed
  BY <1>1, PpsHeard DEF Open, RepeatedPps
<1>4. Closed'
  BY <1>1, <1>2, <1>3
  DEF Closed, Octets, Fcf2, at_page_end, next_tx_step, AnswererSending, callerVars
<1>5. BlockInv' /\ AnswersInv' /\ RowInv'
  BY <1>1, <1>2, <1>4 DEF BlockInv, AnswersInv, AnswererSending, Quiet, RowInv, callerVars
<1>6. acked = Octets /\ a2c = <<>>
  BY <1>1, <1>3, Commanded DEF Closed
<1>. QED BY <1>1, <1>2, <1>5, <1>6, PagesKept DEF DeliveryInv, AsksInv

(* The size a PPS gives the block, or an earlier PPS gave it, is its size.    *)
LEMMA SizeKnown ==
  ASSUME Inv, AnswererTakes("PPS"), Open
  PROVE  BlockSize(Head(c2a)) = FramesIn(cur_page, ecm_block)
<1>. DEFINE n == FramesIn(cur_page, ecm_block)
<1>1. n \in Nat /\ n > 0
  BY BlockHere, Limits DEF Inv
<1>2. Head(c2a).frames = (IF ecm_burst = 0 THEN 1 ELSE ecm_burst)
      /\ cst = "C_WAIT_PPS_RESP"
  BY PpsHeard
<1>3. ecm_frames = n \/ (ecm_frames = -1 /\ ecm_burst = n)
  BY <1>2 DEF Open, SizeOpen
<1>. HIDE DEF n
<1>4. BlockSize(Head(c2a)) = n
  BY <1>1, <1>2, <1>3, SMT DEF BlockSize
<1>. QED BY <1>4 DEF n

LEMMA HearPpsCompleteStep ==
  ASSUME Inv, HearPpsComplete
  PROVE  DeliveryInv'
<1>. USE DEF Inv
<1>. DEFINE n == FramesIn(cur_page, ecm_block)
            pps == Head(c2a)
<1>1. /\ AnswererTakes("PPS") /\ ~RepeatedPps(pps) /\ BlockComplete(BlockSize(pps))
      /\ last_pps_fcf2' = pps.fcf2
      /\ rxbuf' = Append(rxbuf, [i \in 1..BlockSize(pps) |-> ecm_data[i - 1]])
      /\ ecm_data' = NoFrames /\ ecm_frames' = -1
      /\ acked' = <<pps.page, pps.block>>
      /\ ast' = "A_SEND_ECM_MCF" /\ ~atimer'
      /\ UNCHANGED <<rfallback, pages>>
  BY DEF HearPpsComplete
<1>2. /\ cst = "C_WAIT_PPS_RESP" /\ cresult = "NONE" /\ c2a' = <<>> /\ a2c' = <<>>
      /\ pps.fcf2 = Fcf2 /\ <<pps.page, pps.block>> = Octets
      /\ rfallback = fallback /\ UNCHANGED callerVars
  BY <1>1, PpsHeard
<1>3. Open
  BY <1>1, <1>2, PpsHeard DEF Closed, RepeatedPps
<1>4. BlockSize(pps) = n
  BY <1>1, <1>3, SizeKnown
<1>5. n \in Nat /\ cur_page \in Nat /\ ecm_block \in Nat /\ Block \subseteq FrameNo
  BY BlockHere
<1>6. \A i \in 0..(n - 1) : ecm_data[i] = <<cur_page, ecm_block, i>>
  BY <1>1, <1>3, <1>4, <1>5 DEF BlockComplete, Open, FramesOpen, Block
<1>7. [i \in 1..n |-> ecm_data[i - 1]] = BlockData(cur_page, ecm_block)
  <2>. HIDE DEF n
  <2>1. \A i \in 1..n : i - 1 \in 0..(n - 1)
    BY <1>5, SMT
  <2>2. \A i \in 1..n : ecm_data[i - 1] = <<cur_page, ecm_block, i - 1>>
    BY <1>6, <2>1
  <2>. QED BY <2>2 DEF BlockData, n
<1>8. rxbuf' = PageSoFar(cur_page, ecm_block + 1)
  BY <1>1, <1>3, <1>4, <1>5, <1>7, PageGrows DEF Open
<1>9. Closed'
  BY <1>1, <1>2, <1>3, <1>8
  DEF Closed, Open, Octets, Fcf2, at_page_end, next_tx_step, callerVars
<1>10. BlockInv' /\ AnswersInv' /\ RowInv'
  BY <1>1, <1>2, <1>9 DEF BlockInv, AnswersInv, AnswererSending, Quiet, RowInv, callerVars
<1>. QED BY <1>1, <1>2, <1>10, PagesKept DEF DeliveryInv, AsksInv

LEMMA HearPpsIncompleteStep ==
  ASSUME Inv, HearPpsIncomplete
  PROVE  DeliveryInv'
<1>. USE DEF Inv
<1>. DEFINE pps == Head(c2a)
<1>1. /\ AnswererTakes("PPS") /\ ~RepeatedPps(pps)
      /\ ecm_frames' = BlockSize(pps)
      /\ ast' = "A_SEND_PPR" /\ ~atimer'
      /\ UNCHANGED <<ecm_data, acked, rfallback, rxbuf, pages>>
  BY DEF HearPpsIncomplete
<1>2. /\ cst = "C_WAIT_PPS_RESP" /\ cresult = "NONE" /\ c2a' = <<>> /\ a2c' = <<>>
      /\ <<pps.page, pps.block>> = Octets
      /\ rfallback = fallback /\ UNCHANGED callerVars
  BY <1>1, PpsHeard
<1>3. Open
  BY <1>1, <1>2, PpsHeard DEF Closed, RepeatedPps
<1>4. ecm_frames' = FramesIn(cur_page, ecm_block)
  BY <1>1, <1>3, SizeKnown
<1>5. FramesOpen' /\ SizeOpen'
  BY <1>1, <1>2, <1>3, <1>4 DEF Open, FramesOpen, SizeOpen, Block, callerVars
<1>6. Open'
  BY <1>1, <1>2, <1>3, <1>5 DEF Open, Octets, callerVars
<1>7. ecm_frames' # -1
  BY <1>4, BlockHere, SMT
<1>8. BlockInv' /\ AnswersInv' /\ RowInv'
  BY <1>1, <1>2, <1>6, <1>7 DEF BlockInv, AnswersInv, AnswererSending, Quiet, RowInv, callerVars
<1>. QED BY <1>1, <1>2, <1>8, PagesKept DEF DeliveryInv, AsksInv

LEMMA HearCtcStep ==
  ASSUME Inv, HearCtc
  PROVE  DeliveryInv'
<1>. USE DEF Inv
<1>1. /\ AnswererTakes("CTC") /\ ast' = "A_SEND_CTR" /\ ~atimer'
      /\ rfallback' = IF FbFromDcs(Head(c2a).dcs) >= 0 THEN FbFromDcs(Head(c2a).dcs)
                      ELSE rfallback
      /\ UNCHANGED <<ecm_data, ecm_frames, acked, rxbuf, pages>>
  BY DEF HearCtc
<1>2. /\ cst = "C_WAIT_CTR" /\ Head(c2a).dcs = FB[fallback].dcs
      /\ c2a' = <<>> /\ a2c' = <<>> /\ UNCHANGED callerVars
  BY <1>1, Commanded DEF IsCommand
<1>3. fallback \in FbIndex /\ fallback >= 0
  BY SMT DEF TypeInv, TypeOK, CallerTypeOK, FbIndex
<1>4. rfallback' = fallback
  BY <1>1, <1>2, <1>3, FbFromDcsInvertsFB
<1>5. Open /\ cresult = "NONE"
  BY <1>2 DEF DeliveryInv, BlockInv, SuccessInv
<1>6. Open'
  BY <1>1, <1>2, <1>5, OpenKept DEF callerVars
<1>7. BlockInv' /\ AnswersInv' /\ RowInv'
  BY <1>1, <1>2, <1>4, <1>5, <1>6
  DEF BlockInv, AnswersInv, AnswererSending, Quiet, RowInv, callerVars
<1>. QED BY <1>1, <1>2, <1>7, PagesKept DEF DeliveryInv, AsksInv

LEMMA HearEorStep ==
  ASSUME Inv, HearEor
  PROVE  DeliveryInv'
<1>. USE DEF Inv
<1>1. /\ AnswererTakes("EOR") /\ ast' = "A_SEND_ERR" /\ ~atimer' /\ UNCHANGED pages
  BY DEF HearEor
<1>2. /\ cst = "C_WAIT_EOR" /\ cresult = "NONE"
      /\ c2a' = <<>> /\ a2c' = <<>> /\ UNCHANGED callerVars
  BY <1>1, Commanded DEF IsCommand, SuccessInv
<1>3. BlockInv' /\ AnswersInv' /\ RowInv'
  BY <1>1, <1>2
  DEF BlockInv, AnswersInv, AnswererSending, Quiet, RowInv, DeliveryInv, callerVars
<1>. QED BY <1>1, <1>2, <1>3, PagesKept DEF DeliveryInv, AsksInv

LEMMA HearDcnStep ==
  ASSUME Inv, HearDcn
  PROVE  DeliveryInv'
<1>. USE DEF Inv
<1>1. /\ AnswererTakes("DCN") /\ ast' = "ST_DONE" /\ UNCHANGED pages
  BY DEF HearDcn, AnswererFinish
<1>2. /\ cst = "ST_DONE" /\ c2a' = <<>> /\ a2c' = <<>> /\ UNCHANGED callerVars
  BY <1>1, Commanded DEF IsCommand
<1>3. BlockInv' /\ RowInv'
  BY <1>1, <1>2 DEF BlockInv, PagesConfirmed, RowInv, DeliveryInv, callerVars
<1>. QED BY <1>1, <1>2, <1>3, NothingAsked, PagesKept DEF DeliveryInv, AnswererSending

LEMMA AnswererIgnoresStep ==
  ASSUME Inv, AnswererIgnores
  PROVE  DeliveryInv'
<1>. USE DEF Inv
<1>. DEFINE kind == Head(c2a).m
<1>1. /\ kind # "BURST" /\ AnswererTakes(kind)
      /\ UNCHANGED <<ast, ecm_data, ecm_frames, acked, last_pps_fcf2, reack_return, rfallback,
                     rxbuf, pages>>
  BY DEF AnswererIgnores
<1>2. /\ IsCommand(Head(c2a)) /\ c2a' = <<>> /\ a2c' = <<>> /\ ast \notin AnswererSending
      /\ UNCHANGED callerVars
  BY <1>1, Commanded
<1>3. Open => Open'
  BY <1>1, <1>2, OpenKept DEF Open, callerVars
<1>4. Closed => Closed'
  BY <1>1, <1>2, ClosedKept DEF callerVars
<1>5. BlockInv' /\ RowInv'
  BY <1>1, <1>2, <1>3, <1>4 DEF BlockInv, PagesConfirmed, RowInv, DeliveryInv, callerVars
<1>. QED BY <1>1, <1>2, <1>5, NothingAsked, PagesKept DEF DeliveryInv

(* What an answer finds when it is sent: both queues empty, so it is alone.  *)
LEMMA AnswerSent ==
  ASSUME Inv, ast \in AnswererSending, NEW x, ToCaller(x)
  PROVE  /\ c2a = <<>> /\ a2c = <<>>
         /\ c2a' = c2a => AsksInv'
         /\ a2c' = <<>> \/ (Len(a2c') = 1 /\ a2c'[1] = x /\ a2c' # <<>>)
<1>1. c2a = <<>> /\ a2c = <<>>
  BY DEF Inv, DeliveryInv, AnswersInv, Quiet
<1>2. a2c' = <<>> \/ (Len(a2c') = 1 /\ a2c'[1] = x /\ a2c' # <<>>)
  BY <1>1, SendFirst DEF ToCaller
<1>. QED BY <1>1, <1>2 DEF AsksInv

LEMMA SendPprStep ==
  ASSUME Inv, SendPpr
  PROVE  DeliveryInv'
<1>. USE DEF Inv
<1>. DEFINE x == [m |-> "PPR", missing |-> {i \in FrameNo : ecm_data[i] = NoFrame}]
<1>1. /\ ast = "A_SEND_PPR" /\ ToCaller(x) /\ ast' = "A_RECV_ECM"
      /\ UNCHANGED <<ecm_data, ecm_frames, acked, rfallback, rxbuf, pages, callerVars, c2a>>
  BY DEF SendPpr, ecm_rx_listen
<1>2. x.m = "PPR" /\ x.missing = Missing
  BY DEF Missing
<1>. HIDE DEF x
<1>3. /\ c2a' = <<>> /\ AsksInv'
      /\ a2c' = <<>> \/ (Len(a2c') = 1 /\ a2c'[1] = x /\ a2c' # <<>>)
  BY <1>1, AnswerSent DEF AnswererSending
<1>4. cst = "C_WAIT_PPS_RESP" /\ Open /\ ecm_frames # -1 /\ cresult = "NONE"
      /\ rfallback = fallback
  BY <1>1 DEF DeliveryInv, AnswersInv, SuccessInv, RowInv
<1>5. Open'
  BY <1>1, <1>4, OpenKept DEF callerVars
<1>6. AnswersInv'
  <2>1. Missing' = Missing
    BY <1>1 DEF Missing
  <2>2. ASSUME a2c' # <<>> PROVE Len(a2c') = 1 /\ IsAnswer(a2c[1])'
    BY <1>1, <1>2, <1>3, <1>4, <1>5, <2>1, <2>2 DEF IsAnswer, callerVars
  <2>. QED BY <1>1, <1>3, <2>2 DEF AnswersInv, AnswererSending
<1>7. BlockInv' /\ RowInv'
  BY <1>1, <1>4, <1>5 DEF BlockInv, RowInv, callerVars
<1>. QED BY <1>1, <1>3, <1>6, <1>7, PagesKept DEF DeliveryInv

LEMMA SendMcfMidPageStep ==
  ASSUME Inv, SendMcfMidPage
  PROVE  DeliveryInv'
<1>. USE DEF Inv
<1>. DEFINE x == [m |-> "MCF"]
<1>1. /\ ast = "A_SEND_ECM_MCF" /\ last_pps_fcf2 = "NULL" /\ ToCaller(x)
      /\ ast' = "A_RECV_ECM"
      /\ UNCHANGED <<ecm_data, ecm_frames, acked, rfallback, rxbuf, pages, callerVars, c2a>>
  BY DEF SendMcfMidPage, ecm_rx_listen
<1>2. x.m = "MCF"
  OBVIOUS
<1>. HIDE DEF x
<1>3. /\ c2a' = <<>> /\ AsksInv'
      /\ a2c' = <<>> \/ (Len(a2c') = 1 /\ a2c'[1] = x /\ a2c' # <<>>)
  BY <1>1, AnswerSent DEF AnswererSending
<1>4. cst = "C_WAIT_PPS_RESP" /\ Closed /\ cresult = "NONE" /\ rfallback = fallback
  BY <1>1 DEF DeliveryInv, AnswersInv, SuccessInv, RowInv
<1>5. ~at_page_end
  BY <1>1, <1>4 DEF Closed, Fcf2, next_tx_step
<1>6. Closed'
  BY <1>1, <1>3, <1>4, <1>5 DEF Closed, Octets, Fcf2, at_page_end, next_tx_step, callerVars
<1>7. AnswersInv'
  BY <1>1, <1>2, <1>3, <1>4, <1>6 DEF AnswersInv, IsAnswer, AnswererSending, callerVars
<1>8. BlockInv' /\ RowInv'
  BY <1>1, <1>4, <1>6 DEF BlockInv, RowInv, callerVars
<1>. QED BY <1>1, <1>3, <1>7, <1>8, PagesKept DEF DeliveryInv

(* The page written is the page of its number in the document. *)
LEMMA PageWritten ==
  ASSUME Inv, ast = "A_SEND_ECM_MCF", at_page_end, pages' = Append(pages, rxbuf)
  PROVE  /\ PagesInv' /\ Len(pages') = cur_page + 1 /\ Len(pages) = cur_page
         /\ cur_page \in 0..LastPage /\ rxbuf = PageData(cur_page)
<1>. USE DEF Inv
<1>1. Closed /\ rxbuf = PageSoFar(cur_page, ecm_block + 1) /\ Len(pages) = cur_page
  BY DEF DeliveryInv, AnswersInv, Closed
<1>2. ecm_block + 1 = Blocks(cur_page) /\ cur_page \in 0..LastPage
  BY BlockHere DEF at_page_end
<1>3. rxbuf = PageData(cur_page)
  BY <1>1, <1>2, PageDone
<1>. DEFINE S == {PageData(p) : p \in 0..LastPage}
            n == Len(pages)
            t == Append(pages, rxbuf)
<1>4. pages \in Seq(S) /\ rxbuf \in S /\ \A i \in 1..n : i <= Len(Doc) /\ pages[i] = PageData(i - 1)
  BY <1>2, <1>3 DEF DeliveryInv, PagesInv, PagesIntact
<1>5. /\ n \in 0..LastPage /\ LastPage = Len(Doc) - 1 /\ Len(Doc) \in Nat
      /\ rxbuf = PageData(n) /\ n = cur_page
  BY <1>1, <1>2, <1>3, DocFacts
<1>. HIDE DEF S
<1>6. Len(t) = n + 1 /\ t[n + 1] = rxbuf /\ (\A i \in 1..n : t[i] = pages[i])
  BY <1>4, Appended
<1>7. t \in Seq(S)
  BY <1>4, AppendProperties
<1>. HIDE DEF n, t
<1>8. ASSUME NEW i \in 1..(n + 1)
      PROVE  i <= Len(Doc) /\ t[i] = PageData(i - 1)
  <2>1. CASE i \in 1..n
    BY <1>4, <1>6, <2>1
  <2>2. CASE i = n + 1
    <3>1. i - 1 = n /\ i <= Len(Doc)
      BY <1>5, <2>2
    <3>. QED BY <1>5, <1>6, <2>2, <3>1
  <2>. QED BY <1>5, <1>8, <2>1, <2>2
<1>9. PagesInv'
  <2>1. pages' = t
    BY DEF t
  <2>. QED BY <1>6, <1>7, <1>8, <2>1 DEF PagesInv, PagesIntact, S
<1>. QED BY <1>2, <1>3, <1>5, <1>6, <1>9 DEF n, t

(* The MCF of a page's last block is sent once the page is written.          *)
LEMMA SendMcfPageEndStep ==
  ASSUME Inv, SendMcfNextPage \/ SendMcfLastPage
  PROVE  DeliveryInv'
<1>. USE DEF Inv
<1>. DEFINE x == [m |-> "MCF"]
<1>1. /\ ast = "A_SEND_ECM_MCF" /\ ToCaller(x)
      /\ pages' = Append(pages, rxbuf) /\ rxbuf' = <<>>
      /\ \/ last_pps_fcf2 = "MPS" /\ ast' = "A_RECV_ECM"
            /\ ecm_data' = NoFrames /\ ecm_frames' = -1
         \/ last_pps_fcf2 = "EOP" /\ ast' = "A_WAIT_DCN"
            /\ ecm_data' = ecm_data /\ ecm_frames' = ecm_frames
      /\ UNCHANGED <<acked, rfallback, callerVars, c2a>>
  BY DEF SendMcfNextPage, SendMcfLastPage, ecm_rx_listen, ecm_rx_begin_page
<1>2. x.m = "MCF"
  OBVIOUS
<1>. HIDE DEF x
<1>3. /\ c2a' = <<>> /\ AsksInv'
      /\ a2c' = <<>> \/ (Len(a2c') = 1 /\ a2c'[1] = x /\ a2c' # <<>>)
  BY <1>1, AnswerSent DEF AnswererSending
<1>4. cst = "C_WAIT_PPS_RESP" /\ Closed /\ cresult = "NONE" /\ rfallback = fallback
  BY <1>1 DEF DeliveryInv, AnswersInv, SuccessInv, RowInv
<1>5. at_page_end /\ last_pps_fcf2 = Fcf2
  BY <1>1, <1>4 DEF Closed, Fcf2
<1>6. PagesInv' /\ Len(pages') = cur_page + 1
  BY <1>1, <1>5, PageWritten
<1>7. Closed'
  BY <1>1, <1>3, <1>4, <1>5, <1>6 DEF Closed, Octets, Fcf2, at_page_end, next_tx_step, callerVars
<1>8. AnswersInv'
  BY <1>1, <1>2, <1>3, <1>4, <1>7 DEF AnswersInv, IsAnswer, AnswererSending, callerVars
<1>9. BlockInv' /\ RowInv'
  BY <1>1, <1>4, <1>7 DEF BlockInv, RowInv, callerVars
<1>. QED BY <1>3, <1>6, <1>8, <1>9 DEF DeliveryInv

LEMMA SendReackStep ==
  ASSUME Inv, SendReack
  PROVE  DeliveryInv'
<1>. USE DEF Inv
<1>. DEFINE x == [m |-> "MCF"]
<1>1. /\ ast = "A_REACK" /\ ToCaller(x) /\ ast' = reack_return
      /\ UNCHANGED <<ecm_data, ecm_frames, acked, reack_return, rfallback, rxbuf, pages,
                     callerVars, c2a>>
  BY DEF SendReack
<1>2. x.m = "MCF"
  OBVIOUS
<1>. HIDE DEF x
<1>3. /\ c2a' = <<>> /\ AsksInv'
      /\ a2c' = <<>> \/ (Len(a2c') = 1 /\ a2c'[1] = x /\ a2c' # <<>>)
  BY <1>1, AnswerSent DEF AnswererSending
<1>4. cst = "C_WAIT_PPS_RESP" /\ Closed /\ cresult = "NONE" /\ rfallback = fallback
  BY <1>1 DEF DeliveryInv, AnswersInv, SuccessInv, RowInv
<1>5. reack_return \in {"A_RECV_ECM", "A_WAIT_DCN"}
  BY DEF TypeInv, TypeOK, AnswererTypeOK
<1>6. Closed'
  BY <1>1, <1>3, <1>4, <1>5 DEF Closed, Octets, Fcf2, at_page_end, next_tx_step, callerVars
<1>7. AnswersInv'
  BY <1>1, <1>2, <1>3, <1>4, <1>5, <1>6 DEF AnswersInv, IsAnswer, AnswererSending, callerVars
<1>8. BlockInv' /\ RowInv'
  BY <1>1, <1>4, <1>6 DEF BlockInv, RowInv, callerVars
<1>. QED BY <1>1, <1>3, <1>7, <1>8, PagesKept DEF DeliveryInv

LEMMA SendCtrStep ==
  ASSUME Inv, SendCtr
  PROVE  DeliveryInv'
<1>. USE DEF Inv
<1>. DEFINE x == [m |-> "CTR"]
<1>1. /\ ast = "A_SEND_CTR" /\ ToCaller(x) /\ ast' = "A_RECV_ECM"
      /\ UNCHANGED <<ecm_data, ecm_frames, acked, rfallback, rxbuf, pages, callerVars, c2a>>
  BY DEF SendCtr, ecm_rx_listen
<1>2. x.m = "CTR"
  OBVIOUS
<1>. HIDE DEF x
<1>3. /\ c2a' = <<>> /\ AsksInv'
      /\ a2c' = <<>> \/ (Len(a2c') = 1 /\ a2c'[1] = x /\ a2c' # <<>>)
  BY <1>1, AnswerSent DEF AnswererSending
<1>4. cst = "C_WAIT_CTR" /\ Open /\ cresult = "NONE" /\ rfallback = fallback
  BY <1>1 DEF DeliveryInv, AnswersInv, SuccessInv, BlockInv
<1>5. Open'
  BY <1>1, <1>4, OpenKept DEF callerVars
<1>6. AnswersInv'
  BY <1>1, <1>2, <1>3, <1>4 DEF AnswersInv, IsAnswer, AnswererSending, callerVars
<1>7. BlockInv' /\ RowInv'
  BY <1>1, <1>4, <1>5 DEF BlockInv, RowInv, callerVars
<1>. QED BY <1>1, <1>3, <1>6, <1>7, PagesKept DEF DeliveryInv

LEMMA SendErrStep ==
  ASSUME Inv, SendErr
  PROVE  DeliveryInv'
<1>. USE DEF Inv
<1>. DEFINE x == [m |-> "ERR"]
<1>1. /\ ast = "A_SEND_ERR" /\ ToCaller(x) /\ ast' = "A_WAIT_PPS"
      /\ UNCHANGED <<rfallback, pages, callerVars, c2a>>
  BY DEF SendErr
<1>2. x.m = "ERR"
  OBVIOUS
<1>. HIDE DEF x
<1>3. /\ c2a' = <<>> /\ AsksInv'
      /\ a2c' = <<>> \/ (Len(a2c') = 1 /\ a2c'[1] = x /\ a2c' # <<>>)
  BY <1>1, AnswerSent DEF AnswererSending
<1>4. cst = "C_WAIT_EOR" /\ cresult = "NONE"
  BY <1>1 DEF DeliveryInv, AnswersInv, SuccessInv
<1>5. AnswersInv'
  BY <1>1, <1>2, <1>3, <1>4 DEF AnswersInv, IsAnswer, AnswererSending, callerVars
<1>6. BlockInv' /\ RowInv'
  BY <1>1, <1>4 DEF BlockInv, RowInv, DeliveryInv, callerVars
<1>. QED BY <1>1, <1>3, <1>5, <1>6, PagesKept DEF DeliveryInv

LEMMA ExpireAnswererStep ==
  ASSUME Inv, ~Racing, ExpireAnswerer
  PROVE  DeliveryInv'
<1>. USE DEF Inv
<1>1. /\ atimer /\ c2a = <<>> /\ a2c = <<>> /\ ast' = "ST_DONE"
      /\ UNCHANGED <<ecm_data, ecm_frames, acked, rfallback, rxbuf, pages, callerVars, c2a, a2c>>
  BY DEF ExpireAnswerer, AnswererMayExpire, Quiet, AnswererFinish
<1>2. ast \notin AnswererSending
  BY <1>1 DEF DeliveryInv, AnswersInv
<1>3. Open => Open'
  BY <1>1, OpenKept DEF callerVars
<1>4. Closed => Closed'
  BY <1>1, <1>2 DEF Closed, Octets, Fcf2, at_page_end, next_tx_step, AnswererSending, callerVars
<1>5. BlockInv' /\ RowInv'
  BY <1>1, <1>3, <1>4 DEF BlockInv, PagesConfirmed, RowInv, DeliveryInv, callerVars
<1>. QED BY <1>1, <1>5, NothingAsked, PagesKept DEF DeliveryInv, AnswererSending

-----------------------------------------------------------------------------
(* The invariant holds of every call in which no timer races an answer. *)

LEMMA InvInit == Init => Inv
<1>. SUFFICES ASSUME Init PROVE Inv
  OBVIOUS
<1>1. TypeInv /\ SuccessInv
  BY TypeInvInit DEF Init, SuccessInv, DcnQueued
<1>2. /\ cst = "C_SEND_ECM" /\ cresult = "NONE" /\ cur_page = 0 /\ ecm_block = 0 /\ pages_tx = 0
      /\ ast = "A_RECV_ECM" /\ ecm_data = NoFrames /\ ecm_frames = -1 /\ acked = <<-1, -1>>
      /\ rfallback = fallback /\ rxbuf = <<>> /\ pages = <<>> /\ c2a = <<>> /\ a2c = <<>>
      /\ ecm_send = 0..(FramesIn(0, 0) - 1)
  BY DEF Init, NotAcked
<1>3. Open
  <2>1. FramesOpen /\ SizeOpen
    BY <1>2 DEF FramesOpen, SizeOpen, Block, NoFrames
  <2>2. rxbuf = PageSoFar(0, 0)
    BY <1>2, SMT DEF PageSoFar
  <2>3. 0 % OCTET # -1
    BY ModRange, SMT
  <2>4. acked # Octets
    BY <1>2, <2>3 DEF Octets
  <2>. QED BY <1>2, <2>1, <2>2, <2>4 DEF Open
<1>4. BlockInv /\ AsksInv /\ AnswersInv /\ RowInv
  BY <1>2, <1>3 DEF BlockInv, AsksInv, AnswersInv, AnswererSending, RowInv
<1>5. PagesInv
  BY <1>2, EmptySeq DEF PagesInv, PagesIntact
<1>. QED BY <1>1, <1>4, <1>5 DEF Inv, DeliveryInv

LEMMA DeliveryStep ==
  ASSUME Inv, ~Racing, Next
  PROVE  DeliveryInv'
<1>1. CASE CallerSends
  BY <1>1, SendBlockStep, SendPpsStep, SendCtcStep, SendEorStep, SendDcnStep DEF CallerSends
<1>2. CASE CallerHears
  BY <1>2, HearMcfNextBlockStep, HearMcfNextPageStep, HearMcfLastPageStep, HearPprStep,
     HearPprEndStep, HearCtrStep, HearErrStep, NothingIgnored DEF CallerHears
<1>3. CASE CallerExpires
  BY <1>3, ExpireRepeatStep, ExpireCallerStep DEF CallerExpires
<1>4. CASE AnswererHears
  BY <1>4, HearBlockStep, MissBlockStep, ReackStep, HearPpsCompleteStep,
     HearPpsIncompleteStep, HearCtcStep, HearEorStep, HearDcnStep, AnswererIgnoresStep
  DEF AnswererHears
<1>5. CASE AnswererSends
  BY <1>5, SendPprStep, SendMcfMidPageStep, SendMcfPageEndStep, SendCtrStep, SendErrStep,
     SendReackStep DEF AnswererSends
<1>6. CASE AnswererExpires
  BY <1>6, ExpireAnswererStep DEF AnswererExpires
<1>. QED BY <1>1, <1>2, <1>3, <1>4, <1>5, <1>6 DEF Next

LEMMA DeliveryStutter ==
  ASSUME Inv, UNCHANGED vars
  PROVE  DeliveryInv'
<1>1. UNCHANGED <<callerVars, answererVars, c2a, a2c>>
  BY DEF vars
<1>2. Open => Open'
  BY <1>1, OpenKept DEF Open, callerVars, answererVars
<1>3. Closed => Closed'
  BY <1>1, ClosedKept DEF Closed, callerVars, answererVars
<1>4. BlockInv' /\ RowInv'
  BY <1>1, <1>2, <1>3
  DEF Inv, BlockInv, PagesConfirmed, RowInv, DeliveryInv, callerVars, answererVars
<1>5. AsksInv'
  BY <1>1 DEF Inv, DeliveryInv, AsksInv, IsBurst, IsCommand, Octets, Fcf2, at_page_end,
              next_tx_step, callerVars
<1>6. AnswersInv'
  BY <1>1, <1>2, <1>3
  DEF Inv, DeliveryInv, AnswersInv, IsAnswer, Missing, Quiet, callerVars, answererVars
<1>. QED BY <1>1, <1>4, <1>5, <1>6, PagesKept DEF Inv, DeliveryInv, answererVars

(* The turn of an ECM call is in one place, and the answerer's block agrees  *)
(* with the caller's.                                                        *)
LEMMA Invariant ==
  ASSUME ~Racing
  PROVE  Spec => []Inv
<1>1. Inv /\ [Next]_vars => Inv'
  <2>. SUFFICES ASSUME Inv, [Next]_vars PROVE Inv'
    OBVIOUS
  <2>1. TypeInv'
    <3>1. CASE Next
      BY <3>1, TypeInvCaller, TypeInvAnswerer DEF Inv, Next
    <3>2. CASE UNCHANGED vars
      BY <3>2 DEF Inv, TypeInv, TypeOK, CallerTypeOK, AnswererTypeOK, LineTypeOK,
         PprBelowLimit, vars, callerVars, answererVars, PprCountMax, V34
    <3>. QED BY <3>1, <3>2
  <2>2. SuccessInv'
    <3>1. CASE Next
      BY <2>1, <3>1, SuccessInvCaller, SuccessInvAnswerer DEF Inv, Next
    <3>2. CASE UNCHANGED vars
      BY <3>2 DEF Inv, SuccessInv, DcnQueued, vars, callerVars, answererVars
    <3>. QED BY <3>1, <3>2
  <2>3. DeliveryInv'
    BY DeliveryStep, DeliveryStutter
  <2>. QED BY <2>1, <2>2, <2>3 DEF Inv
<1>. QED BY InvInit, <1>1, PTL DEF Spec

(* Every page the answerer writes is the page of its number in the document, *)
(* each block and frame once and in order, whatever was lost, sent again,    *)
(* acknowledged twice or resumed at a slower rate (ecm_process_pps).         *)
THEOREM PagesIntactCorrect ==
  ASSUME ~Racing
  PROVE  Spec => []PagesIntact
<1>1. Inv => PagesIntact
  BY DEF Inv, DeliveryInv, PagesInv
<1>. QED BY Invariant, <1>1, PTL

(* A page counted in pages_tx has been written, and at most one more has:    *)
(* the MCF the caller hears in C_WAIT_PPS_RESP answers the block it sent,    *)
(* although it names none.                                                   *)
THEOREM PagesConfirmedCorrect ==
  ASSUME ~Racing
  PROVE  Spec => []PagesConfirmed
<1>1. ASSUME Inv PROVE PagesConfirmed
  <2>1. /\ cst \in CallerSending \cup CallerWaiting \cup {"ST_DONE"}
        /\ cur_page \in Nat
    BY <1>1, BlockHere DEF Inv, TypeInv, TypeOK, CallerTypeOK
  <2>2. CASE cst \in {"C_SEND_DCN", "ST_DONE"}
    BY <1>1, <2>2, DocFacts DEF Inv, DeliveryInv, BlockInv, PagesConfirmed
  <2>3. CASE cst \notin {"C_SEND_DCN", "ST_DONE"}
    <3>1. pages_tx = cur_page /\ (Len(pages) = cur_page \/ Len(pages) = cur_page + 1)
      BY <1>1, <2>1, <2>3
      DEF Inv, DeliveryInv, BlockInv, Open, Closed, CallerSending, CallerWaiting
    <3>. QED BY <2>1, <3>1, SMT DEF PagesConfirmed
  <2>. QED BY <2>2, <2>3
<1>. QED BY Invariant, <1>1, PTL

(* NF_T30_OK at the caller means that the answerer's file holds all of the   *)
(* document.                                                                 *)
THEOREM CallerSuccessCorrect ==
  ASSUME ~Racing
  PROVE  Spec => []CallerSuccess
<1>1. Inv => CallerSuccess
  BY DEF Inv, DeliveryInv, BlockInv, CallerSuccess
<1>. QED BY Invariant, <1>1, PTL

(* A burst on its way to a listening answerer is at the modem and rate the   *)
(* answerer is set to, however many CTCs and CTRs were lost before it        *)
(* (ecm_process_ctc).                                                        *)
THEOREM RateAgreedCorrect ==
  ASSUME ~Racing
  PROVE  Spec => []RateAgreed
<1>1. ASSUME Inv PROVE RateAgreed
  <2>. SUFFICES ASSUME c2a # <<>>, Head(c2a).m = "BURST"
                PROVE  Head(c2a).row = rfallback
    BY DEF RateAgreed
  <2>1. IsBurst(Head(c2a))
    BY <1>1, HeadBurst DEF Inv
  <2>. QED BY <1>1, <2>1 DEF Inv, DeliveryInv, RowInv, IsBurst
<1>. QED BY Invariant, <1>1, PTL

(* No frame the answerer lacks is left out of a burst, and it keeps none of  *)
(* another block: ecm_apply_ppr and ecm_send across a CTC agree with what    *)
(* ecm_store_fcd has stored.                                                 *)
THEOREM BurstCoversMissingCorrect ==
  ASSUME ~Racing
  PROVE  Spec => []BurstCoversMissing
<1>1. ASSUME Inv PROVE BurstCoversMissing
  <2>. SUFFICES ASSUME cst = "C_SEND_ECM", NEW i \in Block
                PROVE  IF ecm_data[i] = NoFrame THEN i \in ecm_send
                       ELSE ecm_data[i] = <<cur_page, ecm_block, i>>
    BY DEF BurstCoversMissing, Block
  <2>1. FramesOpen /\ i \in FrameNo
    BY <1>1, BlockHere DEF Inv, DeliveryInv, BlockInv, Open
  <2>. QED BY <2>1 DEF FramesOpen
<1>. QED BY Invariant, <1>1, PTL

LEMMA OnlyReackers ==
  ASSUME Next, ast # "A_REACK", ast' = "A_REACK"
  PROVE  HearRepeatedPps \/ HearPpsAfterEnd
<1>1. CASE CallerSends
  BY <1>1 DEF CallerSends, SendBlock, SendPps, SendCtc, SendEor, SendDcn, answererVars
<1>2. CASE CallerHears
  BY <1>2 DEF CallerHears, HearMcfNextBlock, HearMcfNextPage, HearMcfLastPage, HearPprResend,
     HearPprStepDown, HearPprGiveUp, HearPprFailV34, HearCtr, HearErr, CallerIgnores,
     CallerTakes, answererVars
<1>3. CASE CallerExpires
  BY <1>3 DEF CallerExpires, ExpireRepeatPps, ExpireRepeatCtc, ExpireCaller, answererVars
<1>4. CASE AnswererHears
  BY <1>4 DEF AnswererHears, HearBlock, MissBlock, HearPpsComplete, HearPpsIncomplete, HearCtc,
     HearEor, HearDcn, AnswererIgnores, AnswererFinish
<1>5. CASE AnswererSends
  BY <1>5 DEF AnswererSends, SendPpr, SendMcfMidPage, SendMcfNextPage, SendMcfLastPage,
     SendCtr, SendErr, SendReack, ecm_rx_listen
<1>6. CASE AnswererExpires
  BY <1>6 DEF AnswererExpires, ExpireAnswerer, AnswererFinish
<1>. QED BY <1>1, <1>2, <1>3, <1>4, <1>5, <1>6 DEF Next

(* "The sender missed our MCF" (ecm_process_pps): the answerer repeats an    *)
(* MCF only to a caller that sends or waits on the PPS of the very block     *)
(* last acknowledged, and to which no MCF is on its way.                     *)
THEOREM RepeatMeansMissedCorrect ==
  ASSUME ~Racing
  PROVE  Spec => RepeatMeansMissed
<1>1. ASSUME Inv, [Next]_vars
      PROVE  [ast' = "A_REACK" /\ ast # "A_REACK" =>
                /\ cst \in {"C_SEND_PPS", "C_WAIT_PPS_RESP"}
                /\ <<cur_page % OCTET, ecm_block % OCTET>> = acked
                /\ \A i \in 1..Len(a2c) : a2c[i].m # "MCF"]_vars
  <2>. SUFFICES ASSUME Next, ast' = "A_REACK", ast # "A_REACK"
                PROVE  /\ cst \in {"C_SEND_PPS", "C_WAIT_PPS_RESP"}
                       /\ <<cur_page % OCTET, ecm_block % OCTET>> = acked
                       /\ \A i \in 1..Len(a2c) : a2c[i].m # "MCF"
    BY <1>1
  <2>1. cst = "C_WAIT_PPS_RESP" /\ acked = Octets /\ a2c = <<>>
    BY <1>1, OnlyReackers, ReackStep
  <2>. QED BY <2>1 DEF Octets
<1>. QED BY Invariant, <1>1, PTL DEF Spec, RepeatMeansMissed

(* Every step is a step of the abstract page transfer, or none. *)
LEMMA TransferStep ==
  ASSUME Inv, Next
  PROVE  [Transfer!PTNext]_Transfer!ptvars
<1>. USE DEF Inv
<1>. DEFINE D == [p \in 1..Len(Doc) |-> PageData(p - 1)]
<1>1. CASE SendMcfNextPage \/ SendMcfLastPage
  <2>1. /\ ast = "A_SEND_ECM_MCF" /\ last_pps_fcf2 \in {"MPS", "EOP"}
        /\ pages' = Append(pages, rxbuf) /\ pages_tx' = pages_tx
    BY <1>1 DEF SendMcfNextPage, SendMcfLastPage, callerVars
  <2>2. Closed /\ last_pps_fcf2 = Fcf2
    BY <2>1 DEF DeliveryInv, AnswersInv, Closed
  <2>3. at_page_end /\ pages_tx = cur_page
    BY <2>1, <2>2 DEF Fcf2, Closed
  <2>4. Len(pages) = cur_page /\ cur_page \in 0..LastPage /\ rxbuf = PageData(cur_page)
    BY <2>1, <2>3, PageWritten
  <2>. DEFINE n == Len(pages)
  <2>5. n = cur_page /\ LastPage = Len(Doc) - 1 /\ Len(Doc) \in Nat
    BY <2>4, DocFacts
  <2>. HIDE DEF n
  <2>6. n < Len(Doc) /\ n + 1 \in 1..Len(Doc) /\ (n + 1) - 1 = cur_page
    BY <2>4, <2>5
  <2>7. D[n + 1] = rxbuf /\ Len(D) = Len(Doc)
    BY <2>4, <2>5, <2>6
  <2>8. /\ pages_tx = Len(pages) /\ Len(pages) < Len(D)
        /\ pages' = Append(pages, D[Len(pages) + 1]) /\ pages_tx' = pages_tx
    BY <2>1, <2>3, <2>5, <2>6, <2>7 DEF n
  <2>. QED BY <2>8 DEF Transfer!PTNext, Transfer!Write
<1>2. CASE HearMcfNextPage \/ HearMcfLastPage
  <2>1. /\ CallerTakes("MCF") /\ cst = "C_WAIT_PPS_RESP" /\ at_page_end
        /\ pages_tx' = cur_page + 1
    BY <1>2 DEF HearMcfNextPage, HearMcfLastPage
  <2>2. Closed /\ ast # "A_SEND_ECM_MCF" /\ pages' = pages
    BY <2>1, Answered DEF IsAnswer, AnswererSending, answererVars
  <2>3. Len(pages) = cur_page + 1 /\ pages_tx = cur_page /\ cur_page \in Nat
    BY <2>1, <2>2, BlockHere DEF Closed
  <2>4. pages_tx < Len(pages) /\ pages_tx' = pages_tx + 1
    BY <2>1, <2>3, SMT
  <2>. QED BY <2>2, <2>4 DEF Transfer!PTNext, Transfer!Confirm
<1>3. CASE ~(SendMcfNextPage \/ SendMcfLastPage) /\ ~(HearMcfNextPage \/ HearMcfLastPage)
  <2>1. UNCHANGED <<pages, pages_tx>>
    <3>1. CASE CallerSends \/ CallerExpires
      BY <3>1 DEF CallerSends, SendBlock, SendPps, SendCtc, SendEor, SendDcn, CallerExpires,
         ExpireRepeatPps, ExpireRepeatCtc, ExpireCaller, answererVars
    <3>2. CASE CallerHears
      BY <1>3, <3>2 DEF CallerHears, HearMcfNextBlock, HearPprResend, HearPprStepDown,
         HearPprGiveUp, HearPprFailV34, HearCtr, HearErr, CallerIgnores, CallerTakes,
         answererVars
    <3>3. CASE AnswererHears
      BY <3>3 DEF AnswererHears, HearBlock, MissBlock, HearRepeatedPps, HearPpsComplete,
         HearPpsIncomplete, HearCtc, HearEor, HearPpsAfterEnd, HearDcn, AnswererIgnores,
         AnswererTakes, callerVars
    <3>4. CASE AnswererSends \/ AnswererExpires
      BY <1>3, <3>4 DEF AnswererSends, SendPpr, SendMcfMidPage, SendCtr, SendErr, SendReack,
         AnswererExpires, ExpireAnswerer, callerVars
    <3>. QED BY <3>1, <3>2, <3>3, <3>4 DEF Next
  <2>. QED BY <2>1 DEF Transfer!ptvars
<1>. QED BY <1>1, <1>2, <1>3

(* An ECM call implements the abstract page transfer: the answerer writes    *)
(* the pages in order, each once, and the caller counts each after it has    *)
(* been written and before the next one is (ecm_finish_page, pages_tx).      *)
THEOREM DeliversPagesCorrect ==
  ASSUME ~Racing
  PROVE  Spec => DeliversPages
<1>1. Init => Transfer!PTInit
  BY DEF Init, Transfer!PTInit
<1>2. Inv /\ [Next]_vars => [Transfer!PTNext]_Transfer!ptvars
  <2>1. CASE UNCHANGED vars
    BY <2>1 DEF vars, callerVars, answererVars, Transfer!ptvars
  <2>. QED BY <2>1, TransferStep
<1>. QED BY Invariant, <1>1, <1>2, PTL DEF Spec, DeliversPages, Transfer!PTSpec
=============================================================================
