---------------------------- MODULE T30EcmProofs ----------------------------
(***************************************************************************)
(* Theorems about T30Ecm, for every document, ladder, retry limit and kind *)
(* of call, and whether or not timers race with answers (Racing).          *)
(***************************************************************************)
EXTENDS T30Ecm, FaxLadderProofs, FiniteSetTheorems, SequenceTheorems, TLAPS

-----------------------------------------------------------------------------
LEMMA ElementAt ==
  ASSUME NEW S, NEW s \in Seq(S), NEW i \in 0..(Len(s) - 1)
  PROVE  s[i + 1] \in S
BY SMT

(* The document: every page has a block, every block between one frame and  *)
(* FRAMES of them.                                                          *)
LEMMA DocFacts ==
  /\ Len(Doc) \in Nat /\ Len(Doc) > 0
  /\ LastPage \in Nat /\ LastPage = Len(Doc) - 1
  /\ \A p \in 0..LastPage :
       /\ Blocks(p) \in Nat /\ Blocks(p) > 0
       /\ \A b \in 0..(Blocks(p) - 1) : FramesIn(p, b) \in 1..FRAMES
<1>1. Len(Doc) \in Nat /\ Len(Doc) > 0 /\ Doc \in Seq(Seq(1..FRAMES))
  BY EcmAssumption, SMT
<1>2. ASSUME NEW p \in 0..(Len(Doc) - 1)
      PROVE  /\ Blocks(p) \in Nat /\ Blocks(p) > 0
             /\ \A b \in 0..(Blocks(p) - 1) : FramesIn(p, b) \in 1..FRAMES
  <2>1. p + 1 \in 1..Len(Doc)
    BY <1>1, <1>2, SMT
  <2>2. Doc[p + 1] \in Seq(1..FRAMES)
    BY <1>1, <2>1, SMT
  <2>3. Len(Doc[p + 1]) > 0
    BY <2>1, EcmAssumption
  <2>4. \A b \in 0..(Len(Doc[p + 1]) - 1) : Doc[p + 1][b + 1] \in 1..FRAMES
    BY <2>2, ElementAt
  <2>. QED BY <2>2, <2>3, <2>4, SMT DEF Blocks, FramesIn
<1>. QED BY <1>1, <1>2, SMT DEF LastPage

(* A queue of well-formed messages stays one when a message is sent or lost, *)
(* and when its head is taken.                                               *)
LEMMA QueueSend ==
  ASSUME NEW M, NEW q \in Seq(M), NEW m \in M, NEW q2, q2 \in {q, Append(q, m)}
  PROVE  q2 \in Seq(M)
BY SMT

LEMMA QueueTake ==
  ASSUME NEW M, NEW q \in Seq(M), q # <<>>
  PROVE  Head(q) \in M /\ Tail(q) \in Seq(M)
BY SMT

(* The fields of a message follow from its kind. *)
LEMMA BurstFields ==
  ASSUME NEW m \in ToAnswererMsg, m.m = "BURST"
  PROVE  /\ m.page \in Nat /\ m.block \in Nat /\ m.kept \in SUBSET FrameNo
         /\ m.down \in BOOLEAN /\ m.row \in FbIndex
BY DEF ToAnswererMsg

LEMMA PpsFields ==
  ASSUME NEW m \in ToAnswererMsg, m.m = "PPS"
  PROVE  /\ m.fcf2 \in PostMessages /\ m.page \in 0..(OCTET - 1)
         /\ m.block \in 0..(OCTET - 1) /\ m.frames \in 1..FRAMES
BY DEF ToAnswererMsg

LEMMA PprFields ==
  ASSUME NEW m \in ToCallerMsg, m.m = "PPR"
  PROVE  m.missing \in SUBSET FrameNo
BY DEF ToCallerMsg

(* What an engine sends is well formed. *)
LEMMA SentToAnswerer ==
  /\ \A fcf2 \in PostMessages, page, block \in 0..(OCTET - 1), frames \in 1..FRAMES :
       [m |-> "PPS", fcf2 |-> fcf2, page |-> page, block |-> block, frames |-> frames]
         \in ToAnswererMsg
  /\ \A page, block \in Nat, kept \in SUBSET FrameNo, down \in BOOLEAN, row \in FbIndex :
       [m |-> "BURST", page |-> page, block |-> block, kept |-> kept, down |-> down,
        row |-> row] \in ToAnswererMsg
  /\ \A dcs \in SUBSET {3, 4, 6} : [m |-> "CTC", dcs |-> dcs] \in ToAnswererMsg
  /\ [m |-> "EOR"] \in ToAnswererMsg
  /\ [m |-> "DCN"] \in ToAnswererMsg
BY DEF ToAnswererMsg

LEMMA SentToCaller ==
  /\ \A missing \in SUBSET FrameNo : [m |-> "PPR", missing |-> missing] \in ToCallerMsg
  /\ [m |-> "MCF"] \in ToCallerMsg
  /\ [m |-> "CTR"] \in ToCallerMsg
  /\ [m |-> "ERR"] \in ToCallerMsg
BY DEF ToCallerMsg

LEMMA Limits ==
  /\ POST_RETRIES \in Nat /\ CTC_RETRIES \in Nat
  /\ PPR_LIMIT \in Nat /\ PPR_LIMIT > 0 /\ PPR_LIMIT_V34 \in Nat
  /\ FRAMES \in Nat /\ FRAMES > 0 /\ OCTET \in Nat /\ OCTET > 1
BY EcmAssumption, SMT

LEMMA ModRange == \A a \in Nat : a % OCTET \in 0..(OCTET - 1)
BY EcmAssumption, SMT

(* The block being sent, and what is left to send of it. *)
LEMMA CurrentBlock ==
  ASSUME CallerTypeOK
  PROVE  /\ FramesIn(cur_page, ecm_block) \in 1..FRAMES
         /\ ecm_send \subseteq FrameNo
         /\ Cardinality(ecm_send) \in 0..FRAMES
<1>1. FramesIn(cur_page, ecm_block) \in 1..FRAMES
  BY DocFacts DEF CallerTypeOK
<1>2. ecm_send \subseteq 0..(FramesIn(cur_page, ecm_block) - 1)
  BY DEF CallerTypeOK
<1>. DEFINE n == FramesIn(cur_page, ecm_block)
            Block == 0..(n - 1)
<1>. HIDE DEF n
<1>3. n \in 1..FRAMES /\ FRAMES \in Nat
  BY <1>1, EcmAssumption DEF n
<1>4. IsFiniteSet(Block) /\ Cardinality(Block) = n
  BY <1>3, FS_Interval, SMT
<1>5. ecm_send \subseteq Block
  BY <1>2 DEF n
<1>6. Cardinality(ecm_send) \in Nat /\ Cardinality(ecm_send) <= n
  BY <1>4, <1>5, FS_Subset, FS_CardinalityType
<1>7. Block \subseteq FrameNo
  BY <1>3, SMT DEF FrameNo
<1>. QED BY <1>1, <1>3, <1>5, <1>6, <1>7, SMT

(* The PPS built by ecm_send_pps is well formed. *)
LEMMA PpsSent ==
  ASSUME CallerTypeOK
  PROVE  [m |-> "PPS", fcf2 |-> IF at_page_end THEN next_tx_step ELSE "NULL",
          page |-> cur_page % OCTET, block |-> ecm_block % OCTET,
          frames |-> IF ecm_burst = 0 THEN 1 ELSE ecm_burst] \in ToAnswererMsg
<1>1. cur_page \in Nat /\ ecm_block \in Nat
      /\ (IF ecm_burst = 0 THEN 1 ELSE ecm_burst) \in 1..FRAMES
  BY DocFacts, Limits, SMT DEF CallerTypeOK
<1>2. (IF at_page_end THEN next_tx_step ELSE "NULL") \in PostMessages
  BY DEF next_tx_step, PostMessages
<1>. QED BY <1>1, <1>2, ModRange, SentToAnswerer

(* Taking a message keeps the line well formed and the other end unchanged. *)
LEMMA CallerTakesOK ==
  ASSUME LineTypeOK, AnswererTypeOK, NEW kind, CallerTakes(kind)
  PROVE  /\ LineTypeOK' /\ AnswererTypeOK' /\ ctimer' = FALSE
         /\ Head(a2c) \in ToCallerMsg /\ Head(a2c).m = kind
<1>1. Head(a2c) \in ToCallerMsg /\ Head(a2c).m = kind /\ ctimer' = FALSE
  BY QueueTake DEF LineTypeOK, CallerTakes
<1>2. LineTypeOK'
  BY QueueTake DEF LineTypeOK, CallerTakes
<1>3. AnswererTypeOK'
  BY DEF AnswererTypeOK, answererVars, CallerTakes
<1>. QED BY <1>1, <1>2, <1>3

LEMMA AnswererTakesOK ==
  ASSUME LineTypeOK, CallerTypeOK, NEW kind, AnswererTakes(kind), UNCHANGED link
  PROVE  /\ LineTypeOK' /\ CallerTypeOK'
         /\ Head(c2a) \in ToAnswererMsg /\ Head(c2a).m = kind
<1>1. Head(c2a) \in ToAnswererMsg /\ Head(c2a).m = kind
  BY QueueTake DEF LineTypeOK, AnswererTakes
<1>2. LineTypeOK'
  BY QueueTake DEF LineTypeOK, AnswererTakes
<1>3. CallerTypeOK'
  BY DEF CallerTypeOK, callerVars, AnswererTakes, PprCountMax, V34
<1>. QED BY <1>1, <1>2, <1>3

(* A block of the document, started afresh. *)
LEMMA StartBlockOK ==
  ASSUME NEW p \in 0..LastPage, NEW b \in 0..(Blocks(p) - 1), StartBlock(p, b)
  PROVE  /\ cur_page' \in 0..LastPage /\ ecm_block' \in 0..(Blocks(cur_page') - 1)
         /\ ecm_send' \subseteq 0..(FramesIn(cur_page', ecm_block') - 1)
         /\ ppr_count' = 0 /\ cst' = "C_SEND_ECM"
BY DEF StartBlock

LEMMA StartBlockCst ==
  ASSUME NEW p, NEW b, StartBlock(p, b) PROVE cst' = "C_SEND_ECM"
BY DEF StartBlock

-----------------------------------------------------------------------------
(* Type correctness, with the bounds on the retry counters. *)
LEMMA TypeInvInit == Init => TypeInv
<1>. SUFFICES ASSUME Init PROVE TypeInv
  OBVIOUS
<1>1. CallerTypeOK
  <2>1. /\ cst \in CallerSending \cup CallerWaiting \cup {"ST_DONE"}
        /\ ctimer \in BOOLEAN /\ cresult \in Results
    BY DEF Init, CallerSending, Results
  <2>2. /\ cur_page \in 0..LastPage /\ ecm_block \in 0..(Blocks(cur_page) - 1)
        /\ ecm_send \subseteq 0..(FramesIn(cur_page, ecm_block) - 1)
    BY DocFacts, SMT DEF Init
  <2>3. /\ ecm_burst \in 0..FRAMES
        /\ post_retries \in 0..POST_RETRIES /\ ctc_retries \in 0..CTC_RETRIES
        /\ ppr_count \in 0..PprCountMax
        /\ pages_tx \in 0..Len(Doc)
    BY DocFacts, Limits, SMT DEF Init, PprCountMax
  <2>4. fallback \in FbIndex
    BY EcmAssumption DEF Init
  <2>. QED BY <2>1, <2>2, <2>3, <2>4 DEF CallerTypeOK
<1>2. AnswererTypeOK
  BY EcmAssumption, SMT DEF Init, AnswererTypeOK, AnswererWaiting, AnswererListening, Results,
     NoFrames, PostMessages
<1>3. LineTypeOK
  BY DEF Init, LineTypeOK
<1>4. link \in LinkKinds
  BY EcmAssumption DEF Init
<1>5. PprBelowLimit
  BY Limits, SMT DEF Init, PprBelowLimit
<1>. QED BY <1>1, <1>2, <1>3, <1>4, <1>5 DEF TypeInv, TypeOK

(* Every step of the caller keeps TypeInv. *)
LEMMA TypeInvCaller ==
  ASSUME TypeInv, CallerSends \/ CallerHears \/ CallerExpires
  PROVE  TypeInv'
<1>. USE DEF TypeInv, TypeOK
<1>1. CASE SendBlock /\ UNCHANGED link
  <2>1. /\ cst' \in CallerSending \cup CallerWaiting \cup {"ST_DONE"}
        /\ ctimer' \in BOOLEAN /\ cresult' \in Results
    BY <1>1 DEF SendBlock, CallerTypeOK, CallerSending, CallerWaiting, Results, CallerFinish
  <2>2. CallerTypeOK' /\ PprBelowLimit'
    <3>1. ecm_burst' \in 0..FRAMES
      BY <1>1, CurrentBlock DEF SendBlock
    <3>. QED BY <1>1, <2>1, <3>1, Limits, SMT DEF SendBlock, CallerTypeOK, PprBelowLimit, PprCountMax, V34
  <2>3. AnswererTypeOK'
    BY <1>1 DEF SendBlock, AnswererTypeOK, answererVars
  <2>4. LineTypeOK'
    <3>1. PICK kept \in SUBSET ecm_send, down \in BOOLEAN :
            c2a' = IF kept = {} /\ ~down THEN c2a
                   ELSE Append(c2a, [m |-> "BURST", page |-> cur_page,
                                     block |-> ecm_block, kept |-> kept, down |-> down,
                                     row |-> fallback])
      BY <1>1 DEF SendBlock
    <3>2. cur_page \in Nat /\ ecm_block \in Nat /\ kept \in SUBSET FrameNo
      BY CurrentBlock, SMT DEF CallerTypeOK
    <3>3. [m |-> "BURST", page |-> cur_page, block |-> ecm_block, kept |-> kept,
           down |-> down, row |-> fallback] \in ToAnswererMsg
      BY <3>2, SentToAnswerer DEF CallerTypeOK
    <3>. QED BY <1>1, <3>1, <3>3, QueueSend DEF SendBlock, LineTypeOK
  <2>. QED BY <1>1, <2>1, <2>2, <2>3, <2>4
<1>2. CASE SendPps /\ UNCHANGED link
  <2>1. /\ cst' \in CallerSending \cup CallerWaiting \cup {"ST_DONE"}
        /\ ctimer' \in BOOLEAN /\ cresult' \in Results
    BY <1>2 DEF SendPps, CallerTypeOK, CallerSending, CallerWaiting, Results, CallerFinish
  <2>2. CallerTypeOK' /\ PprBelowLimit'
    BY <1>2, <2>1, Limits, SMT DEF SendPps, CallerTypeOK, PprBelowLimit, PprCountMax, V34
  <2>3. AnswererTypeOK'
    BY <1>2 DEF SendPps, AnswererTypeOK, answererVars
  <2>4. LineTypeOK'
    <3>. DEFINE pps == [m |-> "PPS",
                        fcf2 |-> IF at_page_end THEN next_tx_step ELSE "NULL",
                        page |-> cur_page % OCTET, block |-> ecm_block % OCTET,
                        frames |-> IF ecm_burst = 0 THEN 1 ELSE ecm_burst]
    <3>1. pps \in ToAnswererMsg
      BY PpsSent
    <3>. QED BY <1>2, <3>1, QueueSend DEF SendPps, ToAnswerer, LineTypeOK
  <2>. QED BY <1>2, <2>1, <2>2, <2>3, <2>4
<1>3. CASE SendCtc /\ UNCHANGED link
  <2>1. /\ cst' \in CallerSending \cup CallerWaiting \cup {"ST_DONE"}
        /\ ctimer' \in BOOLEAN /\ cresult' \in Results
    BY <1>3 DEF SendCtc, CallerTypeOK, CallerSending, CallerWaiting, Results, CallerFinish
  <2>2. CallerTypeOK' /\ PprBelowLimit'
    BY <1>3, <2>1, Limits, SMT DEF SendCtc, CallerTypeOK, PprBelowLimit, PprCountMax, V34
  <2>3. AnswererTypeOK'
    BY <1>3 DEF SendCtc, AnswererTypeOK, answererVars
  <2>4. LineTypeOK'
    <3>1. [m |-> "CTC", dcs |-> FB[fallback].dcs] \in ToAnswererMsg
      BY SpeedBits, SentToAnswerer DEF CallerTypeOK
    <3>. QED BY <1>3, <3>1, QueueSend DEF SendCtc, ToAnswerer, LineTypeOK
  <2>. QED BY <1>3, <2>1, <2>2, <2>3, <2>4
<1>4. CASE SendEor /\ UNCHANGED link
  <2>1. /\ cst' \in CallerSending \cup CallerWaiting \cup {"ST_DONE"}
        /\ ctimer' \in BOOLEAN /\ cresult' \in Results
    BY <1>4 DEF SendEor, CallerTypeOK, CallerSending, CallerWaiting, Results, CallerFinish
  <2>2. CallerTypeOK' /\ PprBelowLimit'
    BY <1>4, <2>1, Limits, SMT DEF SendEor, CallerTypeOK, PprBelowLimit, PprCountMax, V34
  <2>3. AnswererTypeOK'
    BY <1>4 DEF SendEor, AnswererTypeOK, answererVars
  <2>4. LineTypeOK'
    BY <1>4, SentToAnswerer, QueueSend DEF SendEor, ToAnswerer, LineTypeOK
  <2>. QED BY <1>4, <2>1, <2>2, <2>3, <2>4
<1>5. CASE SendDcn /\ UNCHANGED link
  <2>1. /\ cst' \in CallerSending \cup CallerWaiting \cup {"ST_DONE"}
        /\ ctimer' \in BOOLEAN /\ cresult' \in Results
    BY <1>5 DEF SendDcn, CallerTypeOK, CallerSending, CallerWaiting, Results, CallerFinish
  <2>2. CallerTypeOK' /\ PprBelowLimit'
    BY <1>5, <2>1, Limits, SMT DEF SendDcn, CallerTypeOK, PprBelowLimit, PprCountMax, V34, CallerFinish
  <2>3. AnswererTypeOK'
    BY <1>5 DEF SendDcn, AnswererTypeOK, answererVars
  <2>4. LineTypeOK'
    BY <1>5, SentToAnswerer, QueueSend DEF SendDcn, ToAnswerer, LineTypeOK
  <2>. QED BY <1>5, <2>1, <2>2, <2>3, <2>4
<1>6. CASE HearMcfNextBlock /\ UNCHANGED link
  <2>1. /\ cst' \in CallerSending \cup CallerWaiting \cup {"ST_DONE"}
        /\ ctimer' \in BOOLEAN /\ cresult' \in Results
    BY <1>6, CallerTakesOK, StartBlockCst DEF HearMcfNextBlock, CallerTypeOK, CallerSending, CallerWaiting, Results, CallerFinish
  <2>2. CallerTypeOK' /\ PprBelowLimit'
    <3>1. cur_page \in 0..LastPage /\ ecm_block \in 0..(Blocks(cur_page) - 1)
          /\ LastPage = Len(Doc) - 1 /\ Len(Doc) \in Nat
          /\ Blocks(cur_page) \in Nat
      BY DocFacts DEF CallerTypeOK
    <3>2. cur_page \in 0..LastPage
      BY <1>6, <3>1, SMT DEF HearMcfNextBlock, next_tx_step
    <3>3. Blocks(cur_page) \in Nat /\ Blocks(cur_page) > 0
      BY <3>2, DocFacts
    <3>4. ecm_block + 1 \in 0..(Blocks(cur_page) - 1)
      BY <1>6, <3>1, <3>3, SMT DEF HearMcfNextBlock, at_page_end
    <3>5. /\ cur_page' \in 0..LastPage /\ ecm_block' \in 0..(Blocks(cur_page') - 1)
          /\ ecm_send' \subseteq 0..(FramesIn(cur_page', ecm_block') - 1)
          /\ ppr_count' = 0 /\ cst' = "C_SEND_ECM"
      BY <1>6, <3>2, <3>4, StartBlockOK DEF HearMcfNextBlock
    <3>6. pages_tx' \in 0..Len(Doc)
      BY <1>6, <3>1, SMT DEF HearMcfNextBlock, CallerTypeOK
    <3>. QED BY <1>6, <2>1, <3>5, <3>6, Limits, SMT DEF HearMcfNextBlock, CallerTypeOK, PprBelowLimit, PprCountMax, V34
  <2>3. LineTypeOK' /\ ctimer' = FALSE
    BY <1>6, CallerTakesOK DEF HearMcfNextBlock
  <2>4. AnswererTypeOK'
    BY <1>6, CallerTakesOK DEF HearMcfNextBlock
  <2>. QED BY <1>6, <2>1, <2>2, <2>3, <2>4
<1>7. CASE HearMcfNextPage /\ UNCHANGED link
  <2>1. /\ cst' \in CallerSending \cup CallerWaiting \cup {"ST_DONE"}
        /\ ctimer' \in BOOLEAN /\ cresult' \in Results
    BY <1>7, CallerTakesOK, StartBlockCst DEF HearMcfNextPage, CallerTypeOK, CallerSending, CallerWaiting, Results, CallerFinish
  <2>2. CallerTypeOK' /\ PprBelowLimit'
    <3>1. cur_page \in 0..LastPage /\ ecm_block \in 0..(Blocks(cur_page) - 1)
          /\ LastPage = Len(Doc) - 1 /\ Len(Doc) \in Nat
          /\ Blocks(cur_page) \in Nat
      BY DocFacts DEF CallerTypeOK
    <3>2. cur_page + 1 \in 0..LastPage
      BY <1>7, <3>1, SMT DEF HearMcfNextPage, next_tx_step
    <3>3. Blocks(cur_page + 1) \in Nat /\ Blocks(cur_page + 1) > 0
      BY <3>2, DocFacts
    <3>4. 0 \in 0..(Blocks(cur_page + 1) - 1)
      BY <1>7, <3>1, <3>3, SMT DEF HearMcfNextPage, at_page_end
    <3>5. /\ cur_page' \in 0..LastPage /\ ecm_block' \in 0..(Blocks(cur_page') - 1)
          /\ ecm_send' \subseteq 0..(FramesIn(cur_page', ecm_block') - 1)
          /\ ppr_count' = 0 /\ cst' = "C_SEND_ECM"
      BY <1>7, <3>2, <3>4, StartBlockOK DEF HearMcfNextPage
    <3>6. pages_tx' \in 0..Len(Doc)
      BY <1>7, <3>1, SMT DEF HearMcfNextPage, CallerTypeOK
    <3>. QED BY <1>7, <2>1, <3>5, <3>6, Limits, SMT DEF HearMcfNextPage, CallerTypeOK, PprBelowLimit, PprCountMax, V34
  <2>3. LineTypeOK' /\ ctimer' = FALSE
    BY <1>7, CallerTakesOK DEF HearMcfNextPage
  <2>4. AnswererTypeOK'
    BY <1>7, CallerTakesOK DEF HearMcfNextPage
  <2>. QED BY <1>7, <2>1, <2>2, <2>3, <2>4
<1>8. CASE HearMcfLastPage /\ UNCHANGED link
  <2>1. /\ cst' \in CallerSending \cup CallerWaiting \cup {"ST_DONE"}
        /\ ctimer' \in BOOLEAN /\ cresult' \in Results
    BY <1>8, CallerTakesOK DEF HearMcfLastPage, CallerTypeOK, CallerSending, CallerWaiting, Results, CallerFinish
  <2>2. CallerTypeOK' /\ PprBelowLimit'
    <3>1. pages_tx' \in 0..Len(Doc)
      BY <1>8, DocFacts, SMT DEF HearMcfLastPage, CallerTypeOK
    <3>. QED BY <1>8, <2>1, <3>1, Limits, SMT DEF HearMcfLastPage, CallerTypeOK, PprBelowLimit, PprCountMax, V34
  <2>3. LineTypeOK' /\ ctimer' = FALSE
    BY <1>8, CallerTakesOK DEF HearMcfLastPage
  <2>4. AnswererTypeOK'
    BY <1>8, CallerTakesOK DEF HearMcfLastPage
  <2>. QED BY <1>8, <2>1, <2>2, <2>3, <2>4
<1>9. CASE HearPprResend /\ UNCHANGED link
  <2>1. /\ cst' \in CallerSending \cup CallerWaiting \cup {"ST_DONE"}
        /\ ctimer' \in BOOLEAN /\ cresult' \in Results
    BY <1>9, CallerTakesOK DEF HearPprResend, CallerTypeOK, CallerSending, CallerWaiting, Results, CallerFinish
  <2>2. CallerTypeOK' /\ PprBelowLimit'
    <3>1. ecm_send' \subseteq 0..(FramesIn(cur_page, ecm_block) - 1)
      BY <1>9 DEF HearPprResend, ApplyPpr
    <3>. QED BY <1>9, <2>1, <3>1, Limits, SMT DEF HearPprResend, CallerTypeOK, PprBelowLimit, PprCountMax, V34, CallerFinish
  <2>3. LineTypeOK' /\ ctimer' = FALSE
    BY <1>9, CallerTakesOK DEF HearPprResend
  <2>4. AnswererTypeOK'
    BY <1>9, CallerTakesOK DEF HearPprResend
  <2>. QED BY <1>9, <2>1, <2>2, <2>3, <2>4
<1>10. CASE HearPprStepDown /\ UNCHANGED link
  <2>1. /\ cst' \in CallerSending \cup CallerWaiting \cup {"ST_DONE"}
        /\ ctimer' \in BOOLEAN /\ cresult' \in Results
    BY <1>10, CallerTakesOK DEF HearPprStepDown, CallerTypeOK, CallerSending, CallerWaiting, Results, CallerFinish
  <2>2. CallerTypeOK' /\ PprBelowLimit'
    <3>1. ecm_send' \subseteq 0..(FramesIn(cur_page, ecm_block) - 1)
      BY <1>10 DEF HearPprStepDown, ApplyPpr
    <3>2. fallback' \in FbIndex
      <4>1. fallback + 1 \in Int
        BY SMT DEF CallerTypeOK, FbIndex
      <4>. QED BY <1>10, <4>1, NextAllowedFbCorrect, SMT DEF HearPprStepDown, NoFb
    <3>. QED BY <1>10, <2>1, <3>1, <3>2, Limits, SMT DEF HearPprStepDown, CallerTypeOK, PprBelowLimit, PprCountMax, V34, CallerFinish
  <2>3. LineTypeOK' /\ ctimer' = FALSE
    BY <1>10, CallerTakesOK DEF HearPprStepDown
  <2>4. AnswererTypeOK'
    BY <1>10, CallerTakesOK DEF HearPprStepDown
  <2>. QED BY <1>10, <2>1, <2>2, <2>3, <2>4
<1>11. CASE HearPprGiveUp /\ UNCHANGED link
  <2>1. /\ cst' \in CallerSending \cup CallerWaiting \cup {"ST_DONE"}
        /\ ctimer' \in BOOLEAN /\ cresult' \in Results
    BY <1>11, CallerTakesOK DEF HearPprGiveUp, CallerTypeOK, CallerSending, CallerWaiting, Results, CallerFinish
  <2>2. CallerTypeOK' /\ PprBelowLimit'
    <3>1. ecm_send' \subseteq 0..(FramesIn(cur_page, ecm_block) - 1)
      BY <1>11 DEF HearPprGiveUp, ApplyPpr
    <3>. QED BY <1>11, <2>1, <3>1, Limits, SMT DEF HearPprGiveUp, CallerTypeOK, PprBelowLimit, PprCountMax, V34, CallerFinish
  <2>3. LineTypeOK' /\ ctimer' = FALSE
    BY <1>11, CallerTakesOK DEF HearPprGiveUp
  <2>4. AnswererTypeOK'
    BY <1>11, CallerTakesOK DEF HearPprGiveUp
  <2>. QED BY <1>11, <2>1, <2>2, <2>3, <2>4
<1>12. CASE HearPprFailV34 /\ UNCHANGED link
  <2>1. /\ cst' \in CallerSending \cup CallerWaiting \cup {"ST_DONE"}
        /\ ctimer' \in BOOLEAN /\ cresult' \in Results
    BY <1>12, CallerTakesOK DEF HearPprFailV34, CallerTypeOK, CallerSending, CallerWaiting, Results, CallerFinish
  <2>2. CallerTypeOK' /\ PprBelowLimit'
    <3>1. ecm_send' \subseteq 0..(FramesIn(cur_page, ecm_block) - 1)
      BY <1>12 DEF HearPprFailV34, ApplyPpr
    <3>. QED BY <1>12, <2>1, <3>1, Limits, SMT DEF HearPprFailV34, CallerTypeOK, PprBelowLimit, PprCountMax, V34, CallerFinish
  <2>3. LineTypeOK' /\ ctimer' = FALSE
    BY <1>12, CallerTakesOK DEF HearPprFailV34
  <2>4. AnswererTypeOK'
    BY <1>12, CallerTakesOK DEF HearPprFailV34
  <2>. QED BY <1>12, <2>1, <2>2, <2>3, <2>4
<1>13. CASE HearCtr /\ UNCHANGED link
  <2>1. /\ cst' \in CallerSending \cup CallerWaiting \cup {"ST_DONE"}
        /\ ctimer' \in BOOLEAN /\ cresult' \in Results
    BY <1>13, CallerTakesOK DEF HearCtr, CallerTypeOK, CallerSending, CallerWaiting, Results, CallerFinish
  <2>2. CallerTypeOK' /\ PprBelowLimit'
    BY <1>13, <2>1, Limits, SMT DEF HearCtr, CallerTypeOK, PprBelowLimit, PprCountMax, V34, CallerFinish
  <2>3. LineTypeOK' /\ ctimer' = FALSE
    BY <1>13, CallerTakesOK DEF HearCtr
  <2>4. AnswererTypeOK'
    BY <1>13, CallerTakesOK DEF HearCtr
  <2>. QED BY <1>13, <2>1, <2>2, <2>3, <2>4
<1>14. CASE HearErr /\ UNCHANGED link
  <2>1. /\ cst' \in CallerSending \cup CallerWaiting \cup {"ST_DONE"}
        /\ ctimer' \in BOOLEAN /\ cresult' \in Results
    BY <1>14, CallerTakesOK DEF HearErr, CallerTypeOK, CallerSending, CallerWaiting, Results, CallerFinish
  <2>2. CallerTypeOK' /\ PprBelowLimit'
    BY <1>14, <2>1, Limits, SMT DEF HearErr, CallerTypeOK, PprBelowLimit, PprCountMax, V34, CallerFinish
  <2>3. LineTypeOK' /\ ctimer' = FALSE
    BY <1>14, CallerTakesOK DEF HearErr
  <2>4. AnswererTypeOK'
    BY <1>14, CallerTakesOK DEF HearErr
  <2>. QED BY <1>14, <2>1, <2>2, <2>3, <2>4
<1>15. CASE CallerIgnores /\ UNCHANGED link
  <2>1. /\ cst' \in CallerSending \cup CallerWaiting \cup {"ST_DONE"}
        /\ ctimer' \in BOOLEAN /\ cresult' \in Results
    BY <1>15, CallerTakesOK DEF CallerIgnores, CallerTypeOK, CallerSending, CallerWaiting, Results, CallerFinish
  <2>2. CallerTypeOK' /\ PprBelowLimit'
    BY <1>15, <2>1, Limits, SMT DEF CallerIgnores, CallerTypeOK, PprBelowLimit, PprCountMax, V34, CallerFinish
  <2>3. LineTypeOK' /\ ctimer' = FALSE
    BY <1>15, CallerTakesOK DEF CallerIgnores
  <2>4. AnswererTypeOK'
    BY <1>15, CallerTakesOK DEF CallerIgnores
  <2>. QED BY <1>15, <2>1, <2>2, <2>3, <2>4
<1>16. CASE ExpireRepeatPps /\ UNCHANGED link
  <2>1. /\ cst' \in CallerSending \cup CallerWaiting \cup {"ST_DONE"}
        /\ ctimer' \in BOOLEAN /\ cresult' \in Results
    BY <1>16 DEF ExpireRepeatPps, CallerTypeOK, CallerSending, CallerWaiting, Results, CallerFinish
  <2>2. CallerTypeOK' /\ PprBelowLimit'
    BY <1>16, <2>1, Limits, SMT DEF ExpireRepeatPps, CallerTypeOK, PprBelowLimit, PprCountMax, V34, CallerFinish
  <2>3. AnswererTypeOK'
    BY <1>16 DEF ExpireRepeatPps, AnswererTypeOK, answererVars
  <2>4. LineTypeOK'
    BY <1>16 DEF ExpireRepeatPps, LineTypeOK
  <2>. QED BY <1>16, <2>1, <2>2, <2>3, <2>4
<1>17. CASE ExpireRepeatCtc /\ UNCHANGED link
  <2>1. /\ cst' \in CallerSending \cup CallerWaiting \cup {"ST_DONE"}
        /\ ctimer' \in BOOLEAN /\ cresult' \in Results
    BY <1>17 DEF ExpireRepeatCtc, CallerTypeOK, CallerSending, CallerWaiting, Results, CallerFinish
  <2>2. CallerTypeOK' /\ PprBelowLimit'
    BY <1>17, <2>1, Limits, SMT DEF ExpireRepeatCtc, CallerTypeOK, PprBelowLimit, PprCountMax, V34, CallerFinish
  <2>3. AnswererTypeOK'
    BY <1>17 DEF ExpireRepeatCtc, AnswererTypeOK, answererVars
  <2>4. LineTypeOK'
    BY <1>17 DEF ExpireRepeatCtc, LineTypeOK
  <2>. QED BY <1>17, <2>1, <2>2, <2>3, <2>4
<1>18. CASE ExpireCaller /\ UNCHANGED link
  <2>1. /\ cst' \in CallerSending \cup CallerWaiting \cup {"ST_DONE"}
        /\ ctimer' \in BOOLEAN /\ cresult' \in Results
    BY <1>18 DEF ExpireCaller, CallerTypeOK, CallerSending, CallerWaiting, Results, CallerFinish
  <2>2. CallerTypeOK' /\ PprBelowLimit'
    BY <1>18, <2>1, Limits, SMT DEF ExpireCaller, CallerTypeOK, PprBelowLimit, PprCountMax, V34, CallerFinish
  <2>3. AnswererTypeOK'
    BY <1>18 DEF ExpireCaller, AnswererTypeOK, answererVars
  <2>4. LineTypeOK'
    BY <1>18 DEF ExpireCaller, LineTypeOK
  <2>. QED BY <1>18, <2>1, <2>2, <2>3, <2>4
<1>. QED BY <1>1, <1>2, <1>3, <1>4, <1>5, <1>6, <1>7, <1>8, <1>9, <1>10, <1>11,
         <1>12, <1>13, <1>14, <1>15, <1>16, <1>17, <1>18
         DEF CallerSends, CallerHears, CallerExpires

(* Every step of the answerer keeps TypeInv. *)
LEMMA TypeInvAnswerer ==
  ASSUME TypeInv, AnswererSends \/ AnswererHears \/ AnswererExpires
  PROVE  TypeInv'
<1>. USE DEF TypeInv, TypeOK
<1>1. CASE HearBlock /\ UNCHANGED link
  <2>1. CallerTypeOK' /\ PprBelowLimit' /\ LineTypeOK'
    <3>1. CallerTypeOK' /\ LineTypeOK'
      BY <1>1, AnswererTakesOK DEF HearBlock
    <3>2. PprBelowLimit'
      BY <1>1 DEF HearBlock, AnswererTakes, PprBelowLimit, callerVars, V34
    <3>. QED BY <3>1, <3>2
  <2>2. AnswererTypeOK'
    <3>. DEFINE burst == Head(c2a)
    <3>1. burst.page \in Nat /\ burst.block \in Nat /\ burst.kept \in SUBSET FrameNo
      BY <1>1, AnswererTakesOK, BurstFields DEF HearBlock
    <3>2. ecm_data' \in [FrameNo -> Frame \cup {NoFrame}]
      <4>1. ASSUME NEW i \in FrameNo PROVE <<burst.page, burst.block, i>> \in Frame
        BY <3>1 DEF Frame
      <4>2. ecm_data \in [FrameNo -> Frame \cup {NoFrame}]
        BY DEF AnswererTypeOK
      <4>. QED BY <1>1, <4>1, <4>2 DEF HearBlock
    <3>3. atimer' \in BOOLEAN
      BY <1>1 DEF HearBlock
    <3>4. ast' \in {"A_RECV_ECM", "A_WAIT_PPS"}
      BY <1>1 DEF HearBlock
    <3>. QED BY <1>1, <3>2, <3>3, <3>4
             DEF HearBlock, AnswererTypeOK, AnswererSending, AnswererWaiting, AnswererListening
  <2>. QED BY <1>1, <2>1, <2>2
<1>2. CASE MissBlock /\ UNCHANGED link
  <2>1. CallerTypeOK' /\ PprBelowLimit' /\ LineTypeOK'
    <3>1. CallerTypeOK' /\ LineTypeOK'
      BY <1>2, AnswererTakesOK DEF MissBlock
    <3>2. PprBelowLimit'
      BY <1>2 DEF MissBlock, AnswererTakes, PprBelowLimit, callerVars, V34
    <3>. QED BY <3>1, <3>2
  <2>2. AnswererTypeOK'
    <3>1. atimer' \in BOOLEAN
      BY <1>2 DEF MissBlock
    <3>. QED BY <1>2, <3>1 DEF MissBlock, AnswererTypeOK
  <2>. QED BY <1>2, <2>1, <2>2
<1>3. CASE HearRepeatedPps /\ UNCHANGED link
  <2>1. CallerTypeOK' /\ PprBelowLimit' /\ LineTypeOK'
    <3>1. CallerTypeOK' /\ LineTypeOK'
      BY <1>3, AnswererTakesOK DEF HearRepeatedPps
    <3>2. PprBelowLimit'
      BY <1>3 DEF HearRepeatedPps, AnswererTakes, PprBelowLimit, callerVars, V34
    <3>. QED BY <3>1, <3>2
  <2>2. AnswererTypeOK'
    BY <1>3 DEF HearRepeatedPps, AnswererTypeOK, AnswererSending, AnswererWaiting, AnswererListening,
       Results, AnswererFinish, ecm_rx_listen, ecm_rx_begin_page, NoFrames, Reack
  <2>. QED BY <1>3, <2>1, <2>2
<1>4. CASE HearPpsComplete /\ UNCHANGED link
  <2>1. CallerTypeOK' /\ PprBelowLimit' /\ LineTypeOK'
    <3>1. CallerTypeOK' /\ LineTypeOK'
      BY <1>4, AnswererTakesOK DEF HearPpsComplete
    <3>2. PprBelowLimit'
      BY <1>4 DEF HearPpsComplete, AnswererTakes, PprBelowLimit, callerVars, V34
    <3>. QED BY <3>1, <3>2
  <2>2. AnswererTypeOK'
    <3>1. LET pps == Head(c2a) IN
          /\ pps.fcf2 \in PostMessages /\ pps.page \in 0..(OCTET - 1)
          /\ pps.block \in 0..(OCTET - 1) /\ pps.frames \in 1..FRAMES
      BY <1>4, AnswererTakesOK, PpsFields DEF HearPpsComplete
    <3>2. NoFrames \in [FrameNo -> Frame \cup {NoFrame}]
      BY DEF NoFrames
    <3>. QED BY <1>4, <3>1, <3>2
             DEF HearPpsComplete, AnswererTypeOK, AnswererSending, AnswererWaiting, AnswererListening
  <2>. QED BY <1>4, <2>1, <2>2
<1>5. CASE HearPpsIncomplete /\ UNCHANGED link
  <2>1. CallerTypeOK' /\ PprBelowLimit' /\ LineTypeOK'
    <3>1. CallerTypeOK' /\ LineTypeOK'
      BY <1>5, AnswererTakesOK DEF HearPpsIncomplete
    <3>2. PprBelowLimit'
      BY <1>5 DEF HearPpsIncomplete, AnswererTakes, PprBelowLimit, callerVars, V34
    <3>. QED BY <3>1, <3>2
  <2>2. AnswererTypeOK'
    <3>1. LET pps == Head(c2a) IN
          /\ pps.fcf2 \in PostMessages /\ pps.page \in 0..(OCTET - 1)
          /\ pps.block \in 0..(OCTET - 1) /\ pps.frames \in 1..FRAMES
      BY <1>5, AnswererTakesOK, PpsFields DEF HearPpsIncomplete
    <3>2. BlockSize(Head(c2a)) \in 1..FRAMES
      BY <3>1, Limits, SMT DEF BlockSize, AnswererTypeOK
    <3>. QED BY <1>5, <3>1, <3>2
             DEF HearPpsIncomplete, AnswererTypeOK, AnswererSending, AnswererWaiting, AnswererListening
  <2>. QED BY <1>5, <2>1, <2>2
<1>6. CASE HearCtc /\ UNCHANGED link
  <2>1. CallerTypeOK' /\ PprBelowLimit' /\ LineTypeOK'
    <3>1. CallerTypeOK' /\ LineTypeOK'
      BY <1>6, AnswererTakesOK DEF HearCtc
    <3>2. PprBelowLimit'
      BY <1>6 DEF HearCtc, AnswererTakes, PprBelowLimit, callerVars, V34
    <3>. QED BY <3>1, <3>2
  <2>2. AnswererTypeOK'
    <3>1. rfallback' \in FbIndex
      BY <1>6, FbFromDcsRow, SMT DEF HearCtc, AnswererTypeOK, NoFb
    <3>. QED BY <1>6, <3>1 DEF HearCtc, AnswererTypeOK, AnswererSending, AnswererWaiting, AnswererListening
  <2>. QED BY <1>6, <2>1, <2>2
<1>7. CASE HearEor /\ UNCHANGED link
  <2>1. CallerTypeOK' /\ PprBelowLimit' /\ LineTypeOK'
    <3>1. CallerTypeOK' /\ LineTypeOK'
      BY <1>7, AnswererTakesOK DEF HearEor
    <3>2. PprBelowLimit'
      BY <1>7 DEF HearEor, AnswererTakes, PprBelowLimit, callerVars, V34
    <3>. QED BY <3>1, <3>2
  <2>2. AnswererTypeOK'
    BY <1>7 DEF HearEor, AnswererTypeOK, AnswererSending, AnswererWaiting, AnswererListening,
       Results, AnswererFinish, ecm_rx_listen, ecm_rx_begin_page, NoFrames, Reack
  <2>. QED BY <1>7, <2>1, <2>2
<1>8. CASE HearPpsAfterEnd /\ UNCHANGED link
  <2>1. CallerTypeOK' /\ PprBelowLimit' /\ LineTypeOK'
    <3>1. CallerTypeOK' /\ LineTypeOK'
      BY <1>8, AnswererTakesOK DEF HearPpsAfterEnd
    <3>2. PprBelowLimit'
      BY <1>8 DEF HearPpsAfterEnd, AnswererTakes, PprBelowLimit, callerVars, V34
    <3>. QED BY <3>1, <3>2
  <2>2. AnswererTypeOK'
    BY <1>8 DEF HearPpsAfterEnd, AnswererTypeOK, AnswererSending, AnswererWaiting, AnswererListening,
       Results, AnswererFinish, ecm_rx_listen, ecm_rx_begin_page, NoFrames, Reack
  <2>. QED BY <1>8, <2>1, <2>2
<1>9. CASE HearDcn /\ UNCHANGED link
  <2>1. CallerTypeOK' /\ PprBelowLimit' /\ LineTypeOK'
    <3>1. CallerTypeOK' /\ LineTypeOK'
      BY <1>9, AnswererTakesOK DEF HearDcn
    <3>2. PprBelowLimit'
      BY <1>9 DEF HearDcn, AnswererTakes, PprBelowLimit, callerVars, V34
    <3>. QED BY <3>1, <3>2
  <2>2. AnswererTypeOK'
    BY <1>9 DEF HearDcn, AnswererTypeOK, AnswererSending, AnswererWaiting, AnswererListening,
       Results, AnswererFinish, ecm_rx_listen, ecm_rx_begin_page, NoFrames, Reack
  <2>. QED BY <1>9, <2>1, <2>2
<1>10. CASE AnswererIgnores /\ UNCHANGED link
  <2>1. CallerTypeOK' /\ PprBelowLimit' /\ LineTypeOK'
    <3>1. CallerTypeOK' /\ LineTypeOK'
      BY <1>10, AnswererTakesOK DEF AnswererIgnores
    <3>2. PprBelowLimit'
      BY <1>10 DEF AnswererIgnores, AnswererTakes, PprBelowLimit, callerVars, V34
    <3>. QED BY <3>1, <3>2
  <2>2. AnswererTypeOK'
    BY <1>10 DEF AnswererIgnores, AnswererTypeOK, AnswererSending, AnswererWaiting, AnswererListening,
       Results, AnswererFinish, ecm_rx_listen, ecm_rx_begin_page, NoFrames, Reack
  <2>. QED BY <1>10, <2>1, <2>2
<1>11. CASE SendPpr /\ UNCHANGED link
  <2>1. CallerTypeOK' /\ PprBelowLimit' /\ LineTypeOK'
    <3>1. CallerTypeOK' /\ PprBelowLimit'
      BY <1>11 DEF SendPpr, CallerTypeOK, PprBelowLimit, callerVars, PprCountMax, V34
    <3>2. LineTypeOK'
      <4>1. {i \in FrameNo : ecm_data[i] = NoFrame} \in SUBSET FrameNo
        OBVIOUS
      <4>. QED BY <1>11, <4>1, SentToCaller, QueueSend DEF SendPpr, ToCaller, LineTypeOK
    <3>. QED BY <3>1, <3>2
  <2>2. AnswererTypeOK'
    BY <1>11, SMT DEF SendPpr, AnswererTypeOK, AnswererSending, AnswererWaiting, AnswererListening,
       Results, AnswererFinish, ecm_rx_listen, ecm_rx_begin_page, NoFrames, Reack
  <2>. QED BY <1>11, <2>1, <2>2
<1>12. CASE SendMcfMidPage /\ UNCHANGED link
  <2>1. CallerTypeOK' /\ PprBelowLimit' /\ LineTypeOK'
    <3>1. CallerTypeOK' /\ PprBelowLimit'
      BY <1>12 DEF SendMcfMidPage, CallerTypeOK, PprBelowLimit, callerVars, PprCountMax, V34
    <3>2. LineTypeOK'
      BY <1>12, SentToCaller, QueueSend DEF SendMcfMidPage, ToCaller, LineTypeOK
    <3>. QED BY <3>1, <3>2
  <2>2. AnswererTypeOK'
    BY <1>12, SMT DEF SendMcfMidPage, AnswererTypeOK, AnswererSending, AnswererWaiting, AnswererListening,
       Results, AnswererFinish, ecm_rx_listen, ecm_rx_begin_page, NoFrames, Reack
  <2>. QED BY <1>12, <2>1, <2>2
<1>13. CASE SendMcfNextPage /\ UNCHANGED link
  <2>1. CallerTypeOK' /\ PprBelowLimit' /\ LineTypeOK'
    <3>1. CallerTypeOK' /\ PprBelowLimit'
      BY <1>13 DEF SendMcfNextPage, CallerTypeOK, PprBelowLimit, callerVars, PprCountMax, V34
    <3>2. LineTypeOK'
      BY <1>13, SentToCaller, QueueSend DEF SendMcfNextPage, ToCaller, LineTypeOK
    <3>. QED BY <3>1, <3>2
  <2>2. AnswererTypeOK'
    BY <1>13, SMT DEF SendMcfNextPage, AnswererTypeOK, AnswererSending, AnswererWaiting, AnswererListening,
       Results, AnswererFinish, ecm_rx_listen, ecm_rx_begin_page, NoFrames, Reack
  <2>. QED BY <1>13, <2>1, <2>2
<1>14. CASE SendMcfLastPage /\ UNCHANGED link
  <2>1. CallerTypeOK' /\ PprBelowLimit' /\ LineTypeOK'
    <3>1. CallerTypeOK' /\ PprBelowLimit'
      BY <1>14 DEF SendMcfLastPage, CallerTypeOK, PprBelowLimit, callerVars, PprCountMax, V34
    <3>2. LineTypeOK'
      BY <1>14, SentToCaller, QueueSend DEF SendMcfLastPage, ToCaller, LineTypeOK
    <3>. QED BY <3>1, <3>2
  <2>2. AnswererTypeOK'
    BY <1>14, SMT DEF SendMcfLastPage, AnswererTypeOK, AnswererSending, AnswererWaiting, AnswererListening,
       Results, AnswererFinish, ecm_rx_listen, ecm_rx_begin_page, NoFrames, Reack
  <2>. QED BY <1>14, <2>1, <2>2
<1>15. CASE SendCtr /\ UNCHANGED link
  <2>1. CallerTypeOK' /\ PprBelowLimit' /\ LineTypeOK'
    <3>1. CallerTypeOK' /\ PprBelowLimit'
      BY <1>15 DEF SendCtr, CallerTypeOK, PprBelowLimit, callerVars, PprCountMax, V34
    <3>2. LineTypeOK'
      BY <1>15, SentToCaller, QueueSend DEF SendCtr, ToCaller, LineTypeOK
    <3>. QED BY <3>1, <3>2
  <2>2. AnswererTypeOK'
    BY <1>15, SMT DEF SendCtr, AnswererTypeOK, AnswererSending, AnswererWaiting, AnswererListening,
       Results, AnswererFinish, ecm_rx_listen, ecm_rx_begin_page, NoFrames, Reack
  <2>. QED BY <1>15, <2>1, <2>2
<1>16. CASE SendErr /\ UNCHANGED link
  <2>1. CallerTypeOK' /\ PprBelowLimit' /\ LineTypeOK'
    <3>1. CallerTypeOK' /\ PprBelowLimit'
      BY <1>16 DEF SendErr, CallerTypeOK, PprBelowLimit, callerVars, PprCountMax, V34
    <3>2. LineTypeOK'
      BY <1>16, SentToCaller, QueueSend DEF SendErr, ToCaller, LineTypeOK
    <3>. QED BY <3>1, <3>2
  <2>2. AnswererTypeOK'
    BY <1>16, SMT DEF SendErr, AnswererTypeOK, AnswererSending, AnswererWaiting, AnswererListening,
       Results, AnswererFinish, ecm_rx_listen, ecm_rx_begin_page, NoFrames, Reack
  <2>. QED BY <1>16, <2>1, <2>2
<1>17. CASE SendReack /\ UNCHANGED link
  <2>1. CallerTypeOK' /\ PprBelowLimit' /\ LineTypeOK'
    <3>1. CallerTypeOK' /\ PprBelowLimit'
      BY <1>17 DEF SendReack, CallerTypeOK, PprBelowLimit, callerVars, PprCountMax, V34
    <3>2. LineTypeOK'
      BY <1>17, SentToCaller, QueueSend DEF SendReack, ToCaller, LineTypeOK
    <3>. QED BY <3>1, <3>2
  <2>2. AnswererTypeOK'
    BY <1>17, SMT DEF SendReack, AnswererTypeOK, AnswererSending, AnswererWaiting, AnswererListening,
       Results, AnswererFinish, ecm_rx_listen, ecm_rx_begin_page, NoFrames, Reack
  <2>. QED BY <1>17, <2>1, <2>2
<1>18. CASE ExpireAnswerer /\ UNCHANGED link
  <2>1. CallerTypeOK' /\ PprBelowLimit' /\ LineTypeOK'
    BY <1>18 DEF ExpireAnswerer, CallerTypeOK, PprBelowLimit, LineTypeOK, callerVars, PprCountMax, V34
  <2>2. AnswererTypeOK'
    BY <1>18 DEF ExpireAnswerer, AnswererTypeOK, AnswererSending, AnswererWaiting, AnswererListening,
       Results, AnswererFinish, ecm_rx_listen, ecm_rx_begin_page, NoFrames, Reack
  <2>. QED BY <1>18, <2>1, <2>2
<1>. QED BY <1>1, <1>2, <1>3, <1>4, <1>5, <1>6, <1>7, <1>8, <1>9, <1>10, <1>11,
         <1>12, <1>13, <1>14, <1>15, <1>16, <1>17, <1>18
         DEF AnswererSends, AnswererHears, AnswererExpires

LEMMA TypeInvariant == Spec => []TypeInv
<1>1. TypeInv /\ UNCHANGED vars => TypeInv'
  BY DEF TypeInv, TypeOK, CallerTypeOK, AnswererTypeOK, LineTypeOK, PprBelowLimit, vars,
         callerVars, answererVars, PprCountMax, V34
<1>2. TypeInv /\ [Next]_vars => TypeInv'
  BY <1>1, TypeInvCaller, TypeInvAnswerer DEF Next
<1>. QED BY TypeInvInit, <1>2, PTL DEF Spec

(* A bound on repetition holds in every state: however the line behaves, no *)
(* PPS or CTC is sent more than its limit of times, no counter overruns.    *)
THEOREM TypeCorrect == Spec => []TypeOK
<1>1. TypeInv => TypeOK
  BY DEF TypeInv
<1>. QED BY TypeInvariant, <1>1, PTL

-----------------------------------------------------------------------------
(* A queue holds a DCN after a send only if it held one or one was sent, and *)
(* after a take only if it held one.                                         *)
LEMMA DcnAppend ==
  ASSUME c2a \in Seq(ToAnswererMsg), NEW m \in ToAnswererMsg, m.m # "DCN",
         c2a' \in {c2a, Append(c2a, m)}
  PROVE  DcnQueued' => DcnQueued
<1>1. CASE c2a' = c2a
  BY <1>1 DEF DcnQueued
<1>2. CASE c2a' = Append(c2a, m)
  <2>. SUFFICES ASSUME NEW i \in 1..Len(c2a'), c2a'[i].m = "DCN"
                PROVE  DcnQueued
    BY DEF DcnQueued
  <2>1. Len(c2a') = Len(c2a) + 1 /\ c2a'[Len(c2a) + 1] = m /\ Len(c2a) \in Nat
        /\ \A j \in 1..Len(c2a) : c2a'[j] = c2a[j]
    BY <1>2, AppendProperties
  <2>2. i # Len(c2a) + 1
    BY <2>1
  <2>3. i \in 1..Len(c2a)
    BY <2>1, <2>2
  <2>. QED BY <2>1, <2>3 DEF DcnQueued
<1>. QED BY <1>1, <1>2

LEMMA DcnTail ==
  ASSUME c2a \in Seq(ToAnswererMsg), c2a # <<>>, c2a' = Tail(c2a)
  PROVE  /\ DcnQueued' => DcnQueued
         /\ Head(c2a).m = "DCN" => DcnQueued
<1>1. Len(c2a) \in Nat \ {0} /\ Head(c2a) = c2a[1] /\ Len(c2a') = Len(c2a) - 1
      /\ \A j \in 1..Len(c2a') : c2a'[j] = c2a[j + 1]
  BY EmptySeq, HeadTailProperties
<1>2. ASSUME NEW j \in 1..Len(c2a'), c2a'[j].m = "DCN" PROVE DcnQueued
  <2>1. j + 1 \in 1..Len(c2a)
    BY <1>1, <1>2
  <2>. QED BY <1>1, <1>2, <2>1 DEF DcnQueued
<1>. QED BY <1>1, <1>2 DEF DcnQueued

(* Where the caller is when it hears the MCF of the last page. *)
LEMMA LastPageCounted ==
  ASSUME TypeOK, next_tx_step = "EOP" PROVE cur_page + 1 = Len(Doc)
BY DocFacts, SMT DEF TypeOK, CallerTypeOK, next_tx_step

LEMMA SuccessInvCaller ==
  ASSUME TypeInv, TypeInv', SuccessInv, CallerSends \/ CallerHears \/ CallerExpires
  PROVE  SuccessInv'
<1>. USE DEF SuccessInv
<1>0. c2a \in Seq(ToAnswererMsg)
  BY DEF TypeInv, TypeOK, LineTypeOK
<1>1. CASE SendBlock /\ UNCHANGED link
  <2>1. PICK kept \in SUBSET ecm_send, down \in BOOLEAN :
          c2a' = IF kept = {} /\ ~down THEN c2a
                 ELSE Append(c2a, [m |-> "BURST", page |-> cur_page, block |-> ecm_block,
                                   kept |-> kept, down |-> down, row |-> fallback])
    BY <1>1 DEF SendBlock
  <2>2. CallerTypeOK
    BY DEF TypeInv, TypeOK
  <2>3. cur_page \in Nat /\ ecm_block \in Nat /\ kept \in SUBSET FrameNo
    BY <2>2, CurrentBlock, SMT DEF CallerTypeOK
  <2>4. [m |-> "BURST", page |-> cur_page, block |-> ecm_block, kept |-> kept,
         down |-> down, row |-> fallback] \in ToAnswererMsg
    BY <2>2, <2>3, SentToAnswerer DEF CallerTypeOK
  <2>5. DcnQueued' => DcnQueued
    BY <1>0, <2>1, <2>4, DcnAppend
  <2>. QED BY <1>1, <2>5 DEF SendBlock, CallerWaiting, answererVars
<1>2. CASE SendPps /\ UNCHANGED link
  <2>. DEFINE msg == [m |-> "PPS", fcf2 |-> IF at_page_end THEN next_tx_step ELSE "NULL",
                 page |-> cur_page % OCTET, block |-> ecm_block % OCTET,
                 frames |-> IF ecm_burst = 0 THEN 1 ELSE ecm_burst]
  <2>1. msg \in ToAnswererMsg
    BY PpsSent DEF TypeInv, TypeOK
  <2>2. DcnQueued' => DcnQueued
    BY <1>0, <1>2, <2>1, DcnAppend DEF SendPps, ToAnswerer
  <2>. QED BY <1>2, <2>2 DEF SendPps, CallerWaiting, answererVars
<1>3. CASE SendCtc /\ UNCHANGED link
  <2>. DEFINE msg == [m |-> "CTC", dcs |-> FB[fallback].dcs]
  <2>1. msg \in ToAnswererMsg
    BY SpeedBits, SentToAnswerer DEF TypeInv, TypeOK, CallerTypeOK
  <2>2. DcnQueued' => DcnQueued
    BY <1>0, <1>3, <2>1, DcnAppend DEF SendCtc, ToAnswerer
  <2>. QED BY <1>3, <2>2 DEF SendCtc, CallerWaiting, answererVars
<1>4. CASE SendEor /\ UNCHANGED link
  <2>. DEFINE msg == [m |-> "EOR"]
  <2>1. msg \in ToAnswererMsg
    BY SentToAnswerer
  <2>2. DcnQueued' => DcnQueued
    BY <1>0, <1>4, <2>1, DcnAppend DEF SendEor, ToAnswerer
  <2>. QED BY <1>4, <2>2 DEF SendEor, CallerWaiting, answererVars
<1>5. CASE SendDcn /\ UNCHANGED link
  BY <1>5 DEF SendDcn, CallerFinish, CallerWaiting, answererVars
<1>6. CASE HearMcfNextBlock /\ UNCHANGED link
  BY <1>6
  DEF HearMcfNextBlock, CallerTakes, DcnQueued, answererVars, StartBlock
<1>7. CASE HearMcfNextPage /\ UNCHANGED link
  BY <1>7
  DEF HearMcfNextPage, CallerTakes, DcnQueued, answererVars, StartBlock
<1>8. CASE HearMcfLastPage /\ UNCHANGED link
  BY <1>8, LastPageCounted
  DEF HearMcfLastPage, CallerTakes, DcnQueued, answererVars, TypeInv
<1>9. CASE HearPprResend /\ UNCHANGED link
  BY <1>9
  DEF HearPprResend, CallerTakes, DcnQueued, answererVars
<1>10. CASE HearPprStepDown /\ UNCHANGED link
  BY <1>10
  DEF HearPprStepDown, CallerTakes, DcnQueued, answererVars
<1>11. CASE HearPprGiveUp /\ UNCHANGED link
  BY <1>11
  DEF HearPprGiveUp, CallerTakes, DcnQueued, answererVars
<1>12. CASE HearPprFailV34 /\ UNCHANGED link
  BY <1>12
  DEF HearPprFailV34, CallerTakes, DcnQueued, answererVars, CallerFinish
<1>13. CASE HearCtr /\ UNCHANGED link
  BY <1>13
  DEF HearCtr, CallerTakes, DcnQueued, answererVars
<1>14. CASE HearErr /\ UNCHANGED link
  BY <1>14
  DEF HearErr, CallerTakes, DcnQueued, answererVars, CallerFinish
<1>15. CASE CallerIgnores /\ UNCHANGED link
  BY <1>15
  DEF CallerIgnores, CallerTakes, DcnQueued, answererVars
<1>16. CASE ExpireRepeatPps /\ UNCHANGED link
  BY <1>16 DEF ExpireRepeatPps, CallerMayExpire, DcnQueued, CallerWaiting, answererVars
<1>17. CASE ExpireRepeatCtc /\ UNCHANGED link
  BY <1>17 DEF ExpireRepeatCtc, CallerMayExpire, DcnQueued, CallerWaiting, answererVars
<1>18. CASE ExpireCaller /\ UNCHANGED link
  BY <1>18 DEF ExpireCaller, CallerMayExpire, DcnQueued, CallerWaiting, answererVars, CallerFinish
<1>. QED BY <1>1, <1>2, <1>3, <1>4, <1>5, <1>6, <1>7, <1>8, <1>9, <1>10, <1>11,
         <1>12, <1>13, <1>14, <1>15, <1>16, <1>17, <1>18
         DEF CallerSends, CallerHears, CallerExpires

LEMMA SuccessInvAnswerer ==
  ASSUME TypeInv, SuccessInv, AnswererSends \/ AnswererHears \/ AnswererExpires
  PROVE  SuccessInv'
<1>. USE DEF SuccessInv
<1>0. c2a \in Seq(ToAnswererMsg)
  BY DEF TypeInv, TypeOK, LineTypeOK
<1>1. CASE HearBlock /\ UNCHANGED link
  <2>1. (DcnQueued' => DcnQueued) /\ (Head(c2a).m = "DCN" => DcnQueued)
    BY <1>0, <1>1, DcnTail DEF HearBlock, AnswererTakes
  <2>. QED BY <1>1, <2>1 DEF HearBlock, AnswererTakes, callerVars, AnswererFinish
<1>2. CASE MissBlock /\ UNCHANGED link
  <2>1. (DcnQueued' => DcnQueued) /\ (Head(c2a).m = "DCN" => DcnQueued)
    BY <1>0, <1>2, DcnTail DEF MissBlock, AnswererTakes
  <2>. QED BY <1>2, <2>1 DEF MissBlock, AnswererTakes, callerVars, AnswererFinish
<1>3. CASE HearRepeatedPps /\ UNCHANGED link
  <2>1. (DcnQueued' => DcnQueued) /\ (Head(c2a).m = "DCN" => DcnQueued)
    BY <1>0, <1>3, DcnTail DEF HearRepeatedPps, AnswererTakes
  <2>. QED BY <1>3, <2>1 DEF HearRepeatedPps, AnswererTakes, callerVars, AnswererFinish
<1>4. CASE HearPpsComplete /\ UNCHANGED link
  <2>1. (DcnQueued' => DcnQueued) /\ (Head(c2a).m = "DCN" => DcnQueued)
    BY <1>0, <1>4, DcnTail DEF HearPpsComplete, AnswererTakes
  <2>. QED BY <1>4, <2>1 DEF HearPpsComplete, AnswererTakes, callerVars, AnswererFinish
<1>5. CASE HearPpsIncomplete /\ UNCHANGED link
  <2>1. (DcnQueued' => DcnQueued) /\ (Head(c2a).m = "DCN" => DcnQueued)
    BY <1>0, <1>5, DcnTail DEF HearPpsIncomplete, AnswererTakes
  <2>. QED BY <1>5, <2>1 DEF HearPpsIncomplete, AnswererTakes, callerVars, AnswererFinish
<1>6. CASE HearCtc /\ UNCHANGED link
  <2>1. (DcnQueued' => DcnQueued) /\ (Head(c2a).m = "DCN" => DcnQueued)
    BY <1>0, <1>6, DcnTail DEF HearCtc, AnswererTakes
  <2>. QED BY <1>6, <2>1 DEF HearCtc, AnswererTakes, callerVars, AnswererFinish
<1>7. CASE HearEor /\ UNCHANGED link
  <2>1. (DcnQueued' => DcnQueued) /\ (Head(c2a).m = "DCN" => DcnQueued)
    BY <1>0, <1>7, DcnTail DEF HearEor, AnswererTakes
  <2>. QED BY <1>7, <2>1 DEF HearEor, AnswererTakes, callerVars, AnswererFinish
<1>8. CASE HearPpsAfterEnd /\ UNCHANGED link
  <2>1. (DcnQueued' => DcnQueued) /\ (Head(c2a).m = "DCN" => DcnQueued)
    BY <1>0, <1>8, DcnTail DEF HearPpsAfterEnd, AnswererTakes
  <2>. QED BY <1>8, <2>1 DEF HearPpsAfterEnd, AnswererTakes, callerVars, AnswererFinish
<1>9. CASE HearDcn /\ UNCHANGED link
  <2>1. (DcnQueued' => DcnQueued) /\ (Head(c2a).m = "DCN" => DcnQueued)
    BY <1>0, <1>9, DcnTail DEF HearDcn, AnswererTakes
  <2>. QED BY <1>9, <2>1 DEF HearDcn, AnswererTakes, callerVars, AnswererFinish
<1>10. CASE AnswererIgnores /\ UNCHANGED link
  <2>1. (DcnQueued' => DcnQueued) /\ (Head(c2a).m = "DCN" => DcnQueued)
    BY <1>0, <1>10, DcnTail DEF AnswererIgnores, AnswererTakes
  <2>. QED BY <1>10, <2>1 DEF AnswererIgnores, AnswererTakes, callerVars, AnswererFinish
<1>11. CASE SendPpr /\ UNCHANGED link
  BY <1>11 DEF SendPpr, DcnQueued, callerVars, AnswererFinish
<1>12. CASE SendMcfMidPage /\ UNCHANGED link
  BY <1>12 DEF SendMcfMidPage, DcnQueued, callerVars, AnswererFinish
<1>13. CASE SendMcfNextPage /\ UNCHANGED link
  BY <1>13 DEF SendMcfNextPage, DcnQueued, callerVars, AnswererFinish
<1>14. CASE SendMcfLastPage /\ UNCHANGED link
  BY <1>14 DEF SendMcfLastPage, DcnQueued, callerVars, AnswererFinish
<1>15. CASE SendCtr /\ UNCHANGED link
  BY <1>15 DEF SendCtr, DcnQueued, callerVars, AnswererFinish
<1>16. CASE SendErr /\ UNCHANGED link
  BY <1>16 DEF SendErr, DcnQueued, callerVars, AnswererFinish
<1>17. CASE SendReack /\ UNCHANGED link
  BY <1>17 DEF SendReack, DcnQueued, callerVars, AnswererFinish
<1>18. CASE ExpireAnswerer /\ UNCHANGED link
  BY <1>18 DEF ExpireAnswerer, DcnQueued, callerVars, AnswererFinish
<1>. QED BY <1>1, <1>2, <1>3, <1>4, <1>5, <1>6, <1>7, <1>8, <1>9, <1>10, <1>11,
         <1>12, <1>13, <1>14, <1>15, <1>16, <1>17, <1>18
         DEF AnswererSends, AnswererHears, AnswererExpires

(* An answerer that ends with NF_T30_OK has met a caller that ended with    *)
(* NF_T30_OK after counting every page, whatever was lost or delayed: the   *)
(* aborting ends of the caller send no DCN that could be taken for success. *)
THEOREM AnswererSuccessCorrect == Spec => []AnswererSuccess
<1>1. Init => SuccessInv
  BY DEF Init, SuccessInv, DcnQueued
<1>2. TypeInv /\ SuccessInv /\ UNCHANGED vars => SuccessInv'
  BY DEF SuccessInv, DcnQueued, vars, callerVars, answererVars
<1>3. TypeInv /\ TypeInv' /\ SuccessInv /\ [Next]_vars => SuccessInv'
  BY <1>2, SuccessInvCaller, SuccessInvAnswerer DEF Next
<1>4. SuccessInv => AnswererSuccess
  BY DEF SuccessInv, AnswererSuccess
<1>. QED BY TypeInvariant, <1>1, <1>3, <1>4, PTL DEF Spec
=============================================================================
