--------------------------- MODULE T30CallProofs ---------------------------
(***************************************************************************)
(* Theorems about T30Call, for every document, modem mask and retry limit, *)
(* every line, and whether or not timers race with answers: a classic      *)
(* Group 3 call keeps its turn in one place (CallInv of T30Call), and so   *)
(* both ends agree about success and the pages arrive in order, each once. *)
(***************************************************************************)
EXTENDS T30Call, FaxLadderProofs, SequenceTheorems, TLAPS

-----------------------------------------------------------------------------
(***************************************************************************)
(* What the queues of the line look like after a message is sent or taken. *)
(***************************************************************************)
(* The fields of a message follow from its kind. *)
LEMMA MessageFields ==
  ASSUME NEW msg \in Messages
  PROVE  /\ msg.m \in MsgKinds
         /\ msg.m \in {"DIS", "DTC", "DCS"} => msg.bits \in SUBSET {3, 4, 6}
         /\ msg.m \in Carriers => msg.row \in FbIndex
         /\ msg.m = "PAGE" => msg.page \in 0..(PAGES - 1)
BY DEF Messages, IdFrames, PostKinds, Carriers, MsgKinds

LEMMA Arrived ==
  ASSUME NEW q \in Seq(Messages), NEW msg \in Messages, NEW q2 \in Arrivals(q, msg)
  PROVE  /\ q2 \in Seq(Messages) /\ Len(q2) \in {Len(q), Len(q) + 1}
         /\ \A i \in 1..Len(q2) : \/ i \in 1..Len(q) /\ q2[i] = q[i]
                                  \/ i = Len(q) + 1 /\ q2[i] = msg
<1>1. CASE q2 = q                 BY <1>1, SMT
<1>2. CASE q2 = Append(q, msg)    BY <1>2, SMT
<1>. QED BY <1>1, <1>2 DEF Arrivals

(* A message that is sent adds its own kind and nothing else. *)
LEMMA Sent ==
  ASSUME NEW q \in Seq(Messages), NEW msg \in Messages, NEW q2 \in Arrivals(q, msg)
  PROVE  /\ q2 \in Seq(Messages)
         /\ \A kinds : Has(q2, kinds) => Has(q, kinds) \/ msg.m \in kinds
         /\ \A kinds : One(q, kinds) /\ (msg.m \in kinds => ~Has(q, kinds)) => One(q2, kinds)
         /\ \A n : PagesAre(q, n) /\ (msg.m = "PAGE" => msg.page = n) => PagesAre(q2, n)
         /\ \A n : DcsAre(q, n) /\ (msg.m = "DCS" => msg.bits = FB[n].dcs) => DcsAre(q2, n)
         /\ \A n : RowsUpTo(q, n) /\ (msg.m = "TCF" => msg.row <= n) => RowsUpTo(q2, n)
         /\ \A n : RowsBelow(q, n) /\ (msg.m = "TCF" => msg.row < n) => RowsBelow(q2, n)
         /\ \A n : OneAtRow(q, n) /\ msg.m # "TCF" => OneAtRow(q2, n)
<1>1. /\ q2 \in Seq(Messages) /\ Len(q2) \in {Len(q), Len(q) + 1}
      /\ \A i \in 1..Len(q2) : \/ i \in 1..Len(q) /\ q2[i] = q[i]
                               \/ i = Len(q) + 1 /\ q2[i] = msg
  BY Arrived
<1>2. ASSUME NEW kinds, Has(q2, kinds) PROVE Has(q, kinds) \/ msg.m \in kinds
  BY <1>1, <1>2 DEF Has
<1>3. ASSUME NEW kinds, One(q, kinds), msg.m \in kinds => ~Has(q, kinds)
      PROVE  One(q2, kinds)
  BY <1>1, <1>3 DEF One, Has
<1>4. ASSUME NEW n, PagesAre(q, n), msg.m = "PAGE" => msg.page = n PROVE PagesAre(q2, n)
  BY <1>1, <1>4 DEF PagesAre
<1>5. ASSUME NEW n, DcsAre(q, n), msg.m = "DCS" => msg.bits = FB[n].dcs PROVE DcsAre(q2, n)
  BY <1>1, <1>5 DEF DcsAre
<1>6. ASSUME NEW n, RowsUpTo(q, n), msg.m = "TCF" => msg.row <= n PROVE RowsUpTo(q2, n)
  BY <1>1, <1>6 DEF RowsUpTo
<1>7. ASSUME NEW n, RowsBelow(q, n), msg.m = "TCF" => msg.row < n PROVE RowsBelow(q2, n)
  BY <1>1, <1>7 DEF RowsBelow
<1>8. ASSUME NEW n, OneAtRow(q, n), msg.m # "TCF" PROVE OneAtRow(q2, n)
  BY <1>1, <1>8 DEF OneAtRow
<1>. QED BY <1>1, <1>2, <1>3, <1>4, <1>5, <1>6, <1>7, <1>8

(* The training check of a row below every other one is the only one at it. *)
LEMMA SentTcf ==
  ASSUME NEW q \in Seq(Messages), NEW row \in FbIndex,
         NEW q2 \in Arrivals(q, [m |-> "TCF", row |-> row]),
         RowsBelow(q, row), \A i \in 1..Len(q) : q[i].m = "TCF" => q[i].row \in FbIndex
  PROVE  OneAtRow(q2, row)
<1>. DEFINE msg == [m |-> "TCF", row |-> row]
<1>1. msg \in Messages
  BY DEF Messages
<1>2. /\ Len(q2) \in {Len(q), Len(q) + 1}
      /\ \A i \in 1..Len(q2) : \/ i \in 1..Len(q) /\ q2[i] = q[i]
                               \/ i = Len(q) + 1 /\ q2[i] = msg
  BY <1>1, Arrived
<1>3. \A i \in 1..Len(q) : q[i].m = "TCF" => q[i].row # row
  BY SMT DEF RowsBelow, FbIndex
<1>. QED BY <1>2, <1>3 DEF OneAtRow

(* Taking a message removes it and changes nothing else. *)
LEMMA Taken ==
  ASSUME NEW q \in Seq(Messages), q # <<>>, NEW q2, q2 = Tail(q)
  PROVE  /\ q2 \in Seq(Messages) /\ Head(q) \in Messages
         /\ \A kinds : Has(q2, kinds) => Has(q, kinds)
         /\ \A kinds : Head(q).m \in kinds => Has(q, kinds)
         /\ \A kinds : One(q, kinds) => One(q2, kinds)
         /\ \A kinds : One(q, kinds) /\ Head(q).m \in kinds => ~Has(q2, kinds)
         /\ \A n : PagesAre(q, n) => PagesAre(q2, n) /\ (Head(q).m = "PAGE" => Head(q).page = n)
         /\ \A n : DcsAre(q, n) => DcsAre(q2, n) /\ (Head(q).m = "DCS" => Head(q).bits = FB[n].dcs)
         /\ \A n : RowsUpTo(q, n) => RowsUpTo(q2, n)
         /\ \A n : RowsBelow(q, n) => RowsBelow(q2, n) /\ (Head(q).m = "TCF" => Head(q).row < n)
         /\ \A n : OneAtRow(q, n) => OneAtRow(q2, n)
<1>1. /\ q2 \in Seq(Messages) /\ Len(q) \in Nat /\ Len(q) > 0 /\ Len(q2) = Len(q) - 1
      /\ \A i \in 1..Len(q2) : i + 1 \in 1..Len(q) /\ q2[i] = q[i + 1]
  BY SMT
<1>2. 1 \in 1..Len(q) /\ Head(q) = q[1] /\ Head(q) \in Messages
  BY SMT
<1>3. ASSUME NEW kinds PROVE /\ Has(q2, kinds) => Has(q, kinds)
                             /\ Head(q).m \in kinds => Has(q, kinds)
  BY <1>1, <1>2 DEF Has
<1>4. ASSUME NEW kinds, One(q, kinds) PROVE One(q2, kinds)
  <2>. SUFFICES ASSUME NEW i \in 1..Len(q2), NEW j \in 1..Len(q2),
                       q2[i].m \in kinds, q2[j].m \in kinds
                PROVE  i = j
    BY DEF One
  <2>1. i + 1 = j + 1
    BY <1>1, <1>4 DEF One
  <2>. QED BY <1>1, <2>1, SMT
<1>5. ASSUME NEW kinds, One(q, kinds), Head(q).m \in kinds PROVE ~Has(q2, kinds)
  <2>. SUFFICES ASSUME NEW i \in 1..Len(q2), q2[i].m \in kinds PROVE FALSE
    BY DEF Has
  <2>1. i + 1 = 1
    BY <1>1, <1>2, <1>5 DEF One
  <2>. QED BY <1>1, <2>1, SMT
<1>6. ASSUME NEW n, PagesAre(q, n)
      PROVE  PagesAre(q2, n) /\ (Head(q).m = "PAGE" => Head(q).page = n)
  BY <1>1, <1>2, <1>6 DEF PagesAre
<1>7. ASSUME NEW n, DcsAre(q, n)
      PROVE  DcsAre(q2, n) /\ (Head(q).m = "DCS" => Head(q).bits = FB[n].dcs)
  BY <1>1, <1>2, <1>7 DEF DcsAre
<1>8. ASSUME NEW n, RowsUpTo(q, n) PROVE RowsUpTo(q2, n)
  BY <1>1, <1>8 DEF RowsUpTo
<1>9. ASSUME NEW n, RowsBelow(q, n)
      PROVE  RowsBelow(q2, n) /\ (Head(q).m = "TCF" => Head(q).row < n)
  BY <1>1, <1>2, <1>9 DEF RowsBelow
<1>10. ASSUME NEW n, OneAtRow(q, n) PROVE OneAtRow(q2, n)
  <2>. SUFFICES ASSUME NEW i \in 1..Len(q2), NEW j \in 1..Len(q2),
                       q2[i].m = "TCF", q2[j].m = "TCF", q2[i].row = n, q2[j].row = n
                PROVE  i = j
    BY DEF OneAtRow
  <2>1. i + 1 = j + 1
    BY <1>1, <1>10 DEF OneAtRow
  <2>. QED BY <1>1, <2>1, SMT
<1>. QED BY <1>1, <1>2, <1>3, <1>4, <1>5, <1>6, <1>7, <1>8, <1>9, <1>10

(* The training check whose turn it was is gone: only older ones are left. *)
LEMMA TakenTcf ==
  ASSUME NEW q \in Seq(Messages), q # <<>>, NEW q2, q2 = Tail(q), NEW row \in FbIndex,
         Head(q).m = "TCF", Head(q).row = row, OneAtRow(q, row), RowsUpTo(q, row)
  PROVE  RowsBelow(q2, row)
<1>1. /\ Len(q) \in Nat /\ Len(q) > 0 /\ Len(q2) = Len(q) - 1
      /\ \A i \in 1..Len(q2) : i + 1 \in 1..Len(q) /\ q2[i] = q[i + 1] /\ q[i + 1] \in Messages
  BY SMT
<1>2. 1 \in 1..Len(q) /\ Head(q) = q[1]
  BY SMT
<1>. SUFFICES ASSUME NEW i \in 1..Len(q2), q2[i].m = "TCF" PROVE q2[i].row < row
  BY DEF RowsBelow
<1>3. q2[i].row \in FbIndex
  BY <1>1, MessageFields DEF Carriers
<1>4. q2[i].row <= row
  BY <1>1 DEF RowsUpTo
<1>5. q2[i].row # row
  <2>1. q2[i].row = row => i + 1 = 1
    BY <1>1, <1>2 DEF OneAtRow
  <2>. QED BY <1>1, <2>1, SMT
<1>. QED BY <1>3, <1>4, <1>5, SMT DEF FbIndex

(* Every row used before is below the next one. *)
LEMMA NextRow ==
  ASSUME NEW q \in Seq(Messages), NEW row \in FbIndex, NEW row2 \in FbIndex, row < row2,
         RowsUpTo(q, row)
  PROVE  RowsUpTo(q, row2) /\ RowsBelow(q, row2) /\ OneAtRow(q, row2)
<1>1. ASSUME NEW i \in 1..Len(q), q[i].m = "TCF"
      PROVE  q[i].row < row2 /\ q[i].row <= row2 /\ q[i].row # row2
  <2>1. q[i] \in Messages
    OBVIOUS
  <2>2. q[i].row \in FbIndex
    BY <1>1, <2>1, MessageFields DEF Carriers
  <2>3. q[i].row <= row
    BY <1>1 DEF RowsUpTo
  <2>. QED BY <2>2, <2>3, SMT DEF FbIndex
<1>. QED BY <1>1 DEF RowsUpTo, RowsBelow, OneAtRow

(* What holds of a queue that lacks a kind of message. *)
LEMMA Lacks ==
  ASSUME NEW q
  PROVE  /\ \A kinds, more : kinds \subseteq more /\ Has(q, kinds) => Has(q, more)
         /\ \A kinds, more : kinds \subseteq more /\ One(q, more) => One(q, kinds)
         /\ \A kinds : ~Has(q, kinds) => One(q, kinds)
         /\ ~Has(q, {"PAGE"}) => \A n : PagesAre(q, n)
         /\ ~Has(q, {"DCS"}) => \A n : DcsAre(q, n)
         /\ ~Has(q, {"TCF"}) => \A n : RowsUpTo(q, n) /\ RowsBelow(q, n) /\ OneAtRow(q, n)
<1>1. ASSUME NEW kinds, NEW more, kinds \subseteq more
      PROVE  /\ Has(q, kinds) => Has(q, more)
             /\ One(q, more) => One(q, kinds)
  BY <1>1 DEF Has, One
<1>2. ASSUME NEW kinds, ~Has(q, kinds) PROVE One(q, kinds)
  BY <1>2 DEF Has, One
<1>3. ASSUME ~Has(q, {"PAGE"}), NEW n PROVE PagesAre(q, n)
  BY <1>3 DEF Has, PagesAre
<1>4. ASSUME ~Has(q, {"DCS"}), NEW n PROVE DcsAre(q, n)
  BY <1>4 DEF Has, DcsAre
<1>5. ASSUME ~Has(q, {"TCF"}), NEW n
      PROVE  RowsUpTo(q, n) /\ RowsBelow(q, n) /\ OneAtRow(q, n)
  BY <1>5 DEF Has, RowsUpTo, RowsBelow, OneAtRow
<1>. QED BY <1>1, <1>2, <1>3, <1>4, <1>5

-----------------------------------------------------------------------------
(***************************************************************************)
(* The two parties by their role, and what a step of one leaves alone.     *)
(***************************************************************************)
LEMMA RoleFacts ==
  /\ Sender \in Parties /\ Receiver \in Parties /\ Sender # Receiver
  /\ Peer(Sender) = Receiver /\ Peer(Receiver) = Sender
  /\ \A p \in Parties : p = Sender \/ p = Receiver
BY DEF Sender, Receiver, Peer, Parties

LEMMA SameRoles ==
  ASSUME UNCHANGED fixed
  PROVE  Sender' = Sender /\ Receiver' = Receiver
BY DEF fixed, Sender, Receiver

LEMMA Moves ==
  ASSUME TypeOK, UNCHANGED fixed
  PROVE  /\ \A s, ms : Go(Sender, s, ms) =>
              sst' = s /\ rst' = rst /\ sres' = sres /\ rres' = rres
         /\ \A s, ms : Go(Receiver, s, ms) =>
              rst' = s /\ sst' = sst /\ sres' = sres /\ rres' = rres
         /\ \A r : Finish(Sender, r) =>
              sst' = "ST_DONE" /\ sres' = r /\ rst' = rst /\ rres' = rres
         /\ \A r : Finish(Receiver, r) =>
              rst' = "ST_DONE" /\ rres' = r /\ sst' = sst /\ sres' = sres
         /\ UNCHANGED engineVars =>
              rst' = rst /\ sst' = sst /\ sres' = sres /\ rres' = rres
<1>1. st \in [Parties -> Substates] /\ result \in [Parties -> CallResults]
  BY DEF TypeOK
<1>. QED BY <1>1, RoleFacts, SameRoles DEF Go, Finish, sst, rst, sres, rres, engineVars

LEMMA Exchanges ==
  ASSUME TypeOK, UNCHANGED fixed
  PROVE  /\ toR \in Seq(Messages) /\ toS \in Seq(Messages)
         /\ \A msg : Puts(Sender, msg) => toR' \in Arrivals(toR, msg) /\ toS' = toS
         /\ \A msg : Puts(Receiver, msg) => toS' \in Arrivals(toS, msg) /\ toR' = toR
         /\ \A id, msg : PutsBurst(Sender, id, msg) =>
              toS' = toS /\ \E q \in Arrivals(toR, [m |-> id]) : toR' \in Arrivals(q, msg)
         /\ \A id, msg : PutsBurst(Receiver, id, msg) =>
              toR' = toR /\ \E q \in Arrivals(toS, [m |-> id]) : toS' \in Arrivals(q, msg)
         /\ Takes(Sender) => toS' = Tail(toS) /\ toR' = toR
         /\ Takes(Receiver) => toR' = Tail(toR) /\ toS' = toS
         /\ UNCHANGED to => toR' = toR /\ toS' = toS
<1>1. to \in [Parties -> Seq(Messages)]
  BY DEF TypeOK
<1>2. toR \in Seq(Messages) /\ toS \in Seq(Messages)
  BY <1>1, RoleFacts DEF toR, toS
<1>3. ASSUME NEW msg
      PROVE  /\ Puts(Sender, msg) => toR' \in Arrivals(toR, msg) /\ toS' = toS
             /\ Puts(Receiver, msg) => toS' \in Arrivals(toS, msg) /\ toR' = toR
  BY <1>1, RoleFacts, SameRoles DEF Puts, toR, toS
<1>4. ASSUME NEW id, NEW msg
      PROVE  /\ PutsBurst(Sender, id, msg) =>
                  toS' = toS /\ \E q \in Arrivals(toR, [m |-> id]) : toR' \in Arrivals(q, msg)
             /\ PutsBurst(Receiver, id, msg) =>
                  toR' = toR /\ \E q \in Arrivals(toS, [m |-> id]) : toS' \in Arrivals(q, msg)
  BY <1>1, RoleFacts, SameRoles DEF PutsBurst, toR, toS
<1>5. /\ Takes(Sender) => toS' = Tail(toS) /\ toR' = toR
      /\ Takes(Receiver) => toR' = Tail(toR) /\ toS' = toS
      /\ UNCHANGED to => toR' = toR /\ toS' = toS
  BY <1>1, RoleFacts, SameRoles DEF Takes, toR, toS
<1>. QED BY <1>2, <1>3, <1>4, <1>5

-----------------------------------------------------------------------------
(***************************************************************************)
(* Types, and timers that run only while a party waits.                    *)
(***************************************************************************)
(* A row of the ladder is followed by a later one. *)
LEMMA Rows ==
  ASSUME TypeOK
  PROVE  /\ \A p \in Parties : LET row == NextAllowedFb(fallback + 1, Allowed[p]) IN
              row # NoFb => row \in FbIndex /\ fallback < row
         /\ \A p \in Parties : \A bits :
              StartFallback(p, bits) # NoFb => StartFallback(p, bits) \in FbIndex
         /\ \A bits : ParseDcs(bits) \in FbIndex
         /\ \A row \in FbIndex : ParseDcs(FB[row].dcs) = row
<1>1. fallback \in FbIndex /\ fallback \in Int
  BY SMT DEF TypeOK, FbIndex
<1>2. ASSUME NEW p \in Parties
      PROVE  LET row == NextAllowedFb(fallback + 1, Allowed[p]) IN
             row # NoFb => row \in FbIndex /\ fallback < row
  <2>. DEFINE row == NextAllowedFb(fallback + 1, Allowed[p])
  <2>1. row \in FbIndex \cup {NoFb} /\ (row # NoFb => row >= fallback + 1)
    BY <1>1, NextAllowedFbCorrect
  <2>. QED BY <1>1, <2>1, SMT DEF FbIndex
<1>3. ASSUME NEW p \in Parties, NEW bits, StartFallback(p, bits) # NoFb
      PROVE  StartFallback(p, bits) \in FbIndex
  <2>1. PickFallback(bits) \in Int
    BY DEF PickFallback, NoFb
  <2>. QED BY <1>3, <2>1, NextAllowedFbCorrect DEF StartFallback
<1>4. ASSUME NEW bits PROVE ParseDcs(bits) \in FbIndex
  <2>1. FbFromDcs(bits) \in FbIndex \cup {NoFb}
    BY DEF FbFromDcs
  <2>. QED BY <2>1 DEF ParseDcs, FbIndex
<1>5. ASSUME NEW row \in FbIndex PROVE ParseDcs(FB[row].dcs) = row
  BY FbFromDcsInvertsFB, SMT DEF ParseDcs, NoFb, FbIndex
<1>. QED BY <1>2, <1>3, <1>4, <1>5

EngineOK == /\ st \in [Parties -> Substates]
            /\ timer \in [Parties -> {0, 3000, 6000, 7000, 35000}]
            /\ result \in [Parties -> CallResults]

LineOK == to \in [Parties -> Seq(Messages)]

LEMMA EngineTyped ==
  ASSUME TypeOK, NEW p \in Parties
  PROVE  /\ \A s \in Substates : \A ms \in {0, 3000, 6000, 7000, 35000} : Go(p, s, ms) => EngineOK'
         /\ \A r \in CallResults : Finish(p, r) => EngineOK'
         /\ UNCHANGED engineVars => EngineOK'
<1>1. EngineOK
  BY DEF TypeOK, EngineOK
<1>2. ASSUME NEW s \in Substates, NEW ms \in {0, 3000, 6000, 7000, 35000}, Go(p, s, ms)
      PROVE  EngineOK'
  BY <1>1, <1>2 DEF EngineOK, Go
<1>3. ASSUME NEW r \in CallResults, Finish(p, r) PROVE EngineOK'
  <2>1. "ST_DONE" \in Substates
    BY DEF Substates
  <2>. QED BY <1>1, <1>3, <2>1 DEF EngineOK, Finish
<1>4. ASSUME UNCHANGED engineVars PROVE EngineOK'
  BY <1>1, <1>4 DEF EngineOK, engineVars
<1>. QED BY <1>2, <1>3, <1>4

LEMMA LineTyped ==
  ASSUME TypeOK, NEW p \in Parties
  PROVE  /\ \A msg \in Messages : Puts(p, msg) => LineOK'
         /\ \A id \in IdFrames : \A msg \in Messages : PutsBurst(p, id, msg) => LineOK'
         /\ \A kinds : Hears(p, kinds) =>
              to[p] # <<>> /\ Head(to[p]) \in Messages /\ Head(to[p]).m \in kinds
         /\ to[p] # <<>> /\ Takes(p) => LineOK'
         /\ UNCHANGED to => LineOK'
<1>1. to \in [Parties -> Seq(Messages)] /\ Peer(p) \in Parties
  BY DEF TypeOK, Peer, Parties
<1>2. ASSUME NEW msg \in Messages, Puts(p, msg) PROVE LineOK'
  BY <1>1, <1>2, Arrived DEF Puts, LineOK
<1>3. ASSUME NEW id \in IdFrames, NEW msg \in Messages, PutsBurst(p, id, msg) PROVE LineOK'
  <2>1. [m |-> id] \in Messages
    BY DEF Messages
  <2>. QED BY <1>1, <1>3, <2>1, Arrived DEF PutsBurst, LineOK
<1>4. ASSUME NEW kinds, Hears(p, kinds)
      PROVE  to[p] # <<>> /\ Head(to[p]) \in Messages /\ Head(to[p]).m \in kinds
  BY <1>1, <1>4, SMT DEF Hears
<1>5. ASSUME to[p] # <<>>, Takes(p) PROVE LineOK'
  <2>1. Tail(to[p]) \in Seq(Messages)
    BY <1>1, <1>5, SMT
  <2>. QED BY <1>1, <1>5, <2>1 DEF Takes, LineOK
<1>6. ASSUME UNCHANGED to PROVE LineOK'
  BY <1>1, <1>6 DEF LineOK
<1>. QED BY <1>2, <1>3, <1>4, <1>5, <1>6

(* The substates by name, and the messages by the step that sends them. *)
LEMMA Known ==
  /\ {"A_SEND_CED", "A_SEND_DIS", "A_WAIT_DCS", "C_WAIT_DIS", "C_SEND_DTC", "C_SEND_DCS",
      "C_DCS_PAUSE", "C_SEND_TCF", "C_SEND_IMAGE", "C_SEND_POST", "C_SEND_DCN", "C_WAIT_CFR",
      "C_WAIT_MCF", "A_SEND_CFR", "A_SEND_FTT", "A_SEND_MCF", "A_SEND_RTN", "A_REACK",
      "A_RECV_TCF", "A_RECV_IMAGE", "A_WAIT_POST", "A_WAIT_DCN", "ST_DONE"} \subseteq Substates
  /\ {"OK", "INCOMPAT", "GENERAL", "TIMEOUT"} \subseteq CallResults
BY DEF Substates, Sending, SenderSending, SenderWaiting, ReceiverSending, ReceiverWaiting,
       Opening, CallResults

LEMMA KnownMessages ==
  ASSUME TypeOK
  PROVE  /\ \A id \in IdFrames : [m |-> id] \in Messages
         /\ {"CSI", "CIG", "TSI"} \subseteq IdFrames
         /\ \A kind \in {"MPS", "EOP", "CFR", "FTT", "MCF", "RTN", "DCN"} : [m |-> kind] \in Messages
         /\ \A p \in Parties :
              /\ [m |-> "DIS", bits |-> DisBits(Allowed[p]), doc |-> setup.doc] \in Messages
              /\ [m |-> "DTC", bits |-> DisBits(Allowed[p])] \in Messages
         /\ [m |-> "DCS", bits |-> FB[fallback].dcs] \in Messages
         /\ [m |-> "TCF", row |-> fallback] \in Messages
         /\ [m |-> "PAGE", row |-> fallback, page |-> cur_page] \in Messages
         /\ [m |-> PostMessage] \in Messages
<1>1. fallback \in FbIndex /\ cur_page \in 0..(PAGES - 1) /\ setup.doc \in BOOLEAN
  BY DEF TypeOK, CallSetups
<1>2. FB[fallback].dcs \in SUBSET {3, 4, 6}
  BY <1>1, SpeedBits
<1>3. ASSUME NEW p \in Parties PROVE DisBits(Allowed[p]) \in SUBSET {3, 4, 6}
  BY DEF DisBits
<1>4. PostMessage \in {"MPS", "EOP"}
  BY DEF PostMessage
<1>. QED BY <1>1, <1>2, <1>3, <1>4 DEF Messages, IdFrames, PostKinds

SenderOK == /\ fallback \in FbIndex /\ cur_page \in 0..(PAGES - 1) /\ pages_tx \in {0, PAGES}
            /\ rtn_count \in 0..(RTN_LIMIT + 1) /\ post_retries \in 0..POST_RETRIES
            /\ dis_retries \in 0..DIS_RETRIES

ReceiverOK == /\ rfallback \in FbIndex /\ fast \in BOOLEAN /\ rx_page_bad \in BOOLEAN
              /\ last_post_fcf \in PostKinds /\ pages \in Seq(0..(PAGES - 1))

LEMMA PartsTyped ==
  /\ TypeOK => SenderOK /\ ReceiverOK
  /\ TypeOK /\ UNCHANGED fixed /\ EngineOK' /\ LineOK' /\ SenderOK' /\ ReceiverOK' => TypeOK'
  /\ SenderOK /\ UNCHANGED <<senderVars, dis_retries>> => SenderOK'
  /\ ReceiverOK /\ UNCHANGED receiverVars => ReceiverOK'
<1>1. /\ TypeOK => SenderOK /\ ReceiverOK
      /\ TypeOK /\ UNCHANGED fixed /\ EngineOK' /\ LineOK' /\ SenderOK' /\ ReceiverOK' => TypeOK'
  BY DEF TypeOK, SenderOK, ReceiverOK, EngineOK, LineOK, fixed
<1>2. SenderOK /\ UNCHANGED <<senderVars, dis_retries>> => SenderOK'
  BY DEF SenderOK, senderVars
<1>3. ReceiverOK /\ UNCHANGED receiverVars => ReceiverOK'
  BY DEF ReceiverOK, receiverVars
<1>. QED BY <1>1, <1>2, <1>3

(* A frame without effect may switch the fast modem off, nothing more. *)
LEMMA FastTyped ==
  ASSUME ReceiverOK, fast' \in BOOLEAN, UNCHANGED <<rfallback, rx_page_bad, last_post_fcf, pages>>
  PROVE  ReceiverOK'
BY DEF ReceiverOK

(* Every action keeps the types. *)
LEMMA TypeStep ==
  ASSUME TypeOK, RolesInv, NEW p \in Parties, StepComplete(p) \/ Hear(p) \/ Expire(p)
  PROVE  TypeOK'
<1>1. UNCHANGED fixed
  BY DEF StepComplete, Hear, Expire
<1>2. PAGES \in Nat /\ PAGES > 0 /\ RTN_LIMIT \in Nat /\ POST_RETRIES \in Nat /\ DIS_RETRIES \in Nat
  BY CallAssumption, SMT
<1>3. SenderOK /\ ReceiverOK /\ st[p] \in Substates
  BY PartsTyped DEF TypeOK
<1>4. CASE SendDcs(p)
  <2>1. EngineOK'
    BY <1>4, EngineTyped, Known DEF SendDcs
  <2>2. LineOK'
    BY <1>4, LineTyped, KnownMessages DEF SendDcs
  <2>3. SenderOK'
    BY <1>3, <1>4, PartsTyped DEF SendDcs
  <2>4. ReceiverOK'
    BY <1>3, <1>4, PartsTyped DEF SendDcs
  <2>. QED BY <1>1, <2>1, <2>2, <2>3, <2>4, PartsTyped
<1>5. CASE PauseAfterDcs(p)
  <2>1. EngineOK'
    BY <1>5, EngineTyped, Known DEF PauseAfterDcs
  <2>2. LineOK'
    BY <1>5, LineTyped DEF PauseAfterDcs
  <2>3. SenderOK'
    BY <1>3, <1>5, PartsTyped DEF PauseAfterDcs
  <2>4. ReceiverOK'
    BY <1>3, <1>5, PartsTyped DEF PauseAfterDcs
  <2>. QED BY <1>1, <2>1, <2>2, <2>3, <2>4, PartsTyped
<1>6. CASE SendTcf(p)
  <2>1. EngineOK'
    BY <1>6, EngineTyped, Known DEF SendTcf
  <2>2. LineOK'
    BY <1>6, LineTyped, KnownMessages DEF SendTcf
  <2>3. SenderOK'
    BY <1>3, <1>6, PartsTyped DEF SendTcf
  <2>4. ReceiverOK'
    BY <1>3, <1>6, PartsTyped DEF SendTcf
  <2>. QED BY <1>1, <2>1, <2>2, <2>3, <2>4, PartsTyped
<1>7. CASE SendImage(p)
  <2>1. EngineOK'
    BY <1>7, EngineTyped, Known DEF SendImage
  <2>2. LineOK'
    BY <1>7, LineTyped, KnownMessages DEF SendImage
  <2>3. SenderOK'
    BY <1>2, <1>3, <1>7, SMT DEF SendImage, SenderOK
  <2>4. ReceiverOK'
    BY <1>3, <1>7, PartsTyped DEF SendImage
  <2>. QED BY <1>1, <2>1, <2>2, <2>3, <2>4, PartsTyped
<1>8. CASE SendPost(p)
  <2>1. EngineOK'
    BY <1>8, EngineTyped, Known DEF SendPost
  <2>2. LineOK'
    BY <1>8, LineTyped, KnownMessages DEF SendPost
  <2>3. SenderOK'
    BY <1>3, <1>8, PartsTyped DEF SendPost
  <2>4. ReceiverOK'
    BY <1>3, <1>8, PartsTyped DEF SendPost
  <2>. QED BY <1>1, <2>1, <2>2, <2>3, <2>4, PartsTyped
<1>9. CASE SendDcn(p)
  <2>1. EngineOK'
    BY <1>9, EngineTyped, Known DEF SendDcn
  <2>2. LineOK'
    BY <1>9, LineTyped, KnownMessages DEF SendDcn
  <2>3. SenderOK'
    BY <1>3, <1>9, PartsTyped DEF SendDcn
  <2>4. ReceiverOK'
    BY <1>3, <1>9, PartsTyped DEF SendDcn
  <2>. QED BY <1>1, <2>1, <2>2, <2>3, <2>4, PartsTyped
<1>10. CASE SendCfr(p)
  <2>1. EngineOK'
    BY <1>10, EngineTyped, Known DEF SendCfr
  <2>2. LineOK'
    BY <1>10, LineTyped, KnownMessages DEF SendCfr
  <2>3. SenderOK'
    BY <1>3, <1>10, PartsTyped DEF SendCfr
  <2>4. ReceiverOK'
    BY <1>3, <1>10, FastTyped DEF SendCfr
  <2>. QED BY <1>1, <2>1, <2>2, <2>3, <2>4, PartsTyped
<1>11. CASE SendFttOrRtn(p)
  <2>1. EngineOK'
    BY <1>11, EngineTyped, Known DEF SendFttOrRtn
  <2>2. LineOK'
    BY <1>11, LineTyped, KnownMessages DEF SendFttOrRtn
  <2>3. SenderOK'
    BY <1>3, <1>11, PartsTyped DEF SendFttOrRtn
  <2>4. ReceiverOK'
    BY <1>3, <1>11, PartsTyped DEF SendFttOrRtn
  <2>. QED BY <1>1, <2>1, <2>2, <2>3, <2>4, PartsTyped
<1>12. CASE SendMcfNext(p)
  <2>1. EngineOK'
    BY <1>12, EngineTyped, Known DEF SendMcfNext
  <2>2. LineOK'
    BY <1>12, LineTyped, KnownMessages DEF SendMcfNext
  <2>3. SenderOK'
    BY <1>3, <1>12, PartsTyped DEF SendMcfNext
  <2>4. ReceiverOK'
    BY <1>3, <1>12, FastTyped DEF SendMcfNext
  <2>. QED BY <1>1, <2>1, <2>2, <2>3, <2>4, PartsTyped
<1>13. CASE SendMcfLast(p)
  <2>1. EngineOK'
    BY <1>13, EngineTyped, Known DEF SendMcfLast
  <2>2. LineOK'
    BY <1>13, LineTyped, KnownMessages DEF SendMcfLast
  <2>3. SenderOK'
    BY <1>3, <1>13, PartsTyped DEF SendMcfLast
  <2>4. ReceiverOK'
    BY <1>3, <1>13, PartsTyped DEF SendMcfLast
  <2>. QED BY <1>1, <2>1, <2>2, <2>3, <2>4, PartsTyped
<1>14. CASE p = "answerer" /\ SendCed
  <2>1. EngineOK'
    BY <1>14, EngineTyped, Known DEF SendCed
  <2>2. LineOK'
    BY <1>14, LineTyped DEF SendCed
  <2>3. SenderOK'
    BY <1>3, <1>14, PartsTyped DEF SendCed
  <2>4. ReceiverOK'
    BY <1>3, <1>14, PartsTyped DEF SendCed
  <2>. QED BY <1>1, <2>1, <2>2, <2>3, <2>4, PartsTyped
<1>15. CASE p = "answerer" /\ SendDis
  <2>1. EngineOK'
    BY <1>15, EngineTyped, Known DEF SendDis
  <2>2. LineOK'
    <3>1. [m |-> "DIS", bits |-> DisBits(Allowed[p]), doc |-> setup.doc] \in Messages /\ "CSI" \in IdFrames
      BY KnownMessages
    <3>2. PutsBurst(p, "CSI", [m |-> "DIS", bits |-> DisBits(Allowed[p]), doc |-> setup.doc])
      BY <1>15 DEF SendDis
    <3>. QED BY <3>1, <3>2, LineTyped
  <2>3. SenderOK'
    BY <1>3, <1>15, PartsTyped DEF SendDis
  <2>4. ReceiverOK'
    BY <1>3, <1>15, PartsTyped DEF SendDis
  <2>. QED BY <1>1, <2>1, <2>2, <2>3, <2>4, PartsTyped
<1>16. CASE p = "caller" /\ SendDtc
  <2>1. EngineOK'
    BY <1>16, EngineTyped, Known DEF SendDtc
  <2>2. LineOK'
    <3>1. [m |-> "DTC", bits |-> DisBits(Allowed[p])] \in Messages /\ "CIG" \in IdFrames
      BY KnownMessages
    <3>2. PutsBurst(p, "CIG", [m |-> "DTC", bits |-> DisBits(Allowed[p])])
      BY <1>16 DEF SendDtc
    <3>. QED BY <3>1, <3>2, LineTyped
  <2>3. SenderOK'
    BY <1>3, <1>16, PartsTyped DEF SendDtc
  <2>4. ReceiverOK'
    BY <1>3, <1>16, PartsTyped DEF SendDtc
  <2>. QED BY <1>1, <2>1, <2>2, <2>3, <2>4, PartsTyped
<1>17. CASE HearCaps(p)
  <2>1. EngineOK'
    BY <1>17, EngineTyped, Known DEF HearCaps
  <2>2. LineOK'
    <3>1. to[p] # <<>> /\ Takes(p)
      BY <1>17, LineTyped DEF HearCaps, HearsCaps
    <3>. QED BY <3>1, LineTyped
  <2>3. SenderOK'
    BY <1>3, <1>17, Rows DEF HearCaps, SenderOK
  <2>4. ReceiverOK'
    BY <1>3, <1>17, PartsTyped DEF HearCaps
  <2>. QED BY <1>1, <2>1, <2>2, <2>3, <2>4, PartsTyped
<1>18. CASE HearCapsAbort(p)
  <2>1. EngineOK'
    BY <1>18, EngineTyped, Known DEF HearCapsAbort
  <2>2. LineOK'
    <3>1. to[p] # <<>> /\ Takes(p)
      BY <1>18, LineTyped DEF HearCapsAbort, HearsCaps
    <3>. QED BY <3>1, LineTyped
  <2>3. SenderOK'
    BY <1>3, <1>18, Rows DEF HearCapsAbort, SenderOK
  <2>4. ReceiverOK'
    BY <1>3, <1>18, PartsTyped DEF HearCapsAbort
  <2>. QED BY <1>1, <2>1, <2>2, <2>3, <2>4, PartsTyped
<1>19. CASE p = "caller" /\ HearDisPoll
  <2>1. EngineOK'
    BY <1>19, EngineTyped, Known DEF HearDisPoll
  <2>2. LineOK'
    <3>1. to[p] # <<>> /\ Takes(p)
      BY <1>19, LineTyped DEF HearDisPoll
    <3>. QED BY <3>1, LineTyped
  <2>3. SenderOK'
    BY <1>3, <1>19, PartsTyped DEF HearDisPoll
  <2>4. ReceiverOK'
    BY <1>3, <1>19, PartsTyped DEF HearDisPoll
  <2>. QED BY <1>1, <2>1, <2>2, <2>3, <2>4, PartsTyped
<1>20. CASE p = "caller" /\ HearDisNoDoc
  <2>1. EngineOK'
    BY <1>20, EngineTyped, Known DEF HearDisNoDoc
  <2>2. LineOK'
    <3>1. to[p] # <<>> /\ Takes(p)
      BY <1>20, LineTyped DEF HearDisNoDoc
    <3>. QED BY <3>1, LineTyped
  <2>3. SenderOK'
    BY <1>3, <1>20, PartsTyped DEF HearDisNoDoc
  <2>4. ReceiverOK'
    BY <1>3, <1>20, PartsTyped DEF HearDisNoDoc
  <2>. QED BY <1>1, <2>1, <2>2, <2>3, <2>4, PartsTyped
<1>21. CASE HearCfr(p)
  <2>1. EngineOK'
    BY <1>21, EngineTyped, Known DEF HearCfr
  <2>2. LineOK'
    BY <1>21, LineTyped DEF HearCfr
  <2>3. SenderOK'
    BY <1>3, <1>21, PartsTyped DEF HearCfr
  <2>4. ReceiverOK'
    BY <1>3, <1>21, PartsTyped DEF HearCfr
  <2>. QED BY <1>1, <2>1, <2>2, <2>3, <2>4, PartsTyped
<1>22. CASE HearFtt(p)
  <2>1. EngineOK'
    BY <1>22, EngineTyped, Known DEF HearFtt
  <2>2. LineOK'
    BY <1>22, LineTyped DEF HearFtt
  <2>3. SenderOK'
    BY <1>3, <1>22, Rows DEF HearFtt, SenderOK
  <2>4. ReceiverOK'
    BY <1>3, <1>22, PartsTyped DEF HearFtt
  <2>. QED BY <1>1, <2>1, <2>2, <2>3, <2>4, PartsTyped
<1>23. CASE HearFttGiveUp(p)
  <2>1. EngineOK'
    BY <1>23, EngineTyped, Known DEF HearFttGiveUp
  <2>2. LineOK'
    BY <1>23, LineTyped DEF HearFttGiveUp
  <2>3. SenderOK'
    BY <1>3, <1>23, PartsTyped DEF HearFttGiveUp
  <2>4. ReceiverOK'
    BY <1>3, <1>23, PartsTyped DEF HearFttGiveUp
  <2>. QED BY <1>1, <2>1, <2>2, <2>3, <2>4, PartsTyped
<1>24. CASE HearMcfNext(p)
  <2>1. EngineOK'
    BY <1>24, EngineTyped, Known DEF HearMcfNext
  <2>2. LineOK'
    BY <1>24, LineTyped DEF HearMcfNext
  <2>3. SenderOK'
    BY <1>2, <1>3, <1>24, SMT DEF HearMcfNext, SenderOK, PostMessage
  <2>4. ReceiverOK'
    BY <1>3, <1>24, PartsTyped DEF HearMcfNext
  <2>. QED BY <1>1, <2>1, <2>2, <2>3, <2>4, PartsTyped
<1>25. CASE HearMcfLast(p)
  <2>1. EngineOK'
    BY <1>25, EngineTyped, Known DEF HearMcfLast
  <2>2. LineOK'
    BY <1>25, LineTyped DEF HearMcfLast
  <2>3. SenderOK'
    BY <1>2, <1>3, <1>25, SMT DEF HearMcfLast, SenderOK, PostMessage
  <2>4. ReceiverOK'
    BY <1>3, <1>25, PartsTyped DEF HearMcfLast
  <2>. QED BY <1>1, <2>1, <2>2, <2>3, <2>4, PartsTyped
<1>26. CASE HearRtn(p)
  <2>1. EngineOK'
    BY <1>26, EngineTyped, Known DEF HearRtn
  <2>2. LineOK'
    BY <1>26, LineTyped DEF HearRtn
  <2>3. SenderOK'
    <3>1. fallback' \in FbIndex
      BY <1>26, Rows DEF HearRtn
    <3>2. rtn_count' \in 0..(RTN_LIMIT + 1)
      BY <1>2, <1>3, <1>26, SMT DEF HearRtn, SenderOK
    <3>. QED BY <1>3, <1>26, <3>1, <3>2 DEF HearRtn, SenderOK
  <2>4. ReceiverOK'
    BY <1>3, <1>26, PartsTyped DEF HearRtn
  <2>. QED BY <1>1, <2>1, <2>2, <2>3, <2>4, PartsTyped
<1>27. CASE HearRtnGiveUp(p)
  <2>1. EngineOK'
    BY <1>27, EngineTyped, Known DEF HearRtnGiveUp
  <2>2. LineOK'
    BY <1>27, LineTyped DEF HearRtnGiveUp
  <2>3. SenderOK'
    <3>1. p = Sender /\ sst # "ST_DONE"
      BY <1>27, RoleFacts DEF HearRtnGiveUp, RolesInv, sst, rst, ReceiverSending, ReceiverWaiting,
         Opening
    <3>2. rtn_count' \in 0..(RTN_LIMIT + 1)
      BY <1>2, <1>3, <1>27, <3>1, SMT DEF HearRtnGiveUp, SenderOK, RolesInv
    <3>. QED BY <1>3, <1>27, <3>2 DEF HearRtnGiveUp, SenderOK
  <2>4. ReceiverOK'
    BY <1>3, <1>27, PartsTyped DEF HearRtnGiveUp
  <2>. QED BY <1>1, <2>1, <2>2, <2>3, <2>4, PartsTyped
<1>28. CASE HearDcs(p)
  <2>1. EngineOK'
    BY <1>28, EngineTyped, Known DEF HearDcs
  <2>2. LineOK'
    BY <1>28, LineTyped DEF HearDcs
  <2>3. SenderOK'
    BY <1>3, <1>28, PartsTyped DEF HearDcs
  <2>4. ReceiverOK'
    BY <1>3, <1>28, Rows DEF HearDcs, ReceiverOK
  <2>. QED BY <1>1, <2>1, <2>2, <2>3, <2>4, PartsTyped
<1>29. CASE HearTcf(p)
  <2>1. EngineOK'
    BY <1>29, EngineTyped, Known DEF HearTcf
  <2>2. LineOK'
    <3>1. to[p] # <<>> /\ Takes(p)
      BY <1>29, LineTyped DEF HearTcf, HearsCarrier
    <3>. QED BY <3>1, LineTyped
  <2>3. SenderOK'
    BY <1>3, <1>29, PartsTyped DEF HearTcf
  <2>4. ReceiverOK'
    BY <1>3, <1>29, FastTyped DEF HearTcf
  <2>. QED BY <1>1, <2>1, <2>2, <2>3, <2>4, PartsTyped
<1>30. CASE HearPage(p)
  <2>1. EngineOK'
    BY <1>30, EngineTyped, Known DEF HearPage
  <2>2. LineOK'
    <3>1. to[p] # <<>> /\ Takes(p)
      BY <1>30, LineTyped DEF HearPage, HearsCarrier
    <3>. QED BY <3>1, LineTyped
  <2>3. SenderOK'
    BY <1>3, <1>30, PartsTyped DEF HearPage
  <2>4. ReceiverOK'
    <3>1. PICK bad \in BOOLEAN : (bad \/ Hears(p, {"PAGE"})) /\ finish_rx_page(bad, Head(to[p]))
      BY <1>30 DEF HearPage
    <3>2. rx_page_bad' \in BOOLEAN /\ fast' = FALSE /\ UNCHANGED <<rfallback, last_post_fcf>>
      BY <1>30, <3>1 DEF HearPage, finish_rx_page
    <3>3. pages' \in Seq(0..(PAGES - 1))
      <4>1. CASE bad
        BY <1>3, <3>1, <4>1 DEF finish_rx_page, ReceiverOK
      <4>2. CASE ~bad
        <5>1. Head(to[p]).page \in 0..(PAGES - 1)
          BY <3>1, <4>2, LineTyped, MessageFields
        <5>. QED BY <1>3, <3>1, <4>2, <5>1 DEF finish_rx_page, ReceiverOK
      <4>. QED BY <4>1, <4>2
    <3>. QED BY <1>3, <3>2, <3>3 DEF ReceiverOK
  <2>. QED BY <1>1, <2>1, <2>2, <2>3, <2>4, PartsTyped
<1>31. CASE HearPost(p)
  <2>1. EngineOK'
    BY <1>31, EngineTyped, Known DEF HearPost
  <2>2. LineOK'
    BY <1>31, LineTyped DEF HearPost
  <2>3. SenderOK'
    BY <1>3, <1>31, PartsTyped DEF HearPost
  <2>4. ReceiverOK'
    <3>1. Head(to[p]).m \in PostKinds
      BY <1>31, LineTyped DEF HearPost
    <3>. QED BY <1>3, <1>31, <3>1 DEF HearPost, ReceiverOK
  <2>. QED BY <1>1, <2>1, <2>2, <2>3, <2>4, PartsTyped
<1>32. CASE HearPostAgain(p)
  <2>1. EngineOK'
    BY <1>32, EngineTyped, Known DEF HearPostAgain
  <2>2. LineOK'
    BY <1>32, LineTyped DEF HearPostAgain
  <2>3. SenderOK'
    BY <1>3, <1>32, PartsTyped DEF HearPostAgain
  <2>4. ReceiverOK'
    BY <1>3, <1>32, PartsTyped DEF HearPostAgain
  <2>. QED BY <1>1, <2>1, <2>2, <2>3, <2>4, PartsTyped
<1>33. CASE HearDcn(p)
  <2>1. EngineOK'
    BY <1>33, EngineTyped, Known DEF HearDcn
  <2>2. LineOK'
    BY <1>33, LineTyped DEF HearDcn
  <2>3. SenderOK'
    BY <1>3, <1>33, PartsTyped DEF HearDcn
  <2>4. ReceiverOK'
    BY <1>3, <1>33, PartsTyped DEF HearDcn
  <2>. QED BY <1>1, <2>1, <2>2, <2>3, <2>4, PartsTyped
<1>34. CASE IgnoreFrame(p)
  <2>1. EngineOK'
    BY <1>34, <1>3, EngineTyped DEF IgnoreFrame
  <2>2. LineOK'
    BY <1>34, LineTyped DEF IgnoreFrame
  <2>3. SenderOK'
    BY <1>3, <1>34, PartsTyped DEF IgnoreFrame
  <2>4. ReceiverOK'
    BY <1>3, <1>34, FastTyped DEF IgnoreFrame
  <2>. QED BY <1>1, <2>1, <2>2, <2>3, <2>4, PartsTyped
<1>35. CASE IgnoreCarrier(p)
  <2>1. EngineOK'
    BY <1>35, EngineTyped DEF IgnoreCarrier
  <2>2. LineOK'
    <3>1. to[p] # <<>> /\ Takes(p)
      BY <1>35, LineTyped DEF IgnoreCarrier
    <3>. QED BY <3>1, LineTyped
  <2>3. SenderOK'
    BY <1>3, <1>35, PartsTyped DEF IgnoreCarrier
  <2>4. ReceiverOK'
    BY <1>3, <1>35, PartsTyped DEF IgnoreCarrier
  <2>. QED BY <1>1, <2>1, <2>2, <2>3, <2>4, PartsTyped
<1>36. CASE ExpireTcf(p)
  <2>1. EngineOK'
    BY <1>36, EngineTyped, Known DEF ExpireTcf
  <2>2. LineOK'
    BY <1>36, LineTyped DEF ExpireTcf
  <2>3. SenderOK'
    BY <1>3, <1>36, PartsTyped DEF ExpireTcf
  <2>4. ReceiverOK'
    BY <1>3, <1>36, FastTyped DEF ExpireTcf
  <2>. QED BY <1>1, <2>1, <2>2, <2>3, <2>4, PartsTyped
<1>37. CASE ExpirePost(p)
  <2>1. EngineOK'
    BY <1>37, EngineTyped, Known DEF ExpirePost
  <2>2. LineOK'
    BY <1>37, LineTyped DEF ExpirePost
  <2>3. SenderOK'
    BY <1>2, <1>3, <1>37, SMT DEF ExpirePost, SenderOK
  <2>4. ReceiverOK'
    BY <1>3, <1>37, PartsTyped DEF ExpirePost
  <2>. QED BY <1>1, <2>1, <2>2, <2>3, <2>4, PartsTyped
<1>38. CASE ExpireDis(p)
  <2>1. EngineOK'
    BY <1>38, EngineTyped, Known DEF ExpireDis
  <2>2. LineOK'
    BY <1>38, LineTyped DEF ExpireDis
  <2>3. SenderOK'
    <3>1. dis_retries' \in 0..DIS_RETRIES
      BY <1>2, <1>3, <1>38, SMT DEF ExpireDis, MayRepeatDis, SenderOK
    <3>. QED BY <1>3, <1>38, <3>1 DEF ExpireDis, senderVars, SenderOK
  <2>4. ReceiverOK'
    BY <1>3, <1>38, PartsTyped DEF ExpireDis
  <2>. QED BY <1>1, <2>1, <2>2, <2>3, <2>4, PartsTyped
<1>39. CASE ExpireFinish(p)
  <2>1. EngineOK'
    BY <1>39, EngineTyped, Known DEF ExpireFinish
  <2>2. LineOK'
    BY <1>39, LineTyped DEF ExpireFinish
  <2>3. SenderOK'
    BY <1>3, <1>39, PartsTyped DEF ExpireFinish
  <2>4. ReceiverOK'
    BY <1>3, <1>39, PartsTyped DEF ExpireFinish
  <2>. QED BY <1>1, <2>1, <2>2, <2>3, <2>4, PartsTyped
<1>. QED
  BY <1>4, <1>5, <1>6, <1>7, <1>8, <1>9, <1>10, <1>11, <1>12, <1>13, <1>14, <1>15, <1>16, <1>17, <1>18, <1>19, <1>20, <1>21, <1>22, <1>23, <1>24, <1>25, <1>26, <1>27, <1>28, <1>29, <1>30, <1>31, <1>32, <1>33, <1>34, <1>35, <1>36, <1>37, <1>38, <1>39 DEF StepComplete, Hear, Expire

(* The substates that wait, by name. *)
LEMMA WaitingAre ==
  /\ \A s \in {"A_WAIT_DCS", "C_WAIT_CFR", "C_WAIT_MCF", "A_RECV_TCF", "A_RECV_IMAGE",
               "A_WAIT_POST", "A_WAIT_DCN"} : s \notin Sending \cup {"ST_DONE"}
  /\ \A s \in SenderSending \cup ReceiverSending : s \in Sending
BY DEF Sending, SenderSending, ReceiverSending

LEMMA TimerMoves ==
  ASSUME TypeOK, TimerInv, NEW p \in Parties
  PROVE  /\ \A s, ms :
              st[p] # "ST_DONE" /\ (s \notin Sending \cup {"ST_DONE"} \/ ms = 0) /\ Go(p, s, ms)
                => TimerInv'
         /\ \A r : Finish(p, r) => TimerInv'
         /\ Go(p, st[p], 0) => TimerInv'
         /\ UNCHANGED engineVars => TimerInv'
<1>. EngineOK
  BY DEF TypeOK, EngineOK
<1>1. ASSUME NEW s, NEW ms, st[p] # "ST_DONE", s \notin Sending \cup {"ST_DONE"} \/ ms = 0,
             Go(p, s, ms)
      PROVE  TimerInv'
  BY <1>1 DEF EngineOK, TimerInv, Go
<1>2. ASSUME NEW r, Finish(p, r) PROVE TimerInv'
  BY <1>2 DEF EngineOK, TimerInv, Finish
<1>3. ASSUME Go(p, st[p], 0) PROVE TimerInv'
  BY <1>3 DEF EngineOK, TimerInv, Go
<1>4. ASSUME UNCHANGED engineVars PROVE TimerInv'
  BY <1>4 DEF EngineOK, TimerInv, engineVars
<1>. QED BY <1>1, <1>2, <1>3, <1>4

(* No action leaves a timer running in a substate that sends. *)
LEMMA TimerStep ==
  ASSUME TypeOK, TimerInv, NEW p \in Parties, StepComplete(p) \/ Hear(p) \/ Expire(p)
  PROVE  TimerInv' 
<1>1. CASE SendDcs(p)
  BY <1>1, TimerMoves, WaitingAre DEF SendDcs
<1>2. CASE PauseAfterDcs(p)
  BY <1>2, TimerMoves, WaitingAre DEF PauseAfterDcs
<1>3. CASE SendTcf(p)
  BY <1>3, TimerMoves, WaitingAre DEF SendTcf
<1>4. CASE SendImage(p)
  BY <1>4, TimerMoves, WaitingAre DEF SendImage
<1>5. CASE SendPost(p)
  BY <1>5, TimerMoves, WaitingAre DEF SendPost
<1>6. CASE SendDcn(p)
  BY <1>6, TimerMoves DEF SendDcn
<1>7. CASE SendCfr(p)
  BY <1>7, TimerMoves, WaitingAre DEF SendCfr
<1>8. CASE SendFttOrRtn(p)
  BY <1>8, TimerMoves, WaitingAre DEF SendFttOrRtn
<1>9. CASE SendMcfNext(p)
  BY <1>9, TimerMoves, WaitingAre DEF SendMcfNext
<1>10. CASE SendMcfLast(p)
  BY <1>10, TimerMoves, WaitingAre DEF SendMcfLast
<1>11. CASE p = "answerer" /\ SendCed
  BY <1>11, TimerMoves, WaitingAre DEF SendCed
<1>12. CASE p = "answerer" /\ SendDis
  BY <1>12, TimerMoves, WaitingAre DEF SendDis
<1>13. CASE p = "caller" /\ SendDtc
  BY <1>13, TimerMoves, WaitingAre DEF SendDtc
<1>14. CASE HearCaps(p)
  BY <1>14, TimerMoves, WaitingAre DEF HearCaps, HearsCaps
<1>15. CASE HearCapsAbort(p)
  BY <1>15, TimerMoves DEF HearCapsAbort
<1>16. CASE p = "caller" /\ HearDisPoll
  BY <1>16, TimerMoves, WaitingAre DEF HearDisPoll
<1>17. CASE p = "caller" /\ HearDisNoDoc
  BY <1>17, TimerMoves DEF HearDisNoDoc
<1>18. CASE HearCfr(p)
  BY <1>18, TimerMoves, WaitingAre DEF HearCfr
<1>19. CASE HearFtt(p)
  BY <1>19, TimerMoves, WaitingAre DEF HearFtt
<1>20. CASE HearFttGiveUp(p)
  BY <1>20, TimerMoves DEF HearFttGiveUp
<1>21. CASE HearMcfNext(p)
  BY <1>21, TimerMoves, WaitingAre DEF HearMcfNext
<1>22. CASE HearMcfLast(p)
  BY <1>22, TimerMoves, WaitingAre DEF HearMcfLast
<1>23. CASE HearRtn(p)
  BY <1>23, TimerMoves, WaitingAre DEF HearRtn
<1>24. CASE HearRtnGiveUp(p)
  BY <1>24, TimerMoves DEF HearRtnGiveUp
<1>25. CASE HearDcs(p)
  BY <1>25, TimerMoves, WaitingAre DEF HearDcs
<1>26. CASE HearTcf(p)
  BY <1>26, TimerMoves, WaitingAre DEF HearTcf
<1>27. CASE HearPage(p)
  BY <1>27, TimerMoves, WaitingAre DEF HearPage
<1>28. CASE HearPost(p)
  BY <1>28, TimerMoves, WaitingAre DEF HearPost
<1>29. CASE HearPostAgain(p)
  BY <1>29, TimerMoves, WaitingAre DEF HearPostAgain
<1>30. CASE HearDcn(p)
  BY <1>30, TimerMoves DEF HearDcn
<1>31. CASE IgnoreFrame(p)
  BY <1>31, TimerMoves DEF IgnoreFrame
<1>32. CASE IgnoreCarrier(p)
  BY <1>32, TimerMoves DEF IgnoreCarrier
<1>33. CASE ExpireTcf(p)
  BY <1>33, TimerMoves, WaitingAre DEF ExpireTcf
<1>34. CASE ExpirePost(p)
  BY <1>34, TimerMoves, WaitingAre DEF ExpirePost
<1>35. CASE ExpireDis(p)
  BY <1>35, TimerMoves, WaitingAre DEF ExpireDis, MayRepeatDis
<1>36. CASE ExpireFinish(p)
  BY <1>36, TimerMoves DEF ExpireFinish
<1>. QED
  BY <1>1, <1>2, <1>3, <1>4, <1>5, <1>6, <1>7, <1>8, <1>9, <1>10, <1>11, <1>12, <1>13,
     <1>14, <1>15, <1>16, <1>17, <1>18, <1>19, <1>20, <1>21, <1>22, <1>23, <1>24, <1>25,
     <1>26, <1>27, <1>28, <1>29, <1>30, <1>31, <1>32, <1>33, <1>34, <1>35, <1>36 DEF
     StepComplete, Hear, Expire


-----------------------------------------------------------------------------
(***************************************************************************)
(* Every action keeps the turn in one place.  Each lemma first says what   *)
(* the action does to the substates and queues by role (sst, rst, toS,     *)
(* toR), then shows the parts of the invariant from that alone.            *)
(***************************************************************************)
CoreInv ==
  /\ RolesInv /\ PagesInv /\ DcnInv
  /\ sst # "ST_DONE" => TurnInv /\ AnswerInv /\ RowInv

(* What a queue to the receiver, or to the sender, can hold in q2 that it   *)
(* does not hold in q: a message of kind k, which says what the sender's    *)
(* variables say.                                                           *)
ToReceiver == Answers \cup {"CIG", "DTC"}
ToSender   == MsgKinds \ (Answers \cup {"CSI", "DIS", "CIG", "DTC"})

AddsR(q2, q, k) ==
  /\ Has(q2, Begins) => Has(q, Begins) \/ k \in Begins
  /\ Has(q2, {"PAGE"}) => Has(q, {"PAGE"}) \/ k = "PAGE"
  /\ Has(q2, {"DCS"}) => Has(q, {"DCS"}) \/ k = "DCS"
  /\ Has(q2, {"TCF"}) => Has(q, {"TCF"}) \/ k = "TCF"
  /\ Has(q2, {"EOP"}) => Has(q, {"EOP"}) \/ k = "EOP"
  /\ Has(q2, {"DCN"}) => Has(q, {"DCN"}) \/ k = "DCN"
  /\ Has(q2, ToReceiver) => Has(q, ToReceiver) \/ k \in ToReceiver
  /\ One(q, Begins) /\ (k \in Begins => ~Has(q, Begins)) => One(q2, Begins)
  /\ One(q, {"PAGE"}) /\ (k = "PAGE" => ~Has(q, {"PAGE"})) => One(q2, {"PAGE"})
  /\ PagesAre(q, cur_page) => PagesAre(q2, cur_page)
  /\ DcsAre(q, fallback) => DcsAre(q2, fallback)
  /\ RowsUpTo(q, fallback) => RowsUpTo(q2, fallback)
  /\ RowsBelow(q, fallback) /\ k # "TCF" => RowsBelow(q2, fallback)
  /\ OneAtRow(q, fallback) /\ k # "TCF" => OneAtRow(q2, fallback)

AddsS(q2, q, k) ==
  /\ Has(q2, Answers) => Has(q, Answers) \/ k \in Answers
  /\ Has(q2, {"MCF", "RTN"}) => Has(q, {"MCF", "RTN"}) \/ k \in {"MCF", "RTN"}
  /\ Has(q2, {"CFR", "FTT"}) => Has(q, {"CFR", "FTT"}) \/ k \in {"CFR", "FTT"}
  /\ Has(q2, {"FTT", "RTN"}) => Has(q, {"FTT", "RTN"}) \/ k \in {"FTT", "RTN"}
  /\ Has(q2, {"MCF"}) => Has(q, {"MCF"}) \/ k = "MCF"
  /\ Has(q2, {"RTN"}) => Has(q, {"RTN"}) \/ k = "RTN"
  /\ Has(q2, ToSender) => Has(q, ToSender) \/ k \in ToSender
  /\ One(q, Answers) /\ (k \in Answers => ~Has(q, Answers)) => One(q2, Answers)

LEMMA ByRole ==
  ASSUME RolesInv, NEW p \in Parties
  PROVE  /\ st[p] \in SenderSending \cup SenderWaiting => p = Sender /\ sst = st[p]
         /\ st[p] \in ReceiverSending \cup ReceiverWaiting => p = Receiver /\ rst = st[p]
         /\ p = Sender => sst = st[p] /\ toS = to[p]
         /\ p = Receiver => rst = st[p] /\ toR = to[p]
<1>1. CASE p = Sender
  BY <1>1, RoleFacts DEF RolesInv, sst, toS, SenderSending, SenderWaiting, ReceiverSending,
     ReceiverWaiting, Opening
<1>2. CASE p = Receiver
  BY <1>2, RoleFacts DEF RolesInv, rst, toR, SenderSending, SenderWaiting, ReceiverSending,
     ReceiverWaiting, Opening
<1>. QED BY <1>1, <1>2, RoleFacts

(* A message is added at the end, if it is not lost. *)
LEMMA SentOne ==
  ASSUME TypeOK, NEW q \in Seq(Messages), NEW msg \in Messages, NEW q2 \in Arrivals(q, msg)
  PROVE  /\ /\ msg.m = "PAGE" => msg.page = cur_page
            /\ msg.m = "DCS" => msg.bits = FB[fallback].dcs
            /\ msg.m = "TCF" => msg.row <= fallback
            => AddsR(q2, q, msg.m)
         /\ AddsS(q2, q, msg.m)
<1>1. /\ \A kinds : Has(q2, kinds) => Has(q, kinds) \/ msg.m \in kinds
      /\ \A kinds : One(q, kinds) /\ (msg.m \in kinds => ~Has(q, kinds)) => One(q2, kinds)
  BY Sent
<1>2. AddsS(q2, q, msg.m)
  <2>1. \A k : k \in {"MCF"} <=> k = "MCF"
    OBVIOUS
  <2>2. \A k : k \in {"RTN"} <=> k = "RTN"
    OBVIOUS
  <2>. QED BY <1>1, <2>1, <2>2, Zenon DEF AddsS
<1>3. ASSUME msg.m = "PAGE" => msg.page = cur_page,
             msg.m = "DCS" => msg.bits = FB[fallback].dcs,
             msg.m = "TCF" => msg.row <= fallback
      PROVE  AddsR(q2, q, msg.m)
  <2>1. /\ PagesAre(q, cur_page) => PagesAre(q2, cur_page)
        /\ DcsAre(q, fallback) => DcsAre(q2, fallback)
        /\ RowsUpTo(q, fallback) => RowsUpTo(q2, fallback)
        /\ OneAtRow(q, fallback) /\ msg.m # "TCF" => OneAtRow(q2, fallback)
    BY <1>3, Sent
  <2>2. RowsBelow(q, fallback) /\ msg.m # "TCF" => RowsBelow(q2, fallback)
    BY Sent
  <2>3. \A k, l : k \in {l} <=> k = l
    OBVIOUS
  <2>4. /\ Has(q2, {"PAGE"}) => Has(q, {"PAGE"}) \/ msg.m = "PAGE"
        /\ Has(q2, {"DCS"}) => Has(q, {"DCS"}) \/ msg.m = "DCS"
        /\ Has(q2, {"TCF"}) => Has(q, {"TCF"}) \/ msg.m = "TCF"
        /\ Has(q2, {"EOP"}) => Has(q, {"EOP"}) \/ msg.m = "EOP"
        /\ Has(q2, {"DCN"}) => Has(q, {"DCN"}) \/ msg.m = "DCN"
        /\ One(q, {"PAGE"}) /\ (msg.m = "PAGE" => ~Has(q, {"PAGE"})) => One(q2, {"PAGE"})
    BY <1>1, <2>3, Zenon
  <2>5. /\ Has(q2, Begins) => Has(q, Begins) \/ msg.m \in Begins
        /\ Has(q2, ToReceiver) => Has(q, ToReceiver) \/ msg.m \in ToReceiver
        /\ One(q, Begins) /\ (msg.m \in Begins => ~Has(q, Begins)) => One(q2, Begins)
    BY <1>1, Zenon
  <2>. QED BY <2>1, <2>2, <2>4, <2>5 DEF AddsR
<1>. QED BY <1>2, <1>3

(* A station identifier and a frame in one burst. *)
LEMMA SentBurst ==
  ASSUME TypeOK, NEW q \in Seq(Messages), NEW id \in IdFrames, NEW msg \in Messages,
         msg.m \notin Carriers, NEW q2,
         \E q1 \in Arrivals(q, [m |-> id]) : q2 \in Arrivals(q1, msg)
  PROVE  /\ id # "CIG" /\ (msg.m = "DCS" => msg.bits = FB[fallback].dcs) => AddsR(q2, q, msg.m)
         /\ id # "TSI" => AddsS(q2, q, msg.m)
<1>1. PICK q1 \in Arrivals(q, [m |-> id]) : q2 \in Arrivals(q1, msg)
  OBVIOUS
<1>2. [m |-> id] \in Messages /\ [m |-> id].m = id
  BY KnownMessages
<1>3. id \in {"CSI", "CIG", "TSI"} /\ msg.m \notin {"TCF", "PAGE"}
  BY DEF IdFrames, Carriers
<1>4. q1 \in Seq(Messages)
  BY <1>2, Sent
<1>5. AddsR(q1, q, id) /\ AddsS(q1, q, id)
  BY <1>2, <1>3, SentOne
<1>6. /\ (msg.m = "DCS" => msg.bits = FB[fallback].dcs) => AddsR(q2, q1, msg.m)
      /\ AddsS(q2, q1, msg.m)
  BY <1>1, <1>3, <1>4, SentOne
<1>7. ASSUME id # "CIG", AddsR(q2, q1, msg.m) PROVE AddsR(q2, q, msg.m)
  BY <1>3, <1>5, <1>7 DEF AddsR, Begins, ToReceiver, Answers
<1>8. ASSUME id # "TSI" PROVE AddsS(q2, q, msg.m)
  BY <1>3, <1>5, <1>6, <1>8 DEF AddsS, Answers, ToSender
<1>. QED BY <1>6, <1>7, <1>8

(* The head of a queue is taken out, and nothing is added. *)
LEMMA TakenHead ==
  ASSUME NEW q \in Seq(Messages), q # <<>>, NEW q2, q2 = Tail(q)
  PROVE  AddsR(q2, q, "none") /\ AddsS(q2, q, "none")
<1>1. /\ \A kinds : Has(q2, kinds) => Has(q, kinds)
      /\ \A kinds : One(q, kinds) => One(q2, kinds)
  BY Taken
<1>2. /\ PagesAre(q, cur_page) => PagesAre(q2, cur_page)
      /\ DcsAre(q, fallback) => DcsAre(q2, fallback)
      /\ RowsUpTo(q, fallback) => RowsUpTo(q2, fallback)
      /\ RowsBelow(q, fallback) => RowsBelow(q2, fallback)
      /\ OneAtRow(q, fallback) => OneAtRow(q2, fallback)
  BY Taken
<1>3. AddsR(q2, q, "none")
  BY <1>1, <1>2, Zenon DEF AddsR
<1>4. AddsS(q2, q, "none")
  BY <1>1, Zenon DEF AddsS
<1>. QED BY <1>3, <1>4

(* How the kinds of messages in a queue relate. *)
LEMMA Kinds ==
  ASSUME NEW q
  PROVE  /\ Has(q, {"PAGE"}) \/ Has(q, {"DCS"}) <=> Has(q, Begins)
         /\ Has(q, {"MCF", "RTN"}) \/ Has(q, {"CFR", "FTT"}) <=> Has(q, Answers)
         /\ Has(q, {"MCF"}) \/ Has(q, {"RTN"}) <=> Has(q, {"MCF", "RTN"})
         /\ Has(q, {"RTN"}) => Has(q, {"FTT", "RTN"})
         /\ Has(q, {"FTT", "RTN"}) => Has(q, {"RTN"}) \/ Has(q, {"CFR", "FTT"})
         /\ ~Has(q, Answers) => One(q, Answers)
BY DEF Has, One, Begins, Answers

(* The head of a queue is one of its messages; the only one of its kind.    *)
LEMMA HeadIn ==
  ASSUME NEW q \in Seq(Messages), q # <<>>, NEW kinds, Head(q).m \in kinds
  PROVE  Has(q, kinds)
BY Taken

LEMMA TakenOne ==
  ASSUME NEW q \in Seq(Messages), q # <<>>, NEW q2, q2 = Tail(q), NEW kinds,
         Head(q).m \in kinds, One(q, kinds)
  PROVE  ~Has(q2, kinds)
BY Taken

(* What the invariant says of results and numbers. *)
LEMMA Known2 ==
  ASSUME TypeOK, TimerInv
  PROVE  /\ sst # "ST_DONE" => sres # "OK"
         /\ rst # "ST_DONE" => rres # "OK"
         /\ cur_page \in Nat /\ cur_page < PAGES /\ PAGES \in Nat /\ Len(pages) \in Nat
         /\ fallback \in FbIndex /\ toR \in Seq(Messages) /\ toS \in Seq(Messages)
<1>1. (sst # "ST_DONE" => sres # "OK") /\ (rst # "ST_DONE" => rres # "OK")
  BY RoleFacts DEF TimerInv, sst, rst, sres, rres
<1>2. cur_page \in 0..(PAGES - 1) /\ pages \in Seq(0..(PAGES - 1)) /\ fallback \in FbIndex
  BY DEF TypeOK
<1>3. toR \in Seq(Messages) /\ toS \in Seq(Messages)
  BY RoleFacts DEF TypeOK, toR, toS
<1>. QED BY <1>1, <1>2, <1>3, CallAssumption, LenProperties

LEMMA SameOrder ==
  ASSUME InOrder, UNCHANGED pages
  PROVE  InOrder'
BY DEF InOrder

(* The next page is written after the pages before it. *)
LEMMA NextPage ==
  ASSUME NEW n \in Nat, NEW q \in Seq(0..(PAGES - 1)), Len(q) = n, q = [i \in 1..n |-> i - 1]
  PROVE  /\ Len(Append(q, n)) = n + 1
         /\ Append(q, n) = [i \in 1..Len(Append(q, n)) |-> i - 1]
<1>1. Append(q, n) \in Seq(Int) /\ Len(Append(q, n)) = n + 1
  BY AppendProperties, CallAssumption
<1>2. \A i \in 1..(n + 1) : Append(q, n)[i] = i - 1
  <2>1. \A i \in 1..n : Append(q, n)[i] = q[i]
    BY AppendProperties
  <2>2. Append(q, n)[n + 1] = n
    BY AppendProperties
  <2>3. \A i \in 1..n : q[i] = i - 1
    OBVIOUS
  <2>. QED BY <2>1, <2>2, <2>3
<1>3. Append(q, n) = [i \in 1..(n + 1) |-> Append(q, n)[i]]
  BY <1>1, LenProperties
<1>. QED BY <1>1, <1>2, <1>3

LEMMA SendDcsStep ==
  ASSUME CallInv, NEW p \in Parties, SendDcs(p), UNCHANGED fixed
  PROVE  CoreInv'
<1>1. /\ TypeOK /\ TimerInv /\ RolesInv /\ PagesInv /\ DcnInv
      /\ sst # "ST_DONE" => TurnInv /\ AnswerInv /\ RowInv
  BY DEF CallInv
<1>2. /\ sst # "ST_DONE" => sres # "OK"
      /\ rst # "ST_DONE" => rres # "OK"
      /\ cur_page \in Nat /\ cur_page < PAGES /\ PAGES \in Nat /\ Len(pages) \in Nat
      /\ fallback \in FbIndex /\ toR \in Seq(Messages) /\ toS \in Seq(Messages)
  BY <1>1, RoleFacts, Known2
<1>3. p = Sender /\ sst = "C_SEND_DCS"
  BY <1>1, ByRole, RoleFacts DEF SendDcs, SenderSending
<1>4. sst' = "C_DCS_PAUSE" /\ rst' = rst /\ sres' = sres /\ rres' = rres
  BY <1>1, <1>3, Moves DEF SendDcs
<1>5. UNCHANGED <<senderVars, receiverVars>>
  BY <1>3 DEF SendDcs
<1>6. toS' = toS /\ \E q \in Arrivals(toR, [m |-> "TSI"]) :
  toR' \in Arrivals(q, [m |-> "DCS", bits |-> FB[fallback].dcs])
  BY <1>1, <1>3, Exchanges DEF SendDcs
<1>7. toS' = toS /\ AddsR(toR', toR, "DCS")
  BY <1>1, <1>2, <1>6, KnownMessages, SentBurst DEF Carriers
<1>8. RolesInv'
  BY <1>1, <1>2, <1>3, <1>4, <1>5, <1>7 DEF RolesInv, SenderSending, SenderWaiting,
     ReceiverSending, ReceiverWaiting, Opening, AddsR, AddsS, ToReceiver, ToSender, Answers,
     MsgKinds, IdFrames, Carriers, PostKinds, senderVars, receiverVars
<1>9. PagesInv'
  BY <1>1, <1>2, <1>3, <1>4, <1>5, <1>7, SameOrder DEF PagesInv, Opening, Training, Posting,
     AddsR, Begins, senderVars, receiverVars
<1>10. DcnInv'
  BY <1>1, <1>2, <1>3, <1>4, <1>5, <1>7 DEF DcnInv, AddsR
<1>11. ASSUME sst' # "ST_DONE" PROVE TurnInv' /\ AnswerInv' /\ RowInv'
  <2>1. sst # "ST_DONE" /\ TurnInv /\ AnswerInv /\ RowInv
    BY <1>1, <1>2, <1>3, <1>4, <1>5, <1>7, <1>11 DEF Opening, Training, Posting, Checking,
       Judging, Ending
  <2>2. TurnInv'
    BY <1>1, <1>2, <1>3, <1>4, <1>5, <1>7, <2>1, Kinds DEF TurnInv, AnswerInv, RowInv,
       Opening, Training, Posting, Checking, Judging, Ending, AddsR, AddsS, Begins, Answers,
       senderVars, receiverVars
  <2>3. AnswerInv'
    BY <1>1, <1>2, <1>3, <1>4, <1>5, <1>7, <2>1, Kinds DEF TurnInv, AnswerInv, RowInv,
       Opening, Training, Posting, Checking, Judging, Ending, AddsR, AddsS, Begins, Answers,
       senderVars, receiverVars
  <2>4. RowInv'
    BY <1>1, <1>2, <1>3, <1>4, <1>5, <1>7, <2>1, Kinds DEF TurnInv, AnswerInv, RowInv,
       Opening, Training, Posting, Checking, Judging, Ending, AddsR, AddsS, Begins, Answers,
       senderVars, receiverVars
  <2>. QED BY <2>2, <2>3, <2>4
<1>. QED BY <1>8, <1>9, <1>10, <1>11 DEF CoreInv

LEMMA PauseAfterDcsStep ==
  ASSUME CallInv, NEW p \in Parties, PauseAfterDcs(p), UNCHANGED fixed
  PROVE  CoreInv'
<1>1. /\ TypeOK /\ TimerInv /\ RolesInv /\ PagesInv /\ DcnInv
      /\ sst # "ST_DONE" => TurnInv /\ AnswerInv /\ RowInv
  BY DEF CallInv
<1>2. /\ sst # "ST_DONE" => sres # "OK"
      /\ rst # "ST_DONE" => rres # "OK"
      /\ cur_page \in Nat /\ cur_page < PAGES /\ PAGES \in Nat /\ Len(pages) \in Nat
      /\ fallback \in FbIndex /\ toR \in Seq(Messages) /\ toS \in Seq(Messages)
  BY <1>1, RoleFacts, Known2
<1>3. p = Sender /\ sst = "C_DCS_PAUSE"
  BY <1>1, ByRole, RoleFacts DEF PauseAfterDcs, SenderSending
<1>4. sst' = "C_SEND_TCF" /\ rst' = rst /\ sres' = sres /\ rres' = rres
  BY <1>1, <1>3, Moves DEF PauseAfterDcs
<1>5. UNCHANGED <<senderVars, receiverVars>>
  BY <1>3 DEF PauseAfterDcs
<1>6. toR' = toR /\ toS' = toS
  BY <1>1, <1>3, Exchanges DEF PauseAfterDcs
<1>7. RolesInv'
  BY <1>1, <1>2, <1>3, <1>4, <1>5, <1>6 DEF RolesInv, SenderSending, SenderWaiting,
     ReceiverSending, ReceiverWaiting, Opening, AddsR, AddsS, ToReceiver, ToSender, Answers,
     MsgKinds, IdFrames, Carriers, PostKinds, senderVars, receiverVars
<1>8. PagesInv'
  BY <1>1, <1>2, <1>3, <1>4, <1>5, <1>6, SameOrder DEF PagesInv, Opening, Training, Posting,
     AddsR, Begins, senderVars, receiverVars
<1>9. DcnInv'
  BY <1>1, <1>2, <1>3, <1>4, <1>5, <1>6 DEF DcnInv, AddsR
<1>10. ASSUME sst' # "ST_DONE" PROVE TurnInv' /\ AnswerInv' /\ RowInv'
  <2>1. sst # "ST_DONE" /\ TurnInv /\ AnswerInv /\ RowInv
    BY <1>1, <1>2, <1>3, <1>4, <1>5, <1>6, <1>10 DEF Opening, Training, Posting, Checking,
       Judging, Ending
  <2>2. TurnInv'
    BY <1>1, <1>2, <1>3, <1>4, <1>5, <1>6, <2>1, Kinds DEF TurnInv, AnswerInv, RowInv,
       Opening, Training, Posting, Checking, Judging, Ending, AddsR, AddsS, Begins, Answers,
       senderVars, receiverVars
  <2>3. AnswerInv'
    BY <1>1, <1>2, <1>3, <1>4, <1>5, <1>6, <2>1, Kinds DEF TurnInv, AnswerInv, RowInv,
       Opening, Training, Posting, Checking, Judging, Ending, AddsR, AddsS, Begins, Answers,
       senderVars, receiverVars
  <2>4. RowInv'
    BY <1>1, <1>2, <1>3, <1>4, <1>5, <1>6, <2>1, Kinds DEF TurnInv, AnswerInv, RowInv,
       Opening, Training, Posting, Checking, Judging, Ending, AddsR, AddsS, Begins, Answers,
       senderVars, receiverVars
  <2>. QED BY <2>2, <2>3, <2>4
<1>. QED BY <1>7, <1>8, <1>9, <1>10 DEF CoreInv

LEMMA SendTcfStep ==
  ASSUME CallInv, NEW p \in Parties, SendTcf(p), UNCHANGED fixed
  PROVE  CoreInv'
<1>1. /\ TypeOK /\ TimerInv /\ RolesInv /\ PagesInv /\ DcnInv
      /\ sst # "ST_DONE" => TurnInv /\ AnswerInv /\ RowInv
  BY DEF CallInv
<1>2. /\ sst # "ST_DONE" => sres # "OK"
      /\ rst # "ST_DONE" => rres # "OK"
      /\ cur_page \in Nat /\ cur_page < PAGES /\ PAGES \in Nat /\ Len(pages) \in Nat
      /\ fallback \in FbIndex /\ toR \in Seq(Messages) /\ toS \in Seq(Messages)
  BY <1>1, RoleFacts, Known2
<1>3. p = Sender /\ sst = "C_SEND_TCF"
  BY <1>1, ByRole, RoleFacts DEF SendTcf, SenderSending
<1>4. sst' = "C_WAIT_CFR" /\ rst' = rst /\ sres' = sres /\ rres' = rres
  BY <1>1, <1>3, Moves DEF SendTcf
<1>5. UNCHANGED <<senderVars, receiverVars>>
  BY <1>3 DEF SendTcf
<1>6. toS' = toS /\ toR' \in Arrivals(toR, [m |-> "TCF", row |-> fallback])
  BY <1>1, <1>3, Exchanges DEF SendTcf
<1>7. toS' = toS /\ AddsR(toR', toR, "TCF")
  <2>1. PICK msg \in Messages : msg = [m |-> "TCF", row |-> fallback]
    BY <1>1, KnownMessages
  <2>2. msg.m = "TCF" /\ msg.row = fallback
    BY <2>1
  <2>3. AddsR(toR', toR, msg.m)
    BY <1>1, <1>2, <1>6, <2>1, <2>2, SentOne, SMT DEF FbIndex
  <2>. QED BY <1>6, <2>2, <2>3
<1>8. RowsBelow(toR, fallback) => OneAtRow(toR', fallback)
  <2>1. \A i \in 1..Len(toR) : toR[i].m = "TCF" => toR[i].row \in FbIndex
    BY <1>2, MessageFields DEF Carriers
  <2>. QED BY <1>2, <1>6, <2>1, SentTcf
<1>9. RolesInv'
  BY <1>1, <1>2, <1>3, <1>4, <1>5, <1>7, <1>8 DEF RolesInv, SenderSending, SenderWaiting,
     ReceiverSending, ReceiverWaiting, Opening, AddsR, AddsS, ToReceiver, ToSender, Answers,
     MsgKinds, IdFrames, Carriers, PostKinds, senderVars, receiverVars
<1>10. PagesInv'
  BY <1>1, <1>2, <1>3, <1>4, <1>5, <1>7, <1>8, SameOrder DEF PagesInv, Opening, Training,
     Posting, AddsR, Begins, senderVars, receiverVars
<1>11. DcnInv'
  BY <1>1, <1>2, <1>3, <1>4, <1>5, <1>7, <1>8 DEF DcnInv, AddsR
<1>12. ASSUME sst' # "ST_DONE" PROVE TurnInv' /\ AnswerInv' /\ RowInv'
  <2>1. sst # "ST_DONE" /\ TurnInv /\ AnswerInv /\ RowInv
    BY <1>1, <1>2, <1>3, <1>4, <1>5, <1>7, <1>8, <1>12 DEF Opening, Training, Posting,
       Checking, Judging, Ending
  <2>2. TurnInv'
    BY <1>1, <1>2, <1>3, <1>4, <1>5, <1>7, <1>8, <2>1, Kinds DEF TurnInv, AnswerInv, RowInv,
       Opening, Training, Posting, Checking, Judging, Ending, AddsR, AddsS, Begins, Answers,
       senderVars, receiverVars
  <2>3. AnswerInv'
    BY <1>1, <1>2, <1>3, <1>4, <1>5, <1>7, <1>8, <2>1, Kinds DEF TurnInv, AnswerInv, RowInv,
       Opening, Training, Posting, Checking, Judging, Ending, AddsR, AddsS, Begins, Answers,
       senderVars, receiverVars
  <2>4. RowInv'
    BY <1>1, <1>2, <1>3, <1>4, <1>5, <1>7, <1>8, <2>1, Kinds DEF TurnInv, AnswerInv, RowInv,
       Opening, Training, Posting, Checking, Judging, Ending, AddsR, AddsS, Begins, Answers,
       senderVars, receiverVars
  <2>. QED BY <2>2, <2>3, <2>4
<1>. QED BY <1>9, <1>10, <1>11, <1>12 DEF CoreInv

LEMMA SendImageStep ==
  ASSUME CallInv, NEW p \in Parties, SendImage(p), UNCHANGED fixed
  PROVE  CoreInv'
<1>1. /\ TypeOK /\ TimerInv /\ RolesInv /\ PagesInv /\ DcnInv
      /\ sst # "ST_DONE" => TurnInv /\ AnswerInv /\ RowInv
  BY DEF CallInv
<1>2. /\ sst # "ST_DONE" => sres # "OK"
      /\ rst # "ST_DONE" => rres # "OK"
      /\ cur_page \in Nat /\ cur_page < PAGES /\ PAGES \in Nat /\ Len(pages) \in Nat
      /\ fallback \in FbIndex /\ toR \in Seq(Messages) /\ toS \in Seq(Messages)
  BY <1>1, RoleFacts, Known2
<1>3. p = Sender /\ sst = "C_SEND_IMAGE"
  BY <1>1, ByRole, RoleFacts DEF SendImage, SenderSending
<1>4. sst' = "C_SEND_POST" /\ rst' = rst /\ sres' = sres /\ rres' = rres
  BY <1>1, <1>3, Moves DEF SendImage
<1>5. UNCHANGED <<fallback, cur_page, rtn_count, pages_tx, receiverVars>>
  BY <1>3 DEF SendImage
<1>6. toS' = toS /\ toR' \in Arrivals(toR, [m |-> "PAGE", row |-> fallback, page |-> cur_page])
  BY <1>1, <1>3, Exchanges DEF SendImage
<1>7. toS' = toS /\ AddsR(toR', toR, "PAGE")
  BY <1>1, <1>2, <1>6, KnownMessages, SentOne
<1>8. RolesInv'
  BY <1>1, <1>2, <1>3, <1>4, <1>5, <1>7 DEF RolesInv, SenderSending, SenderWaiting,
     ReceiverSending, ReceiverWaiting, Opening, AddsR, AddsS, ToReceiver, ToSender, Answers,
     MsgKinds, IdFrames, Carriers, PostKinds, senderVars, receiverVars
<1>9. PagesInv'
  BY <1>1, <1>2, <1>3, <1>4, <1>5, <1>7, SameOrder DEF PagesInv, Opening, Training, Posting,
     AddsR, Begins, senderVars, receiverVars
<1>10. DcnInv'
  BY <1>1, <1>2, <1>3, <1>4, <1>5, <1>7 DEF DcnInv, AddsR
<1>11. ASSUME sst' # "ST_DONE" PROVE TurnInv' /\ AnswerInv' /\ RowInv'
  <2>1. sst # "ST_DONE" /\ TurnInv /\ AnswerInv /\ RowInv
    BY <1>1, <1>2, <1>3, <1>4, <1>5, <1>7, <1>11 DEF Opening, Training, Posting, Checking,
       Judging, Ending
  <2>2. TurnInv'
    BY <1>1, <1>2, <1>3, <1>4, <1>5, <1>7, <2>1, Kinds DEF TurnInv, AnswerInv, RowInv,
       Opening, Training, Posting, Checking, Judging, Ending, AddsR, AddsS, Begins, Answers,
       senderVars, receiverVars
  <2>3. AnswerInv'
    BY <1>1, <1>2, <1>3, <1>4, <1>5, <1>7, <2>1, Kinds DEF TurnInv, AnswerInv, RowInv,
       Opening, Training, Posting, Checking, Judging, Ending, AddsR, AddsS, Begins, Answers,
       senderVars, receiverVars
  <2>4. RowInv'
    BY <1>1, <1>2, <1>3, <1>4, <1>5, <1>7, <2>1, Kinds DEF TurnInv, AnswerInv, RowInv,
       Opening, Training, Posting, Checking, Judging, Ending, AddsR, AddsS, Begins, Answers,
       senderVars, receiverVars
  <2>. QED BY <2>2, <2>3, <2>4
<1>. QED BY <1>8, <1>9, <1>10, <1>11 DEF CoreInv

LEMMA SendPostStep ==
  ASSUME CallInv, NEW p \in Parties, SendPost(p), UNCHANGED fixed
  PROVE  CoreInv'
<1>1. /\ TypeOK /\ TimerInv /\ RolesInv /\ PagesInv /\ DcnInv
      /\ sst # "ST_DONE" => TurnInv /\ AnswerInv /\ RowInv
  BY DEF CallInv
<1>2. /\ sst # "ST_DONE" => sres # "OK"
      /\ rst # "ST_DONE" => rres # "OK"
      /\ cur_page \in Nat /\ cur_page < PAGES /\ PAGES \in Nat /\ Len(pages) \in Nat
      /\ fallback \in FbIndex /\ toR \in Seq(Messages) /\ toS \in Seq(Messages)
  BY <1>1, RoleFacts, Known2
<1>3. p = Sender /\ sst = "C_SEND_POST"
  BY <1>1, ByRole, RoleFacts DEF SendPost, SenderSending
<1>4. sst' = "C_WAIT_MCF" /\ rst' = rst /\ sres' = sres /\ rres' = rres
  BY <1>1, <1>3, Moves DEF SendPost
<1>5. UNCHANGED <<senderVars, receiverVars>>
  BY <1>3 DEF SendPost
<1>6. toS' = toS /\ toR' \in Arrivals(toR, [m |-> PostMessage])
  BY <1>1, <1>3, Exchanges DEF SendPost
<1>7. toS' = toS /\ AddsR(toR', toR, PostMessage)
  <2>1. PICK msg \in Messages : msg = [m |-> PostMessage]
    BY <1>1, KnownMessages
  <2>2. msg.m = PostMessage
    BY <2>1
  <2>3. AddsR(toR', toR, msg.m)
    BY <1>1, <1>2, <1>6, <2>1, <2>2, SentOne, SMT DEF FbIndex, PostMessage
  <2>. QED BY <1>6, <2>2, <2>3
<1>8. PostMessage \in {"MPS", "EOP"} /\ (PostMessage = "EOP" => cur_page + 1 = PAGES)
  BY <1>2, SMT DEF PostMessage
<1>9. RolesInv'
  BY <1>1, <1>2, <1>3, <1>4, <1>5, <1>7, <1>8 DEF RolesInv, SenderSending, SenderWaiting,
     ReceiverSending, ReceiverWaiting, Opening, AddsR, AddsS, ToReceiver, ToSender, Answers,
     MsgKinds, IdFrames, Carriers, PostKinds, senderVars, receiverVars
<1>10. PagesInv'
  BY <1>1, <1>2, <1>3, <1>4, <1>5, <1>7, <1>8, SameOrder DEF PagesInv, Opening, Training,
     Posting, AddsR, Begins, senderVars, receiverVars
<1>11. DcnInv'
  BY <1>1, <1>2, <1>3, <1>4, <1>5, <1>7, <1>8 DEF DcnInv, AddsR
<1>12. ASSUME sst' # "ST_DONE" PROVE TurnInv' /\ AnswerInv' /\ RowInv'
  <2>1. sst # "ST_DONE" /\ TurnInv /\ AnswerInv /\ RowInv
    BY <1>1, <1>2, <1>3, <1>4, <1>5, <1>7, <1>8, <1>12 DEF Opening, Training, Posting,
       Checking, Judging, Ending
  <2>2. TurnInv'
    BY <1>1, <1>2, <1>3, <1>4, <1>5, <1>7, <1>8, <2>1, Kinds DEF TurnInv, AnswerInv, RowInv,
       Opening, Training, Posting, Checking, Judging, Ending, AddsR, AddsS, Begins, Answers,
       senderVars, receiverVars
  <2>3. AnswerInv'
    BY <1>1, <1>2, <1>3, <1>4, <1>5, <1>7, <1>8, <2>1, Kinds DEF TurnInv, AnswerInv, RowInv,
       Opening, Training, Posting, Checking, Judging, Ending, AddsR, AddsS, Begins, Answers,
       senderVars, receiverVars
  <2>4. RowInv'
    BY <1>1, <1>2, <1>3, <1>4, <1>5, <1>7, <1>8, <2>1, Kinds DEF TurnInv, AnswerInv, RowInv,
       Opening, Training, Posting, Checking, Judging, Ending, AddsR, AddsS, Begins, Answers,
       senderVars, receiverVars
  <2>. QED BY <2>2, <2>3, <2>4
<1>. QED BY <1>9, <1>10, <1>11, <1>12 DEF CoreInv

LEMMA SendDcnStep ==
  ASSUME CallInv, NEW p \in Parties, SendDcn(p), UNCHANGED fixed
  PROVE  CoreInv'
<1>1. /\ TypeOK /\ TimerInv /\ RolesInv /\ PagesInv /\ DcnInv
      /\ sst # "ST_DONE" => TurnInv /\ AnswerInv /\ RowInv
  BY DEF CallInv
<1>2. /\ sst # "ST_DONE" => sres # "OK"
      /\ rst # "ST_DONE" => rres # "OK"
      /\ cur_page \in Nat /\ cur_page < PAGES /\ PAGES \in Nat /\ Len(pages) \in Nat
      /\ fallback \in FbIndex /\ toR \in Seq(Messages) /\ toS \in Seq(Messages)
  BY <1>1, RoleFacts, Known2
<1>3. p = Sender /\ sst = "C_SEND_DCN"
  BY <1>1, ByRole, RoleFacts DEF SendDcn, SenderSending
<1>4. sst' = "ST_DONE" /\ rst' = rst /\ sres' = "OK" /\ rres' = rres
  BY <1>1, <1>3, Moves DEF SendDcn
<1>5. UNCHANGED <<senderVars, receiverVars>>
  BY <1>3 DEF SendDcn
<1>6. toS' = toS /\ toR' \in Arrivals(toR, [m |-> "DCN"])
  BY <1>1, <1>3, Exchanges DEF SendDcn
<1>7. toS' = toS /\ AddsR(toR', toR, "DCN")
  BY <1>1, <1>2, <1>6, KnownMessages, SentOne
<1>8. RolesInv'
  BY <1>1, <1>2, <1>3, <1>4, <1>5, <1>7 DEF RolesInv, SenderSending, SenderWaiting,
     ReceiverSending, ReceiverWaiting, Opening, AddsR, AddsS, ToReceiver, ToSender, Answers,
     MsgKinds, IdFrames, Carriers, PostKinds, senderVars, receiverVars
<1>9. PagesInv'
  BY <1>1, <1>2, <1>3, <1>4, <1>5, <1>7, SameOrder DEF PagesInv, Opening, Training, Posting,
     AddsR, Begins, senderVars, receiverVars
<1>10. DcnInv'
  BY <1>1, <1>2, <1>3, <1>4, <1>5, <1>7 DEF DcnInv, AddsR
<1>. QED BY <1>8, <1>9, <1>10, <1>4 DEF CoreInv

LEMMA SendCfrStep ==
  ASSUME CallInv, NEW p \in Parties, SendCfr(p), UNCHANGED fixed
  PROVE  CoreInv'
<1>1. /\ TypeOK /\ TimerInv /\ RolesInv /\ PagesInv /\ DcnInv
      /\ sst # "ST_DONE" => TurnInv /\ AnswerInv /\ RowInv
  BY DEF CallInv
<1>2. /\ sst # "ST_DONE" => sres # "OK"
      /\ rst # "ST_DONE" => rres # "OK"
      /\ cur_page \in Nat /\ cur_page < PAGES /\ PAGES \in Nat /\ Len(pages) \in Nat
      /\ fallback \in FbIndex /\ toR \in Seq(Messages) /\ toS \in Seq(Messages)
  BY <1>1, RoleFacts, Known2
<1>3. p = Receiver /\ rst = "A_SEND_CFR"
  BY <1>1, ByRole, RoleFacts DEF SendCfr, ReceiverSending
<1>4. rst' = "A_RECV_IMAGE" /\ sst' = sst /\ rres' = rres /\ sres' = sres
  BY <1>1, <1>3, Moves DEF SendCfr
<1>5. UNCHANGED <<senderVars, rfallback, rx_page_bad, last_post_fcf, pages>>
  BY <1>3 DEF SendCfr
<1>6. toR' = toR /\ toS' \in Arrivals(toS, [m |-> "CFR"])
  BY <1>1, <1>3, Exchanges DEF SendCfr
<1>7. toR' = toR /\ AddsS(toS', toS, "CFR")
  BY <1>1, <1>2, <1>6, KnownMessages, SentOne
<1>8. RolesInv'
  BY <1>1, <1>2, <1>3, <1>4, <1>5, <1>7 DEF RolesInv, SenderSending, SenderWaiting,
     ReceiverSending, ReceiverWaiting, Opening, AddsR, AddsS, ToReceiver, ToSender, Answers,
     MsgKinds, IdFrames, Carriers, PostKinds, senderVars, receiverVars
<1>9. PagesInv'
  BY <1>1, <1>2, <1>3, <1>4, <1>5, <1>7, SameOrder DEF PagesInv, Opening, Training, Posting,
     AddsR, Begins, senderVars, receiverVars
<1>10. DcnInv'
  BY <1>1, <1>2, <1>3, <1>4, <1>5, <1>7 DEF DcnInv, AddsR
<1>11. ASSUME sst' # "ST_DONE" PROVE TurnInv' /\ AnswerInv' /\ RowInv'
  <2>1. sst # "ST_DONE" /\ TurnInv /\ AnswerInv /\ RowInv
    BY <1>1, <1>2, <1>3, <1>4, <1>5, <1>7, <1>11 DEF Opening, Training, Posting, Checking,
       Judging, Ending
  <2>2. /\ ~Has(toR, Begins) /\ ~Has(toS, Answers)
        /\ sst \notin Opening \cup {"C_SEND_DCS", "C_SEND_IMAGE"}
    BY <1>1, <1>2, <1>3, <1>4, <1>5, <1>7, <2>1, Kinds DEF TurnInv, Checking, Judging
  <2>3. TurnInv'
    BY <1>1, <1>2, <1>3, <1>4, <1>5, <1>7, <2>1, Kinds, <2>2 DEF TurnInv, AnswerInv, RowInv,
       Opening, Training, Posting, Checking, Judging, Ending, AddsR, AddsS, Begins, Answers,
       senderVars, receiverVars
  <2>4. AnswerInv'
    BY <1>1, <1>2, <1>3, <1>4, <1>5, <1>7, <2>1, Kinds, <2>2 DEF TurnInv, AnswerInv, RowInv,
       Opening, Training, Posting, Checking, Judging, Ending, AddsR, AddsS, Begins, Answers,
       senderVars, receiverVars
  <2>5. RowInv'
    BY <1>1, <1>2, <1>3, <1>4, <1>5, <1>7, <2>1, Kinds, <2>2 DEF TurnInv, AnswerInv, RowInv,
       Opening, Training, Posting, Checking, Judging, Ending, AddsR, AddsS, Begins, Answers,
       senderVars, receiverVars
  <2>. QED BY <2>3, <2>4, <2>5
<1>. QED BY <1>8, <1>9, <1>10, <1>11 DEF CoreInv

LEMMA SendFttOrRtnStep ==
  ASSUME CallInv, NEW p \in Parties, SendFttOrRtn(p), UNCHANGED fixed
  PROVE  CoreInv'
<1>1. /\ TypeOK /\ TimerInv /\ RolesInv /\ PagesInv /\ DcnInv
      /\ sst # "ST_DONE" => TurnInv /\ AnswerInv /\ RowInv
  BY DEF CallInv
<1>2. /\ sst # "ST_DONE" => sres # "OK"
      /\ rst # "ST_DONE" => rres # "OK"
      /\ cur_page \in Nat /\ cur_page < PAGES /\ PAGES \in Nat /\ Len(pages) \in Nat
      /\ fallback \in FbIndex /\ toR \in Seq(Messages) /\ toS \in Seq(Messages)
  BY <1>1, RoleFacts, Known2
<1>3. CASE st[p] = "A_SEND_FTT"
  <2>1. p = Receiver /\ rst = "A_SEND_FTT"
    BY <1>1, <1>3, ByRole, RoleFacts DEF SendFttOrRtn, ReceiverSending
  <2>2. rst' = "A_WAIT_DCS" /\ sst' = sst /\ rres' = rres /\ sres' = sres
    BY <1>1, <1>3, <2>1, Moves DEF SendFttOrRtn
  <2>3. UNCHANGED <<senderVars, receiverVars>>
    BY <1>3, <2>1 DEF SendFttOrRtn
  <2>4. toR' = toR /\ toS' \in Arrivals(toS, [m |-> "FTT"])
    BY <1>1, <1>3, <2>1, Exchanges DEF SendFttOrRtn
  <2>5. toR' = toR /\ AddsS(toS', toS, "FTT")
    BY <1>1, <1>2, <2>4, KnownMessages, SentOne
  <2>6. RolesInv'
    BY <1>1, <1>2, <1>3, <2>1, <2>2, <2>3, <2>5 DEF RolesInv, SenderSending, SenderWaiting,
       ReceiverSending, ReceiverWaiting, Opening, AddsR, AddsS, ToReceiver, ToSender, Answers,
       MsgKinds, IdFrames, Carriers, PostKinds, senderVars, receiverVars
  <2>7. PagesInv'
    BY <1>1, <1>2, <1>3, <2>1, <2>2, <2>3, <2>5, SameOrder DEF PagesInv, Opening, Training,
       Posting, AddsR, Begins, senderVars, receiverVars
  <2>8. DcnInv'
    BY <1>1, <1>2, <1>3, <2>1, <2>2, <2>3, <2>5 DEF DcnInv, AddsR
  <2>9. ASSUME sst' # "ST_DONE" PROVE TurnInv' /\ AnswerInv' /\ RowInv'
    <3>1. sst # "ST_DONE" /\ TurnInv /\ AnswerInv /\ RowInv
      BY <1>1, <1>2, <1>3, <2>1, <2>2, <2>3, <2>5, <2>9 DEF Opening, Training, Posting,
         Checking, Judging, Ending
    <3>2. /\ ~Has(toR, Begins) /\ ~Has(toS, Answers)
          /\ sst \notin Opening \cup {"C_SEND_DCS", "C_SEND_IMAGE"}
      BY <1>1, <1>2, <1>3, <2>1, <2>2, <2>3, <2>5, <3>1, Kinds DEF TurnInv, Checking, Judging
    <3>3. TurnInv'
      BY <1>1, <1>2, <1>3, <2>1, <2>2, <2>3, <2>5, <3>1, Kinds, <3>2 DEF TurnInv, AnswerInv,
         RowInv, Opening, Training, Posting, Checking, Judging, Ending, AddsR, AddsS, Begins,
         Answers, senderVars, receiverVars
    <3>4. AnswerInv'
      BY <1>1, <1>2, <1>3, <2>1, <2>2, <2>3, <2>5, <3>1, Kinds, <3>2 DEF TurnInv, AnswerInv,
         RowInv, Opening, Training, Posting, Checking, Judging, Ending, AddsR, AddsS, Begins,
         Answers, senderVars, receiverVars
    <3>5. RowInv'
      BY <1>1, <1>2, <1>3, <2>1, <2>2, <2>3, <2>5, <3>1, Kinds, <3>2 DEF TurnInv, AnswerInv,
         RowInv, Opening, Training, Posting, Checking, Judging, Ending, AddsR, AddsS, Begins,
         Answers, senderVars, receiverVars
    <3>. QED BY <3>3, <3>4, <3>5
  <2>. QED BY <2>6, <2>7, <2>8, <2>9 DEF CoreInv
<1>4. CASE st[p] = "A_SEND_RTN"
  <2>1. p = Receiver /\ rst = "A_SEND_RTN"
    BY <1>1, <1>4, ByRole, RoleFacts DEF SendFttOrRtn, ReceiverSending
  <2>2. rst' = "A_WAIT_DCS" /\ sst' = sst /\ rres' = rres /\ sres' = sres
    BY <1>1, <1>4, <2>1, Moves DEF SendFttOrRtn
  <2>3. UNCHANGED <<senderVars, receiverVars>>
    BY <1>4, <2>1 DEF SendFttOrRtn
  <2>4. toR' = toR /\ toS' \in Arrivals(toS, [m |-> "RTN"])
    BY <1>1, <1>4, <2>1, Exchanges DEF SendFttOrRtn
  <2>5. toR' = toR /\ AddsS(toS', toS, "RTN")
    BY <1>1, <1>2, <2>4, KnownMessages, SentOne
  <2>6. RolesInv'
    BY <1>1, <1>2, <1>4, <2>1, <2>2, <2>3, <2>5 DEF RolesInv, SenderSending, SenderWaiting,
       ReceiverSending, ReceiverWaiting, Opening, AddsR, AddsS, ToReceiver, ToSender, Answers,
       MsgKinds, IdFrames, Carriers, PostKinds, senderVars, receiverVars
  <2>7. PagesInv'
    BY <1>1, <1>2, <1>4, <2>1, <2>2, <2>3, <2>5, SameOrder DEF PagesInv, Opening, Training,
       Posting, AddsR, Begins, senderVars, receiverVars
  <2>8. DcnInv'
    BY <1>1, <1>2, <1>4, <2>1, <2>2, <2>3, <2>5 DEF DcnInv, AddsR
  <2>9. ASSUME sst' # "ST_DONE" PROVE TurnInv' /\ AnswerInv' /\ RowInv'
    <3>1. sst # "ST_DONE" /\ TurnInv /\ AnswerInv /\ RowInv
      BY <1>1, <1>2, <1>4, <2>1, <2>2, <2>3, <2>5, <2>9 DEF Opening, Training, Posting,
         Checking, Judging, Ending
    <3>2. /\ ~Has(toR, Begins) /\ ~Has(toS, Answers)
          /\ sst \notin Opening \cup {"C_SEND_DCS", "C_SEND_IMAGE"}
      BY <1>1, <1>2, <1>4, <2>1, <2>2, <2>3, <2>5, <3>1, Kinds DEF TurnInv, Checking, Judging
    <3>3. TurnInv'
      BY <1>1, <1>2, <1>4, <2>1, <2>2, <2>3, <2>5, <3>1, Kinds, <3>2 DEF TurnInv, AnswerInv,
         RowInv, Opening, Training, Posting, Checking, Judging, Ending, AddsR, AddsS, Begins,
         Answers, senderVars, receiverVars
    <3>4. AnswerInv'
      BY <1>1, <1>2, <1>4, <2>1, <2>2, <2>3, <2>5, <3>1, Kinds, <3>2 DEF TurnInv, AnswerInv,
         RowInv, Opening, Training, Posting, Checking, Judging, Ending, AddsR, AddsS, Begins,
         Answers, senderVars, receiverVars
    <3>5. RowInv'
      BY <1>1, <1>2, <1>4, <2>1, <2>2, <2>3, <2>5, <3>1, Kinds, <3>2 DEF TurnInv, AnswerInv,
         RowInv, Opening, Training, Posting, Checking, Judging, Ending, AddsR, AddsS, Begins,
         Answers, senderVars, receiverVars
    <3>. QED BY <3>3, <3>4, <3>5
  <2>. QED BY <2>6, <2>7, <2>8, <2>9 DEF CoreInv
<1>. QED BY <1>3, <1>4 DEF SendFttOrRtn

LEMMA SendMcfNextStep ==
  ASSUME CallInv, NEW p \in Parties, SendMcfNext(p), UNCHANGED fixed
  PROVE  CoreInv'
<1>1. /\ TypeOK /\ TimerInv /\ RolesInv /\ PagesInv /\ DcnInv
      /\ sst # "ST_DONE" => TurnInv /\ AnswerInv /\ RowInv
  BY DEF CallInv
<1>2. /\ sst # "ST_DONE" => sres # "OK"
      /\ rst # "ST_DONE" => rres # "OK"
      /\ cur_page \in Nat /\ cur_page < PAGES /\ PAGES \in Nat /\ Len(pages) \in Nat
      /\ fallback \in FbIndex /\ toR \in Seq(Messages) /\ toS \in Seq(Messages)
  BY <1>1, RoleFacts, Known2
<1>3. p = Receiver /\ rst = "A_SEND_MCF"
  BY <1>1, ByRole, RoleFacts DEF SendMcfNext, ReceiverSending
<1>4. rst' = "A_RECV_IMAGE" /\ sst' = sst /\ rres' = rres /\ sres' = sres
  BY <1>1, <1>3, Moves DEF SendMcfNext
<1>5. UNCHANGED <<senderVars, rfallback, rx_page_bad, last_post_fcf, pages>>
  BY <1>3 DEF SendMcfNext
<1>6. toR' = toR /\ toS' \in Arrivals(toS, [m |-> "MCF"])
  BY <1>1, <1>3, Exchanges DEF SendMcfNext
<1>7. toR' = toR /\ AddsS(toS', toS, "MCF")
  BY <1>1, <1>2, <1>6, KnownMessages, SentOne
<1>8. RolesInv'
  BY <1>1, <1>2, <1>3, <1>4, <1>5, <1>7 DEF RolesInv, SenderSending, SenderWaiting,
     ReceiverSending, ReceiverWaiting, Opening, AddsR, AddsS, ToReceiver, ToSender, Answers,
     MsgKinds, IdFrames, Carriers, PostKinds, senderVars, receiverVars
<1>9. PagesInv'
  BY <1>1, <1>2, <1>3, <1>4, <1>5, <1>7, SameOrder DEF PagesInv, Opening, Training, Posting,
     AddsR, Begins, senderVars, receiverVars
<1>10. DcnInv'
  BY <1>1, <1>2, <1>3, <1>4, <1>5, <1>7 DEF DcnInv, AddsR
<1>11. ASSUME sst' # "ST_DONE" PROVE TurnInv' /\ AnswerInv' /\ RowInv'
  <2>1. sst # "ST_DONE" /\ TurnInv /\ AnswerInv /\ RowInv
    BY <1>1, <1>2, <1>3, <1>4, <1>5, <1>7, <1>11 DEF Opening, Training, Posting, Checking,
       Judging, Ending
  <2>2. /\ ~Has(toR, Begins) /\ ~Has(toS, Answers)
        /\ sst \notin Opening \cup {"C_SEND_DCS", "C_SEND_IMAGE"}
    BY <1>1, <1>2, <1>3, <1>4, <1>5, <1>7, <2>1, Kinds DEF TurnInv, Checking, Judging
  <2>3. TurnInv'
    BY <1>1, <1>2, <1>3, <1>4, <1>5, <1>7, <2>1, Kinds, <2>2 DEF TurnInv, AnswerInv, RowInv,
       Opening, Training, Posting, Checking, Judging, Ending, AddsR, AddsS, Begins, Answers,
       senderVars, receiverVars
  <2>4. AnswerInv'
    BY <1>1, <1>2, <1>3, <1>4, <1>5, <1>7, <2>1, Kinds, <2>2 DEF TurnInv, AnswerInv, RowInv,
       Opening, Training, Posting, Checking, Judging, Ending, AddsR, AddsS, Begins, Answers,
       senderVars, receiverVars
  <2>5. RowInv'
    BY <1>1, <1>2, <1>3, <1>4, <1>5, <1>7, <2>1, Kinds, <2>2 DEF TurnInv, AnswerInv, RowInv,
       Opening, Training, Posting, Checking, Judging, Ending, AddsR, AddsS, Begins, Answers,
       senderVars, receiverVars
  <2>. QED BY <2>3, <2>4, <2>5
<1>. QED BY <1>8, <1>9, <1>10, <1>11 DEF CoreInv

LEMMA SendMcfLastStep ==
  ASSUME CallInv, NEW p \in Parties, SendMcfLast(p), UNCHANGED fixed
  PROVE  CoreInv'
<1>1. /\ TypeOK /\ TimerInv /\ RolesInv /\ PagesInv /\ DcnInv
      /\ sst # "ST_DONE" => TurnInv /\ AnswerInv /\ RowInv
  BY DEF CallInv
<1>2. /\ sst # "ST_DONE" => sres # "OK"
      /\ rst # "ST_DONE" => rres # "OK"
      /\ cur_page \in Nat /\ cur_page < PAGES /\ PAGES \in Nat /\ Len(pages) \in Nat
      /\ fallback \in FbIndex /\ toR \in Seq(Messages) /\ toS \in Seq(Messages)
  BY <1>1, RoleFacts, Known2
<1>3. CASE st[p] = "A_SEND_MCF"
  <2>1. p = Receiver /\ rst = "A_SEND_MCF" /\ last_post_fcf = "EOP"
    BY <1>1, <1>3, ByRole, RoleFacts DEF SendMcfLast, ReceiverSending
  <2>2. rst' = "A_WAIT_DCN" /\ sst' = sst /\ rres' = rres /\ sres' = sres
    BY <1>1, <1>3, <2>1, Moves DEF SendMcfLast
  <2>3. UNCHANGED <<senderVars, receiverVars>>
    BY <1>3, <2>1 DEF SendMcfLast
  <2>4. toR' = toR /\ toS' \in Arrivals(toS, [m |-> "MCF"])
    BY <1>1, <1>3, <2>1, Exchanges DEF SendMcfLast
  <2>5. toR' = toR /\ AddsS(toS', toS, "MCF")
    BY <1>1, <1>2, <2>4, KnownMessages, SentOne
  <2>6. RolesInv'
    BY <1>1, <1>2, <1>3, <2>1, <2>2, <2>3, <2>5 DEF RolesInv, SenderSending, SenderWaiting,
       ReceiverSending, ReceiverWaiting, Opening, AddsR, AddsS, ToReceiver, ToSender, Answers,
       MsgKinds, IdFrames, Carriers, PostKinds, senderVars, receiverVars
  <2>7. PagesInv'
    BY <1>1, <1>2, <1>3, <2>1, <2>2, <2>3, <2>5, SameOrder DEF PagesInv, Opening, Training,
       Posting, AddsR, Begins, senderVars, receiverVars
  <2>8. DcnInv'
    BY <1>1, <1>2, <1>3, <2>1, <2>2, <2>3, <2>5 DEF DcnInv, AddsR
  <2>9. ASSUME sst' # "ST_DONE" PROVE TurnInv' /\ AnswerInv' /\ RowInv'
    <3>1. sst # "ST_DONE" /\ TurnInv /\ AnswerInv /\ RowInv
      BY <1>1, <1>2, <1>3, <2>1, <2>2, <2>3, <2>5, <2>9 DEF Opening, Training, Posting,
         Checking, Judging, Ending
    <3>2. /\ ~Has(toR, Begins) /\ ~Has(toS, Answers)
          /\ sst \notin Opening \cup {"C_SEND_DCS", "C_SEND_IMAGE"}
      BY <1>1, <1>2, <1>3, <2>1, <2>2, <2>3, <2>5, <3>1, Kinds DEF TurnInv, Checking, Judging
    <3>3. TurnInv'
      BY <1>1, <1>2, <1>3, <2>1, <2>2, <2>3, <2>5, <3>1, Kinds, <3>2 DEF TurnInv, AnswerInv,
         RowInv, Opening, Training, Posting, Checking, Judging, Ending, AddsR, AddsS, Begins,
         Answers, senderVars, receiverVars
    <3>4. AnswerInv'
      BY <1>1, <1>2, <1>3, <2>1, <2>2, <2>3, <2>5, <3>1, Kinds, <3>2 DEF TurnInv, AnswerInv,
         RowInv, Opening, Training, Posting, Checking, Judging, Ending, AddsR, AddsS, Begins,
         Answers, senderVars, receiverVars
    <3>5. RowInv'
      BY <1>1, <1>2, <1>3, <2>1, <2>2, <2>3, <2>5, <3>1, Kinds, <3>2 DEF TurnInv, AnswerInv,
         RowInv, Opening, Training, Posting, Checking, Judging, Ending, AddsR, AddsS, Begins,
         Answers, senderVars, receiverVars
    <3>. QED BY <3>3, <3>4, <3>5
  <2>. QED BY <2>6, <2>7, <2>8, <2>9 DEF CoreInv
<1>4. CASE st[p] = "A_REACK"
  <2>1. p = Receiver /\ rst = "A_REACK"
    BY <1>1, <1>4, ByRole, RoleFacts DEF SendMcfLast, ReceiverSending
  <2>2. rst' = "A_WAIT_DCN" /\ sst' = sst /\ rres' = rres /\ sres' = sres
    BY <1>1, <1>4, <2>1, Moves DEF SendMcfLast
  <2>3. UNCHANGED <<senderVars, receiverVars>>
    BY <1>4, <2>1 DEF SendMcfLast
  <2>4. toR' = toR /\ toS' \in Arrivals(toS, [m |-> "MCF"])
    BY <1>1, <1>4, <2>1, Exchanges DEF SendMcfLast
  <2>5. toR' = toR /\ AddsS(toS', toS, "MCF")
    BY <1>1, <1>2, <2>4, KnownMessages, SentOne
  <2>6. RolesInv'
    BY <1>1, <1>2, <1>4, <2>1, <2>2, <2>3, <2>5 DEF RolesInv, SenderSending, SenderWaiting,
       ReceiverSending, ReceiverWaiting, Opening, AddsR, AddsS, ToReceiver, ToSender, Answers,
       MsgKinds, IdFrames, Carriers, PostKinds, senderVars, receiverVars
  <2>7. PagesInv'
    BY <1>1, <1>2, <1>4, <2>1, <2>2, <2>3, <2>5, SameOrder DEF PagesInv, Opening, Training,
       Posting, AddsR, Begins, senderVars, receiverVars
  <2>8. DcnInv'
    BY <1>1, <1>2, <1>4, <2>1, <2>2, <2>3, <2>5 DEF DcnInv, AddsR
  <2>9. ASSUME sst' # "ST_DONE" PROVE TurnInv' /\ AnswerInv' /\ RowInv'
    <3>1. sst # "ST_DONE" /\ TurnInv /\ AnswerInv /\ RowInv
      BY <1>1, <1>2, <1>4, <2>1, <2>2, <2>3, <2>5, <2>9 DEF Opening, Training, Posting,
         Checking, Judging, Ending
    <3>2. /\ Len(pages) = PAGES /\ ~Has(toR, Begins)
          /\ sst \notin Opening \cup {"C_SEND_DCS", "C_SEND_IMAGE"}
      BY <1>1, <1>2, <2>1, <3>1 DEF RolesInv, SenderSending, SenderWaiting, PagesInv, TurnInv,
         AnswerInv, Opening, Training, Posting, Ending
    <3>3. TurnInv'
      BY <1>1, <1>2, <1>4, <2>1, <2>2, <2>3, <2>5, <3>1, Kinds, <3>2 DEF TurnInv, AnswerInv,
         RowInv, Opening, Training, Posting, Checking, Judging, Ending, AddsR, AddsS, Begins,
         Answers, senderVars, receiverVars
    <3>4. AnswerInv'
      BY <1>1, <1>2, <1>4, <2>1, <2>2, <2>3, <2>5, <3>1, Kinds, <3>2 DEF TurnInv, AnswerInv,
         RowInv, Opening, Training, Posting, Checking, Judging, Ending, AddsR, AddsS, Begins,
         Answers, senderVars, receiverVars
    <3>5. RowInv'
      BY <1>1, <1>2, <1>4, <2>1, <2>2, <2>3, <2>5, <3>1, Kinds, <3>2 DEF TurnInv, AnswerInv,
         RowInv, Opening, Training, Posting, Checking, Judging, Ending, AddsR, AddsS, Begins,
         Answers, senderVars, receiverVars
    <3>. QED BY <3>3, <3>4, <3>5
  <2>. QED BY <2>6, <2>7, <2>8, <2>9 DEF CoreInv
<1>. QED BY <1>3, <1>4 DEF SendMcfLast

LEMMA SendCedStep ==
  ASSUME CallInv, NEW p \in Parties, p = "answerer", SendCed, UNCHANGED fixed
  PROVE  CoreInv'
<1>1. /\ TypeOK /\ TimerInv /\ RolesInv /\ PagesInv /\ DcnInv
      /\ sst # "ST_DONE" => TurnInv /\ AnswerInv /\ RowInv
  BY DEF CallInv
<1>2. /\ sst # "ST_DONE" => sres # "OK"
      /\ rst # "ST_DONE" => rres # "OK"
      /\ cur_page \in Nat /\ cur_page < PAGES /\ PAGES \in Nat /\ Len(pages) \in Nat
      /\ fallback \in FbIndex /\ toR \in Seq(Messages) /\ toS \in Seq(Messages)
  BY <1>1, RoleFacts, Known2
<1>3. CASE p = Sender
  <2>1. sst = "A_SEND_CED"
    BY <1>1, <1>3, ByRole, RoleFacts DEF SendCed
  <2>2. sst' = "A_SEND_DIS" /\ rst' = rst /\ sres' = sres /\ rres' = rres
    BY <1>1, <1>3, <2>1, Moves DEF SendCed
  <2>3. UNCHANGED <<senderVars, receiverVars>>
    BY <1>3, <2>1 DEF SendCed
  <2>4. toR' = toR /\ toS' = toS
    BY <1>1, <1>3, <2>1, Exchanges DEF SendCed
  <2>5. RolesInv'
    BY <1>1, <1>2, <1>3, <2>1, <2>2, <2>3, <2>4 DEF RolesInv, SenderSending, SenderWaiting,
       ReceiverSending, ReceiverWaiting, Opening, AddsR, AddsS, ToReceiver, ToSender, Answers,
       MsgKinds, IdFrames, Carriers, PostKinds, senderVars, receiverVars
  <2>6. PagesInv'
    BY <1>1, <1>2, <1>3, <2>1, <2>2, <2>3, <2>4, SameOrder DEF PagesInv, Opening, Training,
       Posting, AddsR, Begins, senderVars, receiverVars
  <2>7. DcnInv'
    BY <1>1, <1>2, <1>3, <2>1, <2>2, <2>3, <2>4 DEF DcnInv, AddsR
  <2>8. ASSUME sst' # "ST_DONE" PROVE TurnInv' /\ AnswerInv' /\ RowInv'
    <3>1. sst # "ST_DONE" /\ TurnInv /\ AnswerInv /\ RowInv
      BY <1>1, <1>2, <1>3, <2>1, <2>2, <2>3, <2>4, <2>8 DEF Opening, Training, Posting,
         Checking, Judging, Ending
    <3>2. TurnInv'
      BY <1>1, <1>2, <1>3, <2>1, <2>2, <2>3, <2>4, <3>1, Kinds DEF TurnInv, AnswerInv, RowInv,
         Opening, Training, Posting, Checking, Judging, Ending, AddsR, AddsS, Begins, Answers,
         senderVars, receiverVars
    <3>3. AnswerInv'
      BY <1>1, <1>2, <1>3, <2>1, <2>2, <2>3, <2>4, <3>1, Kinds DEF TurnInv, AnswerInv, RowInv,
         Opening, Training, Posting, Checking, Judging, Ending, AddsR, AddsS, Begins, Answers,
         senderVars, receiverVars
    <3>4. RowInv'
      BY <1>1, <1>2, <1>3, <2>1, <2>2, <2>3, <2>4, <3>1, Kinds DEF TurnInv, AnswerInv, RowInv,
         Opening, Training, Posting, Checking, Judging, Ending, AddsR, AddsS, Begins, Answers,
         senderVars, receiverVars
    <3>. QED BY <3>2, <3>3, <3>4
  <2>. QED BY <2>5, <2>6, <2>7, <2>8 DEF CoreInv
<1>4. CASE p = Receiver
  <2>1. rst = "A_SEND_CED"
    BY <1>1, <1>4, ByRole, RoleFacts DEF SendCed
  <2>2. rst' = "A_SEND_DIS" /\ sst' = sst /\ rres' = rres /\ sres' = sres
    BY <1>1, <1>4, <2>1, Moves DEF SendCed
  <2>3. UNCHANGED <<senderVars, receiverVars>>
    BY <1>4, <2>1 DEF SendCed
  <2>4. toR' = toR /\ toS' = toS
    BY <1>1, <1>4, <2>1, Exchanges DEF SendCed
  <2>5. RolesInv'
    BY <1>1, <1>2, <1>4, <2>1, <2>2, <2>3, <2>4 DEF RolesInv, SenderSending, SenderWaiting,
       ReceiverSending, ReceiverWaiting, Opening, AddsR, AddsS, ToReceiver, ToSender, Answers,
       MsgKinds, IdFrames, Carriers, PostKinds, senderVars, receiverVars
  <2>6. PagesInv'
    BY <1>1, <1>2, <1>4, <2>1, <2>2, <2>3, <2>4, SameOrder DEF PagesInv, Opening, Training,
       Posting, AddsR, Begins, senderVars, receiverVars
  <2>7. DcnInv'
    BY <1>1, <1>2, <1>4, <2>1, <2>2, <2>3, <2>4 DEF DcnInv, AddsR
  <2>8. ASSUME sst' # "ST_DONE" PROVE TurnInv' /\ AnswerInv' /\ RowInv'
    <3>1. sst # "ST_DONE" /\ TurnInv /\ AnswerInv /\ RowInv
      BY <1>1, <1>2, <1>4, <2>1, <2>2, <2>3, <2>4, <2>8 DEF Opening, Training, Posting,
         Checking, Judging, Ending
    <3>2. TurnInv'
      BY <1>1, <1>2, <1>4, <2>1, <2>2, <2>3, <2>4, <3>1, Kinds DEF TurnInv, AnswerInv, RowInv,
         Opening, Training, Posting, Checking, Judging, Ending, AddsR, AddsS, Begins, Answers,
         senderVars, receiverVars
    <3>3. AnswerInv'
      BY <1>1, <1>2, <1>4, <2>1, <2>2, <2>3, <2>4, <3>1, Kinds DEF TurnInv, AnswerInv, RowInv,
         Opening, Training, Posting, Checking, Judging, Ending, AddsR, AddsS, Begins, Answers,
         senderVars, receiverVars
    <3>4. RowInv'
      BY <1>1, <1>2, <1>4, <2>1, <2>2, <2>3, <2>4, <3>1, Kinds DEF TurnInv, AnswerInv, RowInv,
         Opening, Training, Posting, Checking, Judging, Ending, AddsR, AddsS, Begins, Answers,
         senderVars, receiverVars
    <3>. QED BY <3>2, <3>3, <3>4
  <2>. QED BY <2>5, <2>6, <2>7, <2>8 DEF CoreInv
<1>. QED BY <1>3, <1>4, RoleFacts

LEMMA SendDisStep ==
  ASSUME CallInv, NEW p \in Parties, p = "answerer", SendDis, UNCHANGED fixed
  PROVE  CoreInv'
<1>1. /\ TypeOK /\ TimerInv /\ RolesInv /\ PagesInv /\ DcnInv
      /\ sst # "ST_DONE" => TurnInv /\ AnswerInv /\ RowInv
  BY DEF CallInv
<1>2. /\ sst # "ST_DONE" => sres # "OK"
      /\ rst # "ST_DONE" => rres # "OK"
      /\ cur_page \in Nat /\ cur_page < PAGES /\ PAGES \in Nat /\ Len(pages) \in Nat
      /\ fallback \in FbIndex /\ toR \in Seq(Messages) /\ toS \in Seq(Messages)
  BY <1>1, RoleFacts, Known2
<1>3. CASE p = Sender
  <2>1. sst = "A_SEND_DIS" /\ PutsBurst(p, "CSI", [m |-> "DIS", bits |-> DisBits(Allowed[p]), doc |-> setup.doc])
    BY <1>1, <1>3, ByRole, RoleFacts DEF SendDis
  <2>2. sst' = "A_WAIT_DCS" /\ rst' = rst /\ sres' = sres /\ rres' = rres
    BY <1>1, <1>3, <2>1, Moves DEF SendDis
  <2>3. UNCHANGED <<senderVars, receiverVars>>
    BY <1>3, <2>1 DEF SendDis
  <2>4. toS' = toS /\ \E q \in Arrivals(toR, [m |-> "CSI"]) :
    toR' \in Arrivals(q, [m |-> "DIS", bits |-> DisBits(Allowed[p]), doc |-> setup.doc])
    BY <1>1, <1>3, <2>1, Exchanges
  <2>5. toS' = toS /\ AddsR(toR', toR, "DIS")
    BY <1>1, <1>2, <2>4, KnownMessages, SentBurst DEF Carriers
  <2>6. RolesInv'
    BY <1>1, <1>2, <1>3, <2>1, <2>2, <2>3, <2>5 DEF RolesInv, SenderSending, SenderWaiting,
       ReceiverSending, ReceiverWaiting, Opening, AddsR, AddsS, ToReceiver, ToSender, Answers,
       MsgKinds, IdFrames, Carriers, PostKinds, senderVars, receiverVars
  <2>7. PagesInv'
    BY <1>1, <1>2, <1>3, <2>1, <2>2, <2>3, <2>5, SameOrder DEF PagesInv, Opening, Training,
       Posting, AddsR, Begins, senderVars, receiverVars
  <2>8. DcnInv'
    BY <1>1, <1>2, <1>3, <2>1, <2>2, <2>3, <2>5 DEF DcnInv, AddsR
  <2>9. ASSUME sst' # "ST_DONE" PROVE TurnInv' /\ AnswerInv' /\ RowInv'
    <3>1. sst # "ST_DONE" /\ TurnInv /\ AnswerInv /\ RowInv
      BY <1>1, <1>2, <1>3, <2>1, <2>2, <2>3, <2>5, <2>9 DEF Opening, Training, Posting,
         Checking, Judging, Ending
    <3>2. TurnInv'
      BY <1>1, <1>2, <1>3, <2>1, <2>2, <2>3, <2>5, <3>1, Kinds DEF TurnInv, AnswerInv, RowInv,
         Opening, Training, Posting, Checking, Judging, Ending, AddsR, AddsS, Begins, Answers,
         senderVars, receiverVars
    <3>3. AnswerInv'
      BY <1>1, <1>2, <1>3, <2>1, <2>2, <2>3, <2>5, <3>1, Kinds DEF TurnInv, AnswerInv, RowInv,
         Opening, Training, Posting, Checking, Judging, Ending, AddsR, AddsS, Begins, Answers,
         senderVars, receiverVars
    <3>4. RowInv'
      BY <1>1, <1>2, <1>3, <2>1, <2>2, <2>3, <2>5, <3>1, Kinds DEF TurnInv, AnswerInv, RowInv,
         Opening, Training, Posting, Checking, Judging, Ending, AddsR, AddsS, Begins, Answers,
         senderVars, receiverVars
    <3>. QED BY <3>2, <3>3, <3>4
  <2>. QED BY <2>6, <2>7, <2>8, <2>9 DEF CoreInv
<1>4. CASE p = Receiver
  <2>1. rst = "A_SEND_DIS" /\ PutsBurst(p, "CSI", [m |-> "DIS", bits |-> DisBits(Allowed[p]), doc |-> setup.doc])
    BY <1>1, <1>4, ByRole, RoleFacts DEF SendDis
  <2>2. rst' = "A_WAIT_DCS" /\ sst' = sst /\ rres' = rres /\ sres' = sres
    BY <1>1, <1>4, <2>1, Moves DEF SendDis
  <2>3. UNCHANGED <<senderVars, receiverVars>>
    BY <1>4, <2>1 DEF SendDis
  <2>4. toR' = toR /\ \E q \in Arrivals(toS, [m |-> "CSI"]) :
    toS' \in Arrivals(q, [m |-> "DIS", bits |-> DisBits(Allowed[p]), doc |-> setup.doc])
    BY <1>1, <1>4, <2>1, Exchanges
  <2>5. toR' = toR /\ AddsS(toS', toS, "DIS")
    BY <1>1, <1>2, <2>4, KnownMessages, SentBurst DEF Carriers
  <2>6. RolesInv'
    BY <1>1, <1>2, <1>4, <2>1, <2>2, <2>3, <2>5 DEF RolesInv, SenderSending, SenderWaiting,
       ReceiverSending, ReceiverWaiting, Opening, AddsR, AddsS, ToReceiver, ToSender, Answers,
       MsgKinds, IdFrames, Carriers, PostKinds, senderVars, receiverVars
  <2>7. PagesInv'
    BY <1>1, <1>2, <1>4, <2>1, <2>2, <2>3, <2>5, SameOrder DEF PagesInv, Opening, Training,
       Posting, AddsR, Begins, senderVars, receiverVars
  <2>8. DcnInv'
    BY <1>1, <1>2, <1>4, <2>1, <2>2, <2>3, <2>5 DEF DcnInv, AddsR
  <2>9. ASSUME sst' # "ST_DONE" PROVE TurnInv' /\ AnswerInv' /\ RowInv'
    <3>1. sst # "ST_DONE" /\ TurnInv /\ AnswerInv /\ RowInv
      BY <1>1, <1>2, <1>4, <2>1, <2>2, <2>3, <2>5, <2>9 DEF Opening, Training, Posting,
         Checking, Judging, Ending
    <3>2. TurnInv'
      BY <1>1, <1>2, <1>4, <2>1, <2>2, <2>3, <2>5, <3>1, Kinds DEF TurnInv, AnswerInv, RowInv,
         Opening, Training, Posting, Checking, Judging, Ending, AddsR, AddsS, Begins, Answers,
         senderVars, receiverVars
    <3>3. AnswerInv'
      BY <1>1, <1>2, <1>4, <2>1, <2>2, <2>3, <2>5, <3>1, Kinds DEF TurnInv, AnswerInv, RowInv,
         Opening, Training, Posting, Checking, Judging, Ending, AddsR, AddsS, Begins, Answers,
         senderVars, receiverVars
    <3>4. RowInv'
      BY <1>1, <1>2, <1>4, <2>1, <2>2, <2>3, <2>5, <3>1, Kinds DEF TurnInv, AnswerInv, RowInv,
         Opening, Training, Posting, Checking, Judging, Ending, AddsR, AddsS, Begins, Answers,
         senderVars, receiverVars
    <3>. QED BY <3>2, <3>3, <3>4
  <2>. QED BY <2>6, <2>7, <2>8, <2>9 DEF CoreInv
<1>. QED BY <1>3, <1>4, RoleFacts

LEMMA SendDtcStep ==
  ASSUME CallInv, NEW p \in Parties, p = "caller", SendDtc, UNCHANGED fixed
  PROVE  CoreInv'
<1>1. /\ TypeOK /\ TimerInv /\ RolesInv /\ PagesInv /\ DcnInv
      /\ sst # "ST_DONE" => TurnInv /\ AnswerInv /\ RowInv
  BY DEF CallInv
<1>2. /\ sst # "ST_DONE" => sres # "OK"
      /\ rst # "ST_DONE" => rres # "OK"
      /\ cur_page \in Nat /\ cur_page < PAGES /\ PAGES \in Nat /\ Len(pages) \in Nat
      /\ fallback \in FbIndex /\ toR \in Seq(Messages) /\ toS \in Seq(Messages)
  BY <1>1, RoleFacts, Known2
<1>3. p = Receiver /\ rst = "C_SEND_DTC" /\ PutsBurst(p, "CIG", [m |-> "DTC", bits |-> DisBits(Allowed[p])])
  BY <1>1, ByRole, RoleFacts DEF SendDtc, RolesInv, SenderSending, SenderWaiting, Opening
<1>4. rst' = "A_WAIT_DCS" /\ sst' = sst /\ rres' = rres /\ sres' = sres
  BY <1>1, <1>3, Moves DEF SendDtc
<1>5. UNCHANGED <<senderVars, receiverVars>>
  BY <1>3 DEF SendDtc
<1>6. toR' = toR /\ \E q \in Arrivals(toS, [m |-> "CIG"]) :
  toS' \in Arrivals(q, [m |-> "DTC", bits |-> DisBits(Allowed[p])])
  BY <1>1, <1>3, Exchanges
<1>7. toR' = toR /\ AddsS(toS', toS, "DTC")
  BY <1>1, <1>2, <1>6, KnownMessages, SentBurst DEF Carriers
<1>8. RolesInv'
  BY <1>1, <1>2, <1>3, <1>4, <1>5, <1>7 DEF RolesInv, SenderSending, SenderWaiting,
     ReceiverSending, ReceiverWaiting, Opening, AddsR, AddsS, ToReceiver, ToSender, Answers,
     MsgKinds, IdFrames, Carriers, PostKinds, senderVars, receiverVars
<1>9. PagesInv'
  BY <1>1, <1>2, <1>3, <1>4, <1>5, <1>7, SameOrder DEF PagesInv, Opening, Training, Posting,
     AddsR, Begins, senderVars, receiverVars
<1>10. DcnInv'
  BY <1>1, <1>2, <1>3, <1>4, <1>5, <1>7 DEF DcnInv, AddsR
<1>11. ASSUME sst' # "ST_DONE" PROVE TurnInv' /\ AnswerInv' /\ RowInv'
  <2>1. sst # "ST_DONE" /\ TurnInv /\ AnswerInv /\ RowInv
    BY <1>1, <1>2, <1>3, <1>4, <1>5, <1>7, <1>11 DEF Opening, Training, Posting, Checking,
       Judging, Ending
  <2>2. TurnInv'
    BY <1>1, <1>2, <1>3, <1>4, <1>5, <1>7, <2>1, Kinds DEF TurnInv, AnswerInv, RowInv,
       Opening, Training, Posting, Checking, Judging, Ending, AddsR, AddsS, Begins, Answers,
       senderVars, receiverVars
  <2>3. AnswerInv'
    BY <1>1, <1>2, <1>3, <1>4, <1>5, <1>7, <2>1, Kinds DEF TurnInv, AnswerInv, RowInv,
       Opening, Training, Posting, Checking, Judging, Ending, AddsR, AddsS, Begins, Answers,
       senderVars, receiverVars
  <2>4. RowInv'
    BY <1>1, <1>2, <1>3, <1>4, <1>5, <1>7, <2>1, Kinds DEF TurnInv, AnswerInv, RowInv,
       Opening, Training, Posting, Checking, Judging, Ending, AddsR, AddsS, Begins, Answers,
       senderVars, receiverVars
  <2>. QED BY <2>2, <2>3, <2>4
<1>. QED BY <1>8, <1>9, <1>10, <1>11 DEF CoreInv

LEMMA HearCapsStep ==
  ASSUME CallInv, NEW p \in Parties, HearCaps(p), UNCHANGED fixed
  PROVE  CoreInv'
<1>1. /\ TypeOK /\ TimerInv /\ RolesInv /\ PagesInv /\ DcnInv
      /\ sst # "ST_DONE" => TurnInv /\ AnswerInv /\ RowInv
  BY DEF CallInv
<1>2. /\ sst # "ST_DONE" => sres # "OK"
      /\ rst # "ST_DONE" => rres # "OK"
      /\ cur_page \in Nat /\ cur_page < PAGES /\ PAGES \in Nat /\ Len(pages) \in Nat
      /\ fallback \in FbIndex /\ toR \in Seq(Messages) /\ toS \in Seq(Messages)
  BY <1>1, RoleFacts, Known2
<1>3. p = Sender /\ sst \in {"C_WAIT_DIS", "A_WAIT_DCS"} /\ Hears(p, {"DIS", "DTC"})
  <2>1. Hears(p, {"DIS", "DTC"}) /\ st[p] \in {"C_WAIT_DIS", "A_WAIT_DCS"}
    BY DEF HearCaps, HearsCaps, Hears
  <2>2. CASE p = "caller" /\ ~setup.poll
    BY <1>1, <2>1, <2>2, ByRole, RoleFacts DEF Sender
  <2>3. CASE p = "answerer" /\ Hears(p, {"DTC"})
    <3>1. p # Receiver
      <4>. SUFFICES ASSUME p = Receiver PROVE FALSE
        OBVIOUS
      <4>1. toR # <<>> /\ Head(toR).m = "DTC"
        BY <1>1, <2>3, ByRole DEF Hears
      <4>2. Has(toR, Answers \cup {"CIG", "DTC"})
        <5>1. "DTC" \in Answers \cup {"CIG", "DTC"}
          OBVIOUS
        <5>. QED BY <1>2, <4>1, <5>1, HeadIn
      <4>. QED BY <1>1, <4>2 DEF RolesInv
    <3>. QED BY <1>1, <2>1, <3>1, ByRole, RoleFacts
  <2>. QED BY <2>1, <2>2, <2>3 DEF HearCaps, HearsCaps
<1>4. sst' = "C_SEND_DCS" /\ rst' = rst /\ sres' = sres /\ rres' = rres
  BY <1>1, <1>3, Moves DEF HearCaps
<1>5. UNCHANGED <<cur_page, rtn_count, pages_tx, receiverVars>>
  BY <1>3 DEF HearCaps
<1>6. toS' = Tail(toS) /\ toR' = toR
  BY <1>1, <1>3, Exchanges DEF HearCaps
<1>7. toS # <<>> /\ Head(toS).m \in {"DIS", "DTC"}
  BY <1>1, <1>3, ByRole, LineTyped
<1>8. toR' = toR /\ AddsS(toS', toS, "none")
  BY <1>2, <1>6, <1>7, TakenHead
<1>9. /\ ~Has(toR, {"TCF"}) => /\ RowsUpTo(toR, fallback') /\ RowsBelow(toR, fallback')
                              /\ OneAtRow(toR, fallback')
      /\ ~Has(toR, {"DCS"}) => DcsAre(toR, fallback')
  BY Lacks
<1>10. RolesInv'
  BY <1>1, <1>2, <1>3, <1>4, <1>5, <1>7, <1>8, <1>9 DEF RolesInv, SenderSending,
     SenderWaiting, ReceiverSending, ReceiverWaiting, Opening, AddsR, AddsS, ToReceiver,
     ToSender, Answers, MsgKinds, IdFrames, Carriers, PostKinds, senderVars, receiverVars
<1>11. PagesInv'
  BY <1>1, <1>2, <1>3, <1>4, <1>5, <1>7, <1>8, <1>9, SameOrder DEF PagesInv, Opening,
     Training, Posting, AddsR, Begins, senderVars, receiverVars
<1>12. DcnInv'
  BY <1>1, <1>2, <1>3, <1>4, <1>5, <1>7, <1>8, <1>9 DEF DcnInv, AddsR
<1>13. ASSUME sst' # "ST_DONE" PROVE TurnInv' /\ AnswerInv' /\ RowInv'
  <2>1. sst # "ST_DONE" /\ TurnInv /\ AnswerInv /\ RowInv
    BY <1>1, <1>2, <1>3, <1>4, <1>5, <1>7, <1>8, <1>9, <1>13 DEF Opening, Training, Posting,
       Checking, Judging, Ending
  <2>2. TurnInv'
    BY <1>1, <1>2, <1>3, <1>4, <1>5, <1>7, <1>8, <1>9, <2>1, Kinds DEF TurnInv, AnswerInv,
       RowInv, Opening, Training, Posting, Checking, Judging, Ending, AddsR, AddsS, Begins,
       Answers, senderVars, receiverVars
  <2>3. AnswerInv'
    BY <1>1, <1>2, <1>3, <1>4, <1>5, <1>7, <1>8, <1>9, <2>1, Kinds DEF TurnInv, AnswerInv,
       RowInv, Opening, Training, Posting, Checking, Judging, Ending, AddsR, AddsS, Begins,
       Answers, senderVars, receiverVars
  <2>4. RowInv'
    BY <1>1, <1>2, <1>3, <1>4, <1>5, <1>7, <1>8, <1>9, <2>1, Kinds DEF TurnInv, AnswerInv,
       RowInv, Opening, Training, Posting, Checking, Judging, Ending, AddsR, AddsS, Begins,
       Answers, senderVars, receiverVars
  <2>. QED BY <2>2, <2>3, <2>4
<1>. QED BY <1>10, <1>11, <1>12, <1>13 DEF CoreInv

LEMMA HearCapsAbortStep ==
  ASSUME CallInv, NEW p \in Parties, HearCapsAbort(p), UNCHANGED fixed
  PROVE  CoreInv'
<1>1. /\ TypeOK /\ TimerInv /\ RolesInv /\ PagesInv /\ DcnInv
      /\ sst # "ST_DONE" => TurnInv /\ AnswerInv /\ RowInv
  BY DEF CallInv
<1>2. /\ sst # "ST_DONE" => sres # "OK"
      /\ rst # "ST_DONE" => rres # "OK"
      /\ cur_page \in Nat /\ cur_page < PAGES /\ PAGES \in Nat /\ Len(pages) \in Nat
      /\ fallback \in FbIndex /\ toR \in Seq(Messages) /\ toS \in Seq(Messages)
  BY <1>1, RoleFacts, Known2
<1>3. p = Sender /\ sst \in {"C_WAIT_DIS", "A_WAIT_DCS"} /\ Hears(p, {"DIS", "DTC"})
  <2>1. Hears(p, {"DIS", "DTC"}) /\ st[p] \in {"C_WAIT_DIS", "A_WAIT_DCS"}
    BY DEF HearCapsAbort, HearsCaps, Hears
  <2>2. CASE p = "caller" /\ ~setup.poll
    BY <1>1, <2>1, <2>2, ByRole, RoleFacts DEF Sender
  <2>3. CASE p = "answerer" /\ Hears(p, {"DTC"})
    <3>1. p # Receiver
      <4>. SUFFICES ASSUME p = Receiver PROVE FALSE
        OBVIOUS
      <4>1. toR # <<>> /\ Head(toR).m = "DTC"
        BY <1>1, <2>3, ByRole DEF Hears
      <4>2. Has(toR, Answers \cup {"CIG", "DTC"})
        <5>1. "DTC" \in Answers \cup {"CIG", "DTC"}
          OBVIOUS
        <5>. QED BY <1>2, <4>1, <5>1, HeadIn
      <4>. QED BY <1>1, <4>2 DEF RolesInv
    <3>. QED BY <1>1, <2>1, <3>1, ByRole, RoleFacts
  <2>. QED BY <2>1, <2>2, <2>3 DEF HearCapsAbort, HearsCaps
<1>4. sst' = "ST_DONE" /\ rst' = rst /\ sres' = "INCOMPAT" /\ rres' = rres
  BY <1>1, <1>3, Moves DEF HearCapsAbort
<1>5. UNCHANGED <<cur_page, rtn_count, pages_tx, receiverVars>>
  BY <1>3 DEF HearCapsAbort
<1>6. toS' = Tail(toS) /\ toR' = toR
  BY <1>1, <1>3, Exchanges DEF HearCapsAbort
<1>7. toS # <<>> /\ Head(toS).m \in {"DIS", "DTC"}
  BY <1>1, <1>3, ByRole, LineTyped
<1>8. toR' = toR /\ AddsS(toS', toS, "none")
  BY <1>2, <1>6, <1>7, TakenHead
<1>9. RolesInv'
  BY <1>1, <1>2, <1>3, <1>4, <1>5, <1>7, <1>8 DEF RolesInv, SenderSending, SenderWaiting,
     ReceiverSending, ReceiverWaiting, Opening, AddsR, AddsS, ToReceiver, ToSender, Answers,
     MsgKinds, IdFrames, Carriers, PostKinds, senderVars, receiverVars
<1>10. PagesInv'
  BY <1>1, <1>2, <1>3, <1>4, <1>5, <1>7, <1>8, SameOrder DEF PagesInv, Opening, Training,
     Posting, AddsR, Begins, senderVars, receiverVars
<1>11. DcnInv'
  BY <1>1, <1>2, <1>3, <1>4, <1>5, <1>7, <1>8 DEF DcnInv, AddsR
<1>. QED BY <1>9, <1>10, <1>11, <1>4 DEF CoreInv

LEMMA HearDisPollStep ==
  ASSUME CallInv, NEW p \in Parties, p = "caller", HearDisPoll, UNCHANGED fixed
  PROVE  CoreInv'
<1>1. /\ TypeOK /\ TimerInv /\ RolesInv /\ PagesInv /\ DcnInv
      /\ sst # "ST_DONE" => TurnInv /\ AnswerInv /\ RowInv
  BY DEF CallInv
<1>2. /\ sst # "ST_DONE" => sres # "OK"
      /\ rst # "ST_DONE" => rres # "OK"
      /\ cur_page \in Nat /\ cur_page < PAGES /\ PAGES \in Nat /\ Len(pages) \in Nat
      /\ fallback \in FbIndex /\ toR \in Seq(Messages) /\ toS \in Seq(Messages)
  BY <1>1, RoleFacts, Known2
<1>3. p = Receiver /\ rst = "C_WAIT_DIS"
  BY <1>1, ByRole, RoleFacts DEF HearDisPoll, Receiver, Sender, Peer
<1>4. rst' = "C_SEND_DTC" /\ sst' = sst /\ rres' = rres /\ sres' = sres
  BY <1>1, <1>3, Moves DEF HearDisPoll
<1>5. UNCHANGED <<senderVars, receiverVars>>
  BY <1>3 DEF HearDisPoll
<1>6. toR' = Tail(toR) /\ toS' = toS
  BY <1>1, <1>3, Exchanges DEF HearDisPoll
<1>7. toR # <<>> /\ Head(toR).m \in {"DIS"}
  BY <1>1, <1>3, ByRole, LineTyped DEF HearDisPoll
<1>8. toS' = toS /\ AddsR(toR', toR, "none")
  BY <1>2, <1>6, <1>7, TakenHead
<1>9. RolesInv'
  BY <1>1, <1>2, <1>3, <1>4, <1>5, <1>7, <1>8 DEF RolesInv, SenderSending, SenderWaiting,
     ReceiverSending, ReceiverWaiting, Opening, AddsR, AddsS, ToReceiver, ToSender, Answers,
     MsgKinds, IdFrames, Carriers, PostKinds, senderVars, receiverVars
<1>10. PagesInv'
  BY <1>1, <1>2, <1>3, <1>4, <1>5, <1>7, <1>8, SameOrder DEF PagesInv, Opening, Training,
     Posting, AddsR, Begins, senderVars, receiverVars
<1>11. DcnInv'
  BY <1>1, <1>2, <1>3, <1>4, <1>5, <1>7, <1>8 DEF DcnInv, AddsR
<1>12. ASSUME sst' # "ST_DONE" PROVE TurnInv' /\ AnswerInv' /\ RowInv'
  <2>1. sst # "ST_DONE" /\ TurnInv /\ AnswerInv /\ RowInv
    BY <1>1, <1>2, <1>3, <1>4, <1>5, <1>7, <1>8, <1>12 DEF Opening, Training, Posting,
       Checking, Judging, Ending
  <2>2. TurnInv'
    BY <1>1, <1>2, <1>3, <1>4, <1>5, <1>7, <1>8, <2>1, Kinds DEF TurnInv, AnswerInv, RowInv,
       Opening, Training, Posting, Checking, Judging, Ending, AddsR, AddsS, Begins, Answers,
       senderVars, receiverVars
  <2>3. AnswerInv'
    BY <1>1, <1>2, <1>3, <1>4, <1>5, <1>7, <1>8, <2>1, Kinds DEF TurnInv, AnswerInv, RowInv,
       Opening, Training, Posting, Checking, Judging, Ending, AddsR, AddsS, Begins, Answers,
       senderVars, receiverVars
  <2>4. RowInv'
    BY <1>1, <1>2, <1>3, <1>4, <1>5, <1>7, <1>8, <2>1, Kinds DEF TurnInv, AnswerInv, RowInv,
       Opening, Training, Posting, Checking, Judging, Ending, AddsR, AddsS, Begins, Answers,
       senderVars, receiverVars
  <2>. QED BY <2>2, <2>3, <2>4
<1>. QED BY <1>9, <1>10, <1>11, <1>12 DEF CoreInv

LEMMA HearDisNoDocStep ==
  ASSUME CallInv, NEW p \in Parties, p = "caller", HearDisNoDoc, UNCHANGED fixed
  PROVE  CoreInv'
<1>1. /\ TypeOK /\ TimerInv /\ RolesInv /\ PagesInv /\ DcnInv
      /\ sst # "ST_DONE" => TurnInv /\ AnswerInv /\ RowInv
  BY DEF CallInv
<1>2. /\ sst # "ST_DONE" => sres # "OK"
      /\ rst # "ST_DONE" => rres # "OK"
      /\ cur_page \in Nat /\ cur_page < PAGES /\ PAGES \in Nat /\ Len(pages) \in Nat
      /\ fallback \in FbIndex /\ toR \in Seq(Messages) /\ toS \in Seq(Messages)
  BY <1>1, RoleFacts, Known2
<1>3. p = Receiver /\ rst = "C_WAIT_DIS"
  BY <1>1, ByRole, RoleFacts DEF HearDisNoDoc, Receiver, Sender, Peer
<1>4. rst' = "ST_DONE" /\ sst' = sst /\ rres' = "INCOMPAT" /\ sres' = sres
  BY <1>1, <1>3, Moves DEF HearDisNoDoc
<1>5. UNCHANGED <<senderVars, receiverVars>>
  BY <1>3 DEF HearDisNoDoc
<1>6. toR' = Tail(toR) /\ toS' = toS
  BY <1>1, <1>3, Exchanges DEF HearDisNoDoc
<1>7. toR # <<>> /\ Head(toR).m \in {"DIS"}
  BY <1>1, <1>3, ByRole, LineTyped DEF HearDisNoDoc
<1>8. toS' = toS /\ AddsR(toR', toR, "none")
  BY <1>2, <1>6, <1>7, TakenHead
<1>9. RolesInv'
  BY <1>1, <1>2, <1>3, <1>4, <1>5, <1>7, <1>8 DEF RolesInv, SenderSending, SenderWaiting,
     ReceiverSending, ReceiverWaiting, Opening, AddsR, AddsS, ToReceiver, ToSender, Answers,
     MsgKinds, IdFrames, Carriers, PostKinds, senderVars, receiverVars
<1>10. PagesInv'
  BY <1>1, <1>2, <1>3, <1>4, <1>5, <1>7, <1>8, SameOrder DEF PagesInv, Opening, Training,
     Posting, AddsR, Begins, senderVars, receiverVars
<1>11. DcnInv'
  BY <1>1, <1>2, <1>3, <1>4, <1>5, <1>7, <1>8 DEF DcnInv, AddsR
<1>12. ASSUME sst' # "ST_DONE" PROVE TurnInv' /\ AnswerInv' /\ RowInv'
  <2>1. sst # "ST_DONE" /\ TurnInv /\ AnswerInv /\ RowInv
    BY <1>1, <1>2, <1>3, <1>4, <1>5, <1>7, <1>8, <1>12 DEF Opening, Training, Posting,
       Checking, Judging, Ending
  <2>2. TurnInv'
    BY <1>1, <1>2, <1>3, <1>4, <1>5, <1>7, <1>8, <2>1, Kinds DEF TurnInv, AnswerInv, RowInv,
       Opening, Training, Posting, Checking, Judging, Ending, AddsR, AddsS, Begins, Answers,
       senderVars, receiverVars
  <2>3. AnswerInv'
    BY <1>1, <1>2, <1>3, <1>4, <1>5, <1>7, <1>8, <2>1, Kinds DEF TurnInv, AnswerInv, RowInv,
       Opening, Training, Posting, Checking, Judging, Ending, AddsR, AddsS, Begins, Answers,
       senderVars, receiverVars
  <2>4. RowInv'
    BY <1>1, <1>2, <1>3, <1>4, <1>5, <1>7, <1>8, <2>1, Kinds DEF TurnInv, AnswerInv, RowInv,
       Opening, Training, Posting, Checking, Judging, Ending, AddsR, AddsS, Begins, Answers,
       senderVars, receiverVars
  <2>. QED BY <2>2, <2>3, <2>4
<1>. QED BY <1>9, <1>10, <1>11, <1>12 DEF CoreInv

LEMMA HearCfrStep ==
  ASSUME CallInv, NEW p \in Parties, HearCfr(p), UNCHANGED fixed
  PROVE  CoreInv'
<1>1. /\ TypeOK /\ TimerInv /\ RolesInv /\ PagesInv /\ DcnInv
      /\ sst # "ST_DONE" => TurnInv /\ AnswerInv /\ RowInv
  BY DEF CallInv
<1>2. /\ sst # "ST_DONE" => sres # "OK"
      /\ rst # "ST_DONE" => rres # "OK"
      /\ cur_page \in Nat /\ cur_page < PAGES /\ PAGES \in Nat /\ Len(pages) \in Nat
      /\ fallback \in FbIndex /\ toR \in Seq(Messages) /\ toS \in Seq(Messages)
  BY <1>1, RoleFacts, Known2
<1>3. p = Sender /\ sst = "C_WAIT_CFR"
  BY <1>1, ByRole, RoleFacts DEF HearCfr, SenderWaiting
<1>4. sst' = "C_SEND_IMAGE" /\ rst' = rst /\ sres' = sres /\ rres' = rres
  BY <1>1, <1>3, Moves DEF HearCfr
<1>5. UNCHANGED <<senderVars, receiverVars>>
  BY <1>3 DEF HearCfr
<1>6. toS' = Tail(toS) /\ toR' = toR
  BY <1>1, <1>3, Exchanges DEF HearCfr
<1>7. toS # <<>> /\ Head(toS).m \in {"CFR"}
  BY <1>1, <1>3, ByRole, LineTyped DEF HearCfr
<1>8. toR' = toR /\ AddsS(toS', toS, "none")
  BY <1>2, <1>6, <1>7, TakenHead
<1>9. /\ Has(toS, Answers) /\ Has(toS, {"CFR"})
      /\ One(toS, Answers) => ~Has(toS', Answers)
  <2>1. "CFR" \in Answers /\ "CFR" \in {"CFR"} /\ Head(toS).m = "CFR"
    BY <1>7 DEF Answers
  <2>. QED BY <1>2, <1>6, <1>7, <2>1, HeadIn, TakenOne
<1>10. RolesInv'
  BY <1>1, <1>2, <1>3, <1>4, <1>5, <1>7, <1>8, <1>9 DEF RolesInv, SenderSending,
     SenderWaiting, ReceiverSending, ReceiverWaiting, Opening, AddsR, AddsS, ToReceiver,
     ToSender, Answers, MsgKinds, IdFrames, Carriers, PostKinds, senderVars, receiverVars
<1>11. PagesInv'
  BY <1>1, <1>2, <1>3, <1>4, <1>5, <1>7, <1>8, <1>9, SameOrder DEF PagesInv, Opening,
     Training, Posting, AddsR, Begins, senderVars, receiverVars
<1>12. DcnInv'
  BY <1>1, <1>2, <1>3, <1>4, <1>5, <1>7, <1>8, <1>9 DEF DcnInv, AddsR
<1>13. ASSUME sst' # "ST_DONE" PROVE TurnInv' /\ AnswerInv' /\ RowInv'
  <2>1. sst # "ST_DONE" /\ TurnInv /\ AnswerInv /\ RowInv
    BY <1>1, <1>2, <1>3, <1>4, <1>5, <1>7, <1>8, <1>9, <1>13 DEF Opening, Training, Posting,
       Checking, Judging, Ending
  <2>2. /\ rst \notin Checking \cup Judging /\ ~Has(toR, Begins)
        /\ One(toS, Answers) \/ Len(pages) = PAGES
    BY <1>1, <1>2, <1>3, <1>4, <1>5, <1>7, <1>8, <1>9, <2>1, Kinds DEF TurnInv
  <2>3. ~Has(toS', Answers)
    <3>1. Len(pages) = cur_page
      BY <1>1, <1>3 DEF PagesInv, Training
    <3>. QED BY <1>2, <1>9, <2>2, <3>1
  <2>4. TurnInv'
    BY <1>1, <1>2, <1>3, <1>4, <1>5, <1>7, <1>8, <1>9, <2>1, Kinds, <2>2, <2>3 DEF TurnInv,
       AnswerInv, RowInv, Opening, Training, Posting, Checking, Judging, Ending, AddsR, AddsS,
       Begins, Answers, senderVars, receiverVars
  <2>5. AnswerInv'
    BY <1>1, <1>2, <1>3, <1>4, <1>5, <1>7, <1>8, <1>9, <2>1, Kinds, <2>2, <2>3 DEF TurnInv,
       AnswerInv, RowInv, Opening, Training, Posting, Checking, Judging, Ending, AddsR, AddsS,
       Begins, Answers, senderVars, receiverVars
  <2>6. RowInv'
    BY <1>1, <1>2, <1>3, <1>4, <1>5, <1>7, <1>8, <1>9, <2>1, Kinds, <2>2, <2>3 DEF TurnInv,
       AnswerInv, RowInv, Opening, Training, Posting, Checking, Judging, Ending, AddsR, AddsS,
       Begins, Answers, senderVars, receiverVars
  <2>. QED BY <2>4, <2>5, <2>6
<1>. QED BY <1>10, <1>11, <1>12, <1>13 DEF CoreInv

LEMMA HearFttStep ==
  ASSUME CallInv, NEW p \in Parties, HearFtt(p), UNCHANGED fixed
  PROVE  CoreInv'
<1>1. /\ TypeOK /\ TimerInv /\ RolesInv /\ PagesInv /\ DcnInv
      /\ sst # "ST_DONE" => TurnInv /\ AnswerInv /\ RowInv
  BY DEF CallInv
<1>2. /\ sst # "ST_DONE" => sres # "OK"
      /\ rst # "ST_DONE" => rres # "OK"
      /\ cur_page \in Nat /\ cur_page < PAGES /\ PAGES \in Nat /\ Len(pages) \in Nat
      /\ fallback \in FbIndex /\ toR \in Seq(Messages) /\ toS \in Seq(Messages)
  BY <1>1, RoleFacts, Known2
<1>3. p = Sender /\ sst = "C_WAIT_CFR"
  BY <1>1, ByRole, RoleFacts DEF HearFtt, SenderWaiting
<1>4. sst' = "C_SEND_DCS" /\ rst' = rst /\ sres' = sres /\ rres' = rres
  BY <1>1, <1>3, Moves DEF HearFtt
<1>5. UNCHANGED <<cur_page, rtn_count, pages_tx, receiverVars>>
  BY <1>3 DEF HearFtt
<1>6. toS' = Tail(toS) /\ toR' = toR
  BY <1>1, <1>3, Exchanges DEF HearFtt
<1>7. toS # <<>> /\ Head(toS).m \in {"FTT"}
  BY <1>1, <1>3, ByRole, LineTyped DEF HearFtt
<1>8. toR' = toR /\ AddsS(toS', toS, "none")
  BY <1>2, <1>6, <1>7, TakenHead
<1>9. /\ Has(toS, Answers) /\ Has(toS, {"FTT"}) /\ Has(toS, {"FTT", "RTN"})
      /\ One(toS, Answers) => ~Has(toS', Answers)
  <2>1. "FTT" \in Answers /\ "FTT" \in {"FTT"} /\ Head(toS).m = "FTT" /\ "FTT" \in {"FTT", "RTN"}
    BY <1>7 DEF Answers
  <2>. QED BY <1>2, <1>6, <1>7, <2>1, HeadIn, TakenOne
<1>10. /\ fallback' \in FbIndex /\ fallback < fallback'
       /\ RowsUpTo(toR, fallback) =>
            RowsUpTo(toR, fallback') /\ RowsBelow(toR, fallback') /\ OneAtRow(toR, fallback')
       /\ ~Has(toR, {"DCS"}) => DcsAre(toR, fallback')
  <2>1. fallback' \in FbIndex /\ fallback < fallback'
    BY <1>1, Rows DEF HearFtt
  <2>. QED BY <1>2, <2>1, NextRow, Lacks
<1>11. RolesInv'
  BY <1>1, <1>2, <1>3, <1>4, <1>5, <1>7, <1>8, <1>9, <1>10 DEF RolesInv, SenderSending,
     SenderWaiting, ReceiverSending, ReceiverWaiting, Opening, AddsR, AddsS, ToReceiver,
     ToSender, Answers, MsgKinds, IdFrames, Carriers, PostKinds, senderVars, receiverVars
<1>12. PagesInv'
  BY <1>1, <1>2, <1>3, <1>4, <1>5, <1>7, <1>8, <1>9, <1>10, SameOrder DEF PagesInv, Opening,
     Training, Posting, AddsR, Begins, senderVars, receiverVars
<1>13. DcnInv'
  BY <1>1, <1>2, <1>3, <1>4, <1>5, <1>7, <1>8, <1>9, <1>10 DEF DcnInv, AddsR
<1>14. ASSUME sst' # "ST_DONE" PROVE TurnInv' /\ AnswerInv' /\ RowInv'
  <2>1. sst # "ST_DONE" /\ TurnInv /\ AnswerInv /\ RowInv
    BY <1>1, <1>2, <1>3, <1>4, <1>5, <1>7, <1>8, <1>9, <1>10, <1>14 DEF Opening, Training,
       Posting, Checking, Judging, Ending
  <2>2. /\ rst \notin Checking \cup Judging /\ ~Has(toR, Begins)
        /\ One(toS, Answers) \/ Len(pages) = PAGES
    BY <1>1, <1>2, <1>3, <1>4, <1>5, <1>7, <1>8, <1>9, <1>10, <2>1, Kinds DEF TurnInv
  <2>3. ~Has(toS', Answers)
    <3>1. Len(pages) = cur_page
      BY <1>1, <1>3 DEF PagesInv, Training
    <3>. QED BY <1>2, <1>9, <2>2, <3>1
  <2>4. TurnInv'
    BY <1>1, <1>2, <1>3, <1>4, <1>5, <1>7, <1>8, <1>9, <1>10, <2>1, Kinds, <2>2, <2>3 DEF
       TurnInv, AnswerInv, RowInv, Opening, Training, Posting, Checking, Judging, Ending,
       AddsR, AddsS, Begins, Answers, senderVars, receiverVars
  <2>5. AnswerInv'
    BY <1>1, <1>2, <1>3, <1>4, <1>5, <1>7, <1>8, <1>9, <1>10, <2>1, Kinds, <2>2, <2>3 DEF
       TurnInv, AnswerInv, RowInv, Opening, Training, Posting, Checking, Judging, Ending,
       AddsR, AddsS, Begins, Answers, senderVars, receiverVars
  <2>6. RowInv'
    BY <1>1, <1>2, <1>3, <1>4, <1>5, <1>7, <1>8, <1>9, <1>10, <2>1, Kinds, <2>2, <2>3 DEF
       TurnInv, AnswerInv, RowInv, Opening, Training, Posting, Checking, Judging, Ending,
       AddsR, AddsS, Begins, Answers, senderVars, receiverVars
  <2>. QED BY <2>4, <2>5, <2>6
<1>. QED BY <1>11, <1>12, <1>13, <1>14 DEF CoreInv

LEMMA HearFttGiveUpStep ==
  ASSUME CallInv, NEW p \in Parties, HearFttGiveUp(p), UNCHANGED fixed
  PROVE  CoreInv'
<1>1. /\ TypeOK /\ TimerInv /\ RolesInv /\ PagesInv /\ DcnInv
      /\ sst # "ST_DONE" => TurnInv /\ AnswerInv /\ RowInv
  BY DEF CallInv
<1>2. /\ sst # "ST_DONE" => sres # "OK"
      /\ rst # "ST_DONE" => rres # "OK"
      /\ cur_page \in Nat /\ cur_page < PAGES /\ PAGES \in Nat /\ Len(pages) \in Nat
      /\ fallback \in FbIndex /\ toR \in Seq(Messages) /\ toS \in Seq(Messages)
  BY <1>1, RoleFacts, Known2
<1>3. p = Sender /\ sst = "C_WAIT_CFR"
  BY <1>1, ByRole, RoleFacts DEF HearFttGiveUp, SenderWaiting
<1>4. sst' = "ST_DONE" /\ rst' = rst /\ sres' = "GENERAL" /\ rres' = rres
  BY <1>1, <1>3, Moves DEF HearFttGiveUp
<1>5. UNCHANGED <<senderVars, receiverVars>>
  BY <1>3 DEF HearFttGiveUp
<1>6. toS' = Tail(toS) /\ toR' = toR
  BY <1>1, <1>3, Exchanges DEF HearFttGiveUp
<1>7. toS # <<>> /\ Head(toS).m \in {"FTT"}
  BY <1>1, <1>3, ByRole, LineTyped DEF HearFttGiveUp
<1>8. toR' = toR /\ AddsS(toS', toS, "none")
  BY <1>2, <1>6, <1>7, TakenHead
<1>9. RolesInv'
  BY <1>1, <1>2, <1>3, <1>4, <1>5, <1>7, <1>8 DEF RolesInv, SenderSending, SenderWaiting,
     ReceiverSending, ReceiverWaiting, Opening, AddsR, AddsS, ToReceiver, ToSender, Answers,
     MsgKinds, IdFrames, Carriers, PostKinds, senderVars, receiverVars
<1>10. PagesInv'
  BY <1>1, <1>2, <1>3, <1>4, <1>5, <1>7, <1>8, SameOrder DEF PagesInv, Opening, Training,
     Posting, AddsR, Begins, senderVars, receiverVars
<1>11. DcnInv'
  BY <1>1, <1>2, <1>3, <1>4, <1>5, <1>7, <1>8 DEF DcnInv, AddsR
<1>. QED BY <1>9, <1>10, <1>11, <1>4 DEF CoreInv

LEMMA HearMcfNextStep ==
  ASSUME CallInv, NEW p \in Parties, HearMcfNext(p), UNCHANGED fixed
  PROVE  CoreInv'
<1>1. /\ TypeOK /\ TimerInv /\ RolesInv /\ PagesInv /\ DcnInv
      /\ sst # "ST_DONE" => TurnInv /\ AnswerInv /\ RowInv
  BY DEF CallInv
<1>2. /\ sst # "ST_DONE" => sres # "OK"
      /\ rst # "ST_DONE" => rres # "OK"
      /\ cur_page \in Nat /\ cur_page < PAGES /\ PAGES \in Nat /\ Len(pages) \in Nat
      /\ fallback \in FbIndex /\ toR \in Seq(Messages) /\ toS \in Seq(Messages)
  BY <1>1, RoleFacts, Known2
<1>3. p = Sender /\ sst = "C_WAIT_MCF"
  BY <1>1, ByRole, RoleFacts DEF HearMcfNext, SenderWaiting
<1>4. sst' = "C_SEND_IMAGE" /\ rst' = rst /\ sres' = sres /\ rres' = rres
  BY <1>1, <1>3, Moves DEF HearMcfNext
<1>5. UNCHANGED <<fallback, pages_tx, receiverVars>> /\ cur_page' = cur_page + 1 /\ rtn_count' = 0
  BY <1>3 DEF HearMcfNext
<1>6. toS' = Tail(toS) /\ toR' = toR
  BY <1>1, <1>3, Exchanges DEF HearMcfNext
<1>7. toS # <<>> /\ Head(toS).m \in {"MCF"}
  BY <1>1, <1>3, ByRole, LineTyped DEF HearMcfNext
<1>8. toR' = toR /\ AddsS(toS', toS, "none")
  BY <1>2, <1>6, <1>7, TakenHead
<1>9. /\ Has(toS, Answers) /\ Has(toS, {"MCF"})
      /\ One(toS, Answers) => ~Has(toS', Answers)
  <2>1. "MCF" \in Answers /\ "MCF" \in {"MCF"} /\ Head(toS).m = "MCF"
    BY <1>7 DEF Answers
  <2>. QED BY <1>2, <1>6, <1>7, <2>1, HeadIn, TakenOne
<1>10. /\ Len(pages) = cur_page + 1 /\ ~Has(toR, {"PAGE"})
       /\ \A n : PagesAre(toR, n)
  <2>1. Len(pages) = cur_page + 1 /\ ~Has(toR, {"PAGE"})
    BY <1>1, <1>3, <1>9, Kinds DEF TurnInv, AnswerInv, Posting
  <2>. QED BY <2>1, Lacks
<1>11. cur_page + 1 < PAGES /\ 0 <= RTN_LIMIT
  BY <1>2, CallAssumption, SMT DEF HearMcfNext, PostMessage
<1>12. RolesInv'
  BY <1>1, <1>2, <1>3, <1>4, <1>5, <1>7, <1>8, <1>9, <1>10, <1>11 DEF RolesInv,
     SenderSending, SenderWaiting, ReceiverSending, ReceiverWaiting, Opening, AddsR, AddsS,
     ToReceiver, ToSender, Answers, MsgKinds, IdFrames, Carriers, PostKinds, senderVars,
     receiverVars
<1>13. PagesInv'
  BY <1>1, <1>2, <1>3, <1>4, <1>5, <1>7, <1>8, <1>9, <1>10, <1>11, SameOrder DEF PagesInv,
     Opening, Training, Posting, AddsR, Begins, senderVars, receiverVars
<1>14. DcnInv'
  BY <1>1, <1>2, <1>3, <1>4, <1>5, <1>7, <1>8, <1>9, <1>10, <1>11 DEF DcnInv, AddsR
<1>15. ASSUME sst' # "ST_DONE" PROVE TurnInv' /\ AnswerInv' /\ RowInv'
  <2>1. sst # "ST_DONE" /\ TurnInv /\ AnswerInv /\ RowInv
    BY <1>1, <1>2, <1>3, <1>4, <1>5, <1>7, <1>8, <1>9, <1>10, <1>11, <1>15 DEF Opening,
       Training, Posting, Checking, Judging, Ending
  <2>2. /\ rst \notin Checking \cup Judging /\ ~Has(toR, Begins)
        /\ One(toS, Answers) \/ Len(pages) = PAGES
    BY <1>1, <1>2, <1>3, <1>4, <1>5, <1>7, <1>8, <1>9, <1>10, <1>11, <2>1, Kinds DEF TurnInv
  <2>3. TurnInv'
    BY <1>1, <1>2, <1>3, <1>4, <1>5, <1>7, <1>8, <1>9, <1>10, <1>11, <2>1, Kinds, <2>2 DEF
       TurnInv, AnswerInv, RowInv, Opening, Training, Posting, Checking, Judging, Ending,
       AddsR, AddsS, Begins, Answers, senderVars, receiverVars
  <2>4. AnswerInv'
    BY <1>1, <1>2, <1>3, <1>4, <1>5, <1>7, <1>8, <1>9, <1>10, <1>11, <2>1, Kinds, <2>2 DEF
       TurnInv, AnswerInv, RowInv, Opening, Training, Posting, Checking, Judging, Ending,
       AddsR, AddsS, Begins, Answers, senderVars, receiverVars
  <2>5. RowInv'
    BY <1>1, <1>2, <1>3, <1>4, <1>5, <1>7, <1>8, <1>9, <1>10, <1>11, <2>1, Kinds, <2>2 DEF
       TurnInv, AnswerInv, RowInv, Opening, Training, Posting, Checking, Judging, Ending,
       AddsR, AddsS, Begins, Answers, senderVars, receiverVars
  <2>. QED BY <2>3, <2>4, <2>5
<1>. QED BY <1>12, <1>13, <1>14, <1>15 DEF CoreInv

LEMMA HearMcfLastStep ==
  ASSUME CallInv, NEW p \in Parties, HearMcfLast(p), UNCHANGED fixed
  PROVE  CoreInv'
<1>1. /\ TypeOK /\ TimerInv /\ RolesInv /\ PagesInv /\ DcnInv
      /\ sst # "ST_DONE" => TurnInv /\ AnswerInv /\ RowInv
  BY DEF CallInv
<1>2. /\ sst # "ST_DONE" => sres # "OK"
      /\ rst # "ST_DONE" => rres # "OK"
      /\ cur_page \in Nat /\ cur_page < PAGES /\ PAGES \in Nat /\ Len(pages) \in Nat
      /\ fallback \in FbIndex /\ toR \in Seq(Messages) /\ toS \in Seq(Messages)
  BY <1>1, RoleFacts, Known2
<1>3. p = Sender /\ sst = "C_WAIT_MCF"
  BY <1>1, ByRole, RoleFacts DEF HearMcfLast, SenderWaiting
<1>4. sst' = "C_SEND_DCN" /\ rst' = rst /\ sres' = sres /\ rres' = rres
  BY <1>1, <1>3, Moves DEF HearMcfLast
<1>5. UNCHANGED <<fallback, cur_page, receiverVars>> /\ pages_tx' = cur_page + 1 /\ rtn_count' = 0
  BY <1>3 DEF HearMcfLast
<1>6. toS' = Tail(toS) /\ toR' = toR
  BY <1>1, <1>3, Exchanges DEF HearMcfLast
<1>7. toS # <<>> /\ Head(toS).m \in {"MCF"}
  BY <1>1, <1>3, ByRole, LineTyped DEF HearMcfLast
<1>8. toR' = toR /\ AddsS(toS', toS, "none")
  BY <1>2, <1>6, <1>7, TakenHead
<1>9. /\ Has(toS, Answers) /\ Has(toS, {"MCF"})
      /\ One(toS, Answers) => ~Has(toS', Answers)
  <2>1. "MCF" \in Answers /\ "MCF" \in {"MCF"} /\ Head(toS).m = "MCF"
    BY <1>7 DEF Answers
  <2>. QED BY <1>2, <1>6, <1>7, <2>1, HeadIn, TakenOne
<1>10. /\ Len(pages) = cur_page + 1 /\ ~Has(toR, {"PAGE"})
       /\ \A n : PagesAre(toR, n)
  <2>1. Len(pages) = cur_page + 1 /\ ~Has(toR, {"PAGE"})
    BY <1>1, <1>3, <1>9, Kinds DEF TurnInv, AnswerInv, Posting
  <2>. QED BY <2>1, Lacks
<1>11. cur_page + 1 = PAGES /\ 0 <= RTN_LIMIT
  BY <1>2, CallAssumption, SMT DEF HearMcfLast, PostMessage
<1>12. RolesInv'
  BY <1>1, <1>2, <1>3, <1>4, <1>5, <1>7, <1>8, <1>9, <1>10, <1>11 DEF RolesInv,
     SenderSending, SenderWaiting, ReceiverSending, ReceiverWaiting, Opening, AddsR, AddsS,
     ToReceiver, ToSender, Answers, MsgKinds, IdFrames, Carriers, PostKinds, senderVars,
     receiverVars
<1>13. PagesInv'
  BY <1>1, <1>2, <1>3, <1>4, <1>5, <1>7, <1>8, <1>9, <1>10, <1>11, SameOrder DEF PagesInv,
     Opening, Training, Posting, AddsR, Begins, senderVars, receiverVars
<1>14. DcnInv'
  BY <1>1, <1>2, <1>3, <1>4, <1>5, <1>7, <1>8, <1>9, <1>10, <1>11 DEF DcnInv, AddsR
<1>15. ASSUME sst' # "ST_DONE" PROVE TurnInv' /\ AnswerInv' /\ RowInv'
  <2>1. sst # "ST_DONE" /\ TurnInv /\ AnswerInv /\ RowInv
    BY <1>1, <1>2, <1>3, <1>4, <1>5, <1>7, <1>8, <1>9, <1>10, <1>11, <1>15 DEF Opening,
       Training, Posting, Checking, Judging, Ending
  <2>2. /\ rst \notin Checking \cup Judging /\ ~Has(toR, Begins)
        /\ One(toS, Answers) \/ Len(pages) = PAGES
    BY <1>1, <1>2, <1>3, <1>4, <1>5, <1>7, <1>8, <1>9, <1>10, <1>11, <2>1, Kinds DEF TurnInv
  <2>3. TurnInv'
    BY <1>1, <1>2, <1>3, <1>4, <1>5, <1>7, <1>8, <1>9, <1>10, <1>11, <2>1, Kinds, <2>2 DEF
       TurnInv, AnswerInv, RowInv, Opening, Training, Posting, Checking, Judging, Ending,
       AddsR, AddsS, Begins, Answers, senderVars, receiverVars
  <2>4. AnswerInv'
    BY <1>1, <1>2, <1>3, <1>4, <1>5, <1>7, <1>8, <1>9, <1>10, <1>11, <2>1, Kinds, <2>2 DEF
       TurnInv, AnswerInv, RowInv, Opening, Training, Posting, Checking, Judging, Ending,
       AddsR, AddsS, Begins, Answers, senderVars, receiverVars
  <2>5. RowInv'
    BY <1>1, <1>2, <1>3, <1>4, <1>5, <1>7, <1>8, <1>9, <1>10, <1>11, <2>1, Kinds, <2>2 DEF
       TurnInv, AnswerInv, RowInv, Opening, Training, Posting, Checking, Judging, Ending,
       AddsR, AddsS, Begins, Answers, senderVars, receiverVars
  <2>. QED BY <2>3, <2>4, <2>5
<1>. QED BY <1>12, <1>13, <1>14, <1>15 DEF CoreInv

LEMMA HearRtnStep ==
  ASSUME CallInv, NEW p \in Parties, HearRtn(p), UNCHANGED fixed
  PROVE  CoreInv'
<1>1. /\ TypeOK /\ TimerInv /\ RolesInv /\ PagesInv /\ DcnInv
      /\ sst # "ST_DONE" => TurnInv /\ AnswerInv /\ RowInv
  BY DEF CallInv
<1>2. /\ sst # "ST_DONE" => sres # "OK"
      /\ rst # "ST_DONE" => rres # "OK"
      /\ cur_page \in Nat /\ cur_page < PAGES /\ PAGES \in Nat /\ Len(pages) \in Nat
      /\ fallback \in FbIndex /\ toR \in Seq(Messages) /\ toS \in Seq(Messages)
  BY <1>1, RoleFacts, Known2
<1>3. p = Sender /\ sst = "C_WAIT_MCF"
  BY <1>1, ByRole, RoleFacts DEF HearRtn, SenderWaiting
<1>4. sst' = "C_SEND_DCS" /\ rst' = rst /\ sres' = sres /\ rres' = rres
  BY <1>1, <1>3, Moves DEF HearRtn
<1>5. UNCHANGED <<cur_page, pages_tx, receiverVars>> /\ rtn_count' <= RTN_LIMIT
  <2>1. rtn_count \in Nat /\ RTN_LIMIT \in Nat
    BY <1>1, CallAssumption DEF TypeOK
  <2>. QED BY <2>1, SMT DEF HearRtn
<1>6. toS' = Tail(toS) /\ toR' = toR
  BY <1>1, <1>3, Exchanges DEF HearRtn
<1>7. toS # <<>> /\ Head(toS).m \in {"RTN"}
  BY <1>1, <1>3, ByRole, LineTyped DEF HearRtn
<1>8. toR' = toR /\ AddsS(toS', toS, "none")
  BY <1>2, <1>6, <1>7, TakenHead
<1>9. /\ Has(toS, Answers) /\ Has(toS, {"RTN"}) /\ Has(toS, {"FTT", "RTN"})
      /\ One(toS, Answers) => ~Has(toS', Answers)
  <2>1. "RTN" \in Answers /\ "RTN" \in {"RTN"} /\ Head(toS).m = "RTN" /\ "RTN" \in {"FTT", "RTN"}
    BY <1>7 DEF Answers
  <2>. QED BY <1>2, <1>6, <1>7, <2>1, HeadIn, TakenOne
<1>10. /\ Len(pages) = cur_page /\ ~Has(toR, {"PAGE"})
       /\ \A n : PagesAre(toR, n)
  <2>1. Len(pages) = cur_page /\ ~Has(toR, {"PAGE"})
    BY <1>1, <1>3, <1>9, Kinds DEF TurnInv, AnswerInv, Posting
  <2>. QED BY <2>1, Lacks
<1>11. /\ fallback' \in FbIndex /\ fallback < fallback'
       /\ RowsUpTo(toR, fallback) =>
            RowsUpTo(toR, fallback') /\ RowsBelow(toR, fallback') /\ OneAtRow(toR, fallback')
       /\ ~Has(toR, {"DCS"}) => DcsAre(toR, fallback')
  <2>1. fallback' \in FbIndex /\ fallback < fallback'
    BY <1>1, Rows DEF HearRtn
  <2>. QED BY <1>2, <2>1, NextRow, Lacks
<1>12. RolesInv'
  BY <1>1, <1>2, <1>3, <1>4, <1>5, <1>7, <1>8, <1>9, <1>10, <1>11 DEF RolesInv,
     SenderSending, SenderWaiting, ReceiverSending, ReceiverWaiting, Opening, AddsR, AddsS,
     ToReceiver, ToSender, Answers, MsgKinds, IdFrames, Carriers, PostKinds, senderVars,
     receiverVars
<1>13. PagesInv'
  BY <1>1, <1>2, <1>3, <1>4, <1>5, <1>7, <1>8, <1>9, <1>10, <1>11, SameOrder DEF PagesInv,
     Opening, Training, Posting, AddsR, Begins, senderVars, receiverVars
<1>14. DcnInv'
  BY <1>1, <1>2, <1>3, <1>4, <1>5, <1>7, <1>8, <1>9, <1>10, <1>11 DEF DcnInv, AddsR
<1>15. ASSUME sst' # "ST_DONE" PROVE TurnInv' /\ AnswerInv' /\ RowInv'
  <2>1. sst # "ST_DONE" /\ TurnInv /\ AnswerInv /\ RowInv
    BY <1>1, <1>2, <1>3, <1>4, <1>5, <1>7, <1>8, <1>9, <1>10, <1>11, <1>15 DEF Opening,
       Training, Posting, Checking, Judging, Ending
  <2>2. /\ rst \notin Checking \cup Judging /\ ~Has(toR, Begins)
        /\ One(toS, Answers) \/ Len(pages) = PAGES
    BY <1>1, <1>2, <1>3, <1>4, <1>5, <1>7, <1>8, <1>9, <1>10, <1>11, <2>1, Kinds DEF TurnInv
  <2>3. TurnInv'
    BY <1>1, <1>2, <1>3, <1>4, <1>5, <1>7, <1>8, <1>9, <1>10, <1>11, <2>1, Kinds, <2>2 DEF
       TurnInv, AnswerInv, RowInv, Opening, Training, Posting, Checking, Judging, Ending,
       AddsR, AddsS, Begins, Answers, senderVars, receiverVars
  <2>4. AnswerInv'
    BY <1>1, <1>2, <1>3, <1>4, <1>5, <1>7, <1>8, <1>9, <1>10, <1>11, <2>1, Kinds, <2>2 DEF
       TurnInv, AnswerInv, RowInv, Opening, Training, Posting, Checking, Judging, Ending,
       AddsR, AddsS, Begins, Answers, senderVars, receiverVars
  <2>5. RowInv'
    BY <1>1, <1>2, <1>3, <1>4, <1>5, <1>7, <1>8, <1>9, <1>10, <1>11, <2>1, Kinds, <2>2 DEF
       TurnInv, AnswerInv, RowInv, Opening, Training, Posting, Checking, Judging, Ending,
       AddsR, AddsS, Begins, Answers, senderVars, receiverVars
  <2>. QED BY <2>3, <2>4, <2>5
<1>. QED BY <1>12, <1>13, <1>14, <1>15 DEF CoreInv

LEMMA HearRtnGiveUpStep ==
  ASSUME CallInv, NEW p \in Parties, HearRtnGiveUp(p), UNCHANGED fixed
  PROVE  CoreInv'
<1>1. /\ TypeOK /\ TimerInv /\ RolesInv /\ PagesInv /\ DcnInv
      /\ sst # "ST_DONE" => TurnInv /\ AnswerInv /\ RowInv
  BY DEF CallInv
<1>2. /\ sst # "ST_DONE" => sres # "OK"
      /\ rst # "ST_DONE" => rres # "OK"
      /\ cur_page \in Nat /\ cur_page < PAGES /\ PAGES \in Nat /\ Len(pages) \in Nat
      /\ fallback \in FbIndex /\ toR \in Seq(Messages) /\ toS \in Seq(Messages)
  BY <1>1, RoleFacts, Known2
<1>3. p = Sender /\ sst = "C_WAIT_MCF"
  BY <1>1, ByRole, RoleFacts DEF HearRtnGiveUp, SenderWaiting
<1>4. sst' = "ST_DONE" /\ rst' = rst /\ sres' = "GENERAL" /\ rres' = rres
  BY <1>1, <1>3, Moves DEF HearRtnGiveUp
<1>5. UNCHANGED <<fallback, cur_page, pages_tx, receiverVars>>
  BY <1>3 DEF HearRtnGiveUp
<1>6. toS' = Tail(toS) /\ toR' = toR
  BY <1>1, <1>3, Exchanges DEF HearRtnGiveUp
<1>7. toS # <<>> /\ Head(toS).m \in {"RTN"}
  BY <1>1, <1>3, ByRole, LineTyped DEF HearRtnGiveUp
<1>8. toR' = toR /\ AddsS(toS', toS, "none")
  BY <1>2, <1>6, <1>7, TakenHead
<1>9. RolesInv'
  BY <1>1, <1>2, <1>3, <1>4, <1>5, <1>7, <1>8 DEF RolesInv, SenderSending, SenderWaiting,
     ReceiverSending, ReceiverWaiting, Opening, AddsR, AddsS, ToReceiver, ToSender, Answers,
     MsgKinds, IdFrames, Carriers, PostKinds, senderVars, receiverVars
<1>10. PagesInv'
  BY <1>1, <1>2, <1>3, <1>4, <1>5, <1>7, <1>8, SameOrder DEF PagesInv, Opening, Training,
     Posting, AddsR, Begins, senderVars, receiverVars
<1>11. DcnInv'
  BY <1>1, <1>2, <1>3, <1>4, <1>5, <1>7, <1>8 DEF DcnInv, AddsR
<1>. QED BY <1>9, <1>10, <1>11, <1>4 DEF CoreInv

LEMMA HearDcsStep ==
  ASSUME CallInv, NEW p \in Parties, HearDcs(p), UNCHANGED fixed
  PROVE  CoreInv'
<1>1. /\ TypeOK /\ TimerInv /\ RolesInv /\ PagesInv /\ DcnInv
      /\ sst # "ST_DONE" => TurnInv /\ AnswerInv /\ RowInv
  BY DEF CallInv
<1>2. /\ sst # "ST_DONE" => sres # "OK"
      /\ rst # "ST_DONE" => rres # "OK"
      /\ cur_page \in Nat /\ cur_page < PAGES /\ PAGES \in Nat /\ Len(pages) \in Nat
      /\ fallback \in FbIndex /\ toR \in Seq(Messages) /\ toS \in Seq(Messages)
  BY <1>1, RoleFacts, Known2
<1>3. p = Receiver /\ rst \in {"A_WAIT_DCS", "A_RECV_TCF"}
  <2>1. st[p] \in {"A_WAIT_DCS", "A_RECV_TCF"} /\ Hears(p, {"DCS"})
    BY DEF HearDcs
  <2>2. p # Sender
    <3>. SUFFICES ASSUME p = Sender PROVE FALSE
      OBVIOUS
    <3>1. toS # <<>> /\ Head(toS).m = "DCS"
      BY <1>1, <2>1, ByRole DEF Hears
    <3>2. "DCS" \in MsgKinds \ (Answers \cup {"CSI", "DIS", "CIG", "DTC"})
      BY DEF MsgKinds, Answers
    <3>3. Has(toS, MsgKinds \ (Answers \cup {"CSI", "DIS", "CIG", "DTC"}))
      BY <1>2, <3>1, <3>2, HeadIn
    <3>. QED BY <1>1, <3>3 DEF RolesInv
  <2>. QED BY <1>1, <2>1, <2>2, ByRole, RoleFacts
<1>4. rst' = "A_RECV_TCF" /\ sst' = sst /\ rres' = rres /\ sres' = sres
  BY <1>1, <1>3, Moves DEF HearDcs
<1>5. UNCHANGED <<senderVars, rx_page_bad, last_post_fcf, pages>>
  BY <1>3 DEF HearDcs
<1>6. toR' = Tail(toR) /\ toS' = toS
  BY <1>1, <1>3, Exchanges DEF HearDcs
<1>7. toR # <<>> /\ Head(toR).m \in {"DCS"}
  BY <1>1, <1>3, ByRole, LineTyped DEF HearDcs
<1>8. toS' = toS /\ AddsR(toR', toR, "none")
  BY <1>2, <1>6, <1>7, TakenHead
<1>9. /\ Has(toR, Begins) /\ Has(toR, {"DCS"})
      /\ One(toR, Begins) => ~Has(toR', Begins)
  <2>1. "DCS" \in Begins /\ "DCS" \in {"DCS"} /\ Head(toR).m = "DCS"
    BY <1>7 DEF Begins
  <2>. QED BY <1>2, <1>6, <1>7, <2>1, HeadIn, TakenOne
<1>10. DcsAre(toR, fallback) => rfallback' = fallback
  <2>1. rfallback' = ParseDcs(Head(toR).bits)
    BY <1>1, <1>3, ByRole DEF HearDcs
  <2>2. DcsAre(toR, fallback) => Head(toR).bits = FB[fallback].dcs
    BY <1>2, <1>6, <1>7, Taken
  <2>. QED BY <1>1, <1>2, <2>1, <2>2, Rows
<1>11. RolesInv'
  BY <1>1, <1>2, <1>3, <1>4, <1>5, <1>7, <1>8, <1>9, <1>10 DEF RolesInv, SenderSending,
     SenderWaiting, ReceiverSending, ReceiverWaiting, Opening, AddsR, AddsS, ToReceiver,
     ToSender, Answers, MsgKinds, IdFrames, Carriers, PostKinds, senderVars, receiverVars
<1>12. PagesInv'
  BY <1>1, <1>2, <1>3, <1>4, <1>5, <1>7, <1>8, <1>9, <1>10, SameOrder DEF PagesInv, Opening,
     Training, Posting, AddsR, Begins, senderVars, receiverVars
<1>13. DcnInv'
  BY <1>1, <1>2, <1>3, <1>4, <1>5, <1>7, <1>8, <1>9, <1>10 DEF DcnInv, AddsR
<1>14. ASSUME sst' # "ST_DONE" PROVE TurnInv' /\ AnswerInv' /\ RowInv'
  <2>1. sst # "ST_DONE" /\ TurnInv /\ AnswerInv /\ RowInv
    BY <1>1, <1>2, <1>3, <1>4, <1>5, <1>7, <1>8, <1>9, <1>10, <1>14 DEF Opening, Training,
       Posting, Checking, Judging, Ending
  <2>2. TurnInv'
    BY <1>1, <1>2, <1>3, <1>4, <1>5, <1>7, <1>8, <1>9, <1>10, <2>1, Kinds DEF TurnInv,
       AnswerInv, RowInv, Opening, Training, Posting, Checking, Judging, Ending, AddsR, AddsS,
       Begins, Answers, senderVars, receiverVars
  <2>3. AnswerInv'
    BY <1>1, <1>2, <1>3, <1>4, <1>5, <1>7, <1>8, <1>9, <1>10, <2>1, Kinds DEF TurnInv,
       AnswerInv, RowInv, Opening, Training, Posting, Checking, Judging, Ending, AddsR, AddsS,
       Begins, Answers, senderVars, receiverVars
  <2>4. RowInv'
    BY <1>1, <1>2, <1>3, <1>4, <1>5, <1>7, <1>8, <1>9, <1>10, <2>1, Kinds DEF TurnInv,
       AnswerInv, RowInv, Opening, Training, Posting, Checking, Judging, Ending, AddsR, AddsS,
       Begins, Answers, senderVars, receiverVars
  <2>. QED BY <2>2, <2>3, <2>4
<1>. QED BY <1>11, <1>12, <1>13, <1>14 DEF CoreInv

LEMMA HearTcfStep ==
  ASSUME CallInv, NEW p \in Parties, HearTcf(p), UNCHANGED fixed
  PROVE  CoreInv'
<1>1. /\ TypeOK /\ TimerInv /\ RolesInv /\ PagesInv /\ DcnInv
      /\ sst # "ST_DONE" => TurnInv /\ AnswerInv /\ RowInv
  BY DEF CallInv
<1>2. /\ sst # "ST_DONE" => sres # "OK"
      /\ rst # "ST_DONE" => rres # "OK"
      /\ cur_page \in Nat /\ cur_page < PAGES /\ PAGES \in Nat /\ Len(pages) \in Nat
      /\ fallback \in FbIndex /\ toR \in Seq(Messages) /\ toS \in Seq(Messages)
  BY <1>1, RoleFacts, Known2
<1>3. p = Receiver /\ rst = "A_RECV_TCF"
  BY <1>1, ByRole, RoleFacts DEF HearTcf, ReceiverWaiting
<1>4. rst' \in {"A_SEND_CFR", "A_SEND_FTT"} /\ sst' = sst /\ rres' = rres /\ sres' = sres
  BY <1>1, <1>3, Moves DEF HearTcf
<1>5. UNCHANGED <<senderVars, rfallback, rx_page_bad, last_post_fcf, pages>>
  BY <1>3 DEF HearTcf
<1>6. toR' = Tail(toR) /\ toS' = toS
  BY <1>1, <1>3, Exchanges DEF HearTcf
<1>7. toR # <<>> /\ Head(toR).m \in Carriers
  BY <1>1, <1>3, ByRole, LineTyped DEF HearTcf, HearsCarrier
<1>8. toS' = toS /\ AddsR(toR', toR, "none")
  BY <1>2, <1>6, <1>7, TakenHead
<1>9. /\ Head(toR).row = rfallback
      /\ Head(toR).m = "PAGE" => Has(toR, Begins)
  <2>1. Head(toR).row = rfallback
    BY <1>1, <1>3, ByRole DEF HearTcf, HearsCarrier
  <2>2. "PAGE" \in Begins
    BY DEF Begins
  <2>. QED BY <1>2, <1>7, <2>1, <2>2, HeadIn
<1>10. RolesInv'
  BY <1>1, <1>2, <1>3, <1>4, <1>5, <1>7, <1>8, <1>9 DEF RolesInv, SenderSending,
     SenderWaiting, ReceiverSending, ReceiverWaiting, Opening, AddsR, AddsS, ToReceiver,
     ToSender, Answers, MsgKinds, IdFrames, Carriers, PostKinds, senderVars, receiverVars
<1>11. PagesInv'
  BY <1>1, <1>2, <1>3, <1>4, <1>5, <1>7, <1>8, <1>9, SameOrder DEF PagesInv, Opening,
     Training, Posting, AddsR, Begins, senderVars, receiverVars
<1>12. DcnInv'
  BY <1>1, <1>2, <1>3, <1>4, <1>5, <1>7, <1>8, <1>9 DEF DcnInv, AddsR
<1>13. ASSUME sst' # "ST_DONE" PROVE TurnInv' /\ AnswerInv' /\ RowInv'
  <2>1. sst # "ST_DONE" /\ TurnInv /\ AnswerInv /\ RowInv
    BY <1>1, <1>2, <1>3, <1>4, <1>5, <1>7, <1>8, <1>9, <1>13 DEF Opening, Training, Posting,
       Checking, Judging, Ending
  <2>2. /\ Head(toR).m = "TCF" /\ Head(toR).row = fallback
        /\ ~Has(toS, Answers)
        /\ ~Has(toR, Begins)
    BY <1>1, <1>2, <1>3, <1>4, <1>5, <1>7, <1>8, <1>9, <2>1, Kinds DEF TurnInv, RowInv, Checking, Carriers
  <2>3. RowsBelow(toR', fallback) /\ ~RowsBelow(toR, fallback)
    <3>1. RowsUpTo(toR, fallback) /\ OneAtRow(toR, fallback)
      BY <2>1 DEF RowInv
    <3>2. RowsBelow(toR', fallback)
      BY <1>2, <1>6, <1>7, <2>2, <3>1, TakenTcf
    <3>3. RowsBelow(toR, fallback) => Head(toR).row < fallback
      BY <1>2, <1>7, <2>2, Taken
    <3>. QED BY <1>2, <2>2, <3>2, <3>3, SMT DEF FbIndex
  <2>4. TurnInv'
    BY <1>1, <1>2, <1>3, <1>4, <1>5, <1>7, <1>8, <1>9, <2>1, Kinds, <2>2, <2>3 DEF TurnInv,
       AnswerInv, RowInv, Opening, Training, Posting, Checking, Judging, Ending, AddsR, AddsS,
       Begins, Answers, senderVars, receiverVars
  <2>5. AnswerInv'
    BY <1>1, <1>2, <1>3, <1>4, <1>5, <1>7, <1>8, <1>9, <2>1, Kinds, <2>2, <2>3 DEF TurnInv,
       AnswerInv, RowInv, Opening, Training, Posting, Checking, Judging, Ending, AddsR, AddsS,
       Begins, Answers, senderVars, receiverVars
  <2>6. RowInv'
    BY <1>1, <1>2, <1>3, <1>4, <1>5, <1>7, <1>8, <1>9, <2>1, Kinds, <2>2, <2>3 DEF TurnInv,
       AnswerInv, RowInv, Opening, Training, Posting, Checking, Judging, Ending, AddsR, AddsS,
       Begins, Answers, senderVars, receiverVars
  <2>. QED BY <2>4, <2>5, <2>6
<1>. QED BY <1>10, <1>11, <1>12, <1>13 DEF CoreInv

LEMMA HearPageStep ==
  ASSUME CallInv, NEW p \in Parties, HearPage(p), UNCHANGED fixed
  PROVE  CoreInv'
<1>1. /\ TypeOK /\ TimerInv /\ RolesInv /\ PagesInv /\ DcnInv
      /\ sst # "ST_DONE" => TurnInv /\ AnswerInv /\ RowInv
  BY DEF CallInv
<1>2. /\ sst # "ST_DONE" => sres # "OK"
      /\ rst # "ST_DONE" => rres # "OK"
      /\ cur_page \in Nat /\ cur_page < PAGES /\ PAGES \in Nat /\ Len(pages) \in Nat
      /\ fallback \in FbIndex /\ toR \in Seq(Messages) /\ toS \in Seq(Messages)
  BY <1>1, RoleFacts, Known2
<1>3. p = Receiver /\ rst = "A_RECV_IMAGE"
  BY <1>1, ByRole, RoleFacts DEF HearPage, ReceiverWaiting
<1>4. rst' = "A_WAIT_POST" /\ sst' = sst /\ rres' = rres /\ sres' = sres
  BY <1>1, <1>3, Moves DEF HearPage
<1>5. UNCHANGED <<senderVars, rfallback, last_post_fcf>>
  BY <1>3 DEF HearPage
<1>6. toR' = Tail(toR) /\ toS' = toS
  BY <1>1, <1>3, Exchanges DEF HearPage
<1>7. toR # <<>> /\ Head(toR).m \in Carriers
  BY <1>1, <1>3, ByRole, LineTyped DEF HearPage, HearsCarrier
<1>8. toS' = toS /\ AddsR(toR', toR, "none")
  BY <1>2, <1>6, <1>7, TakenHead
<1>9. /\ Head(toR).row = rfallback
      /\ IF rx_page_bad' THEN pages' = pages
         ELSE Head(toR).m = "PAGE" /\ pages' = Append(pages, Head(toR).page)
  BY <1>1, <1>3, ByRole DEF HearPage, HearsCarrier, Hears, finish_rx_page
<1>10. /\ Head(toR).m = "PAGE" => Has(toR, {"PAGE"}) /\ Has(toR, Begins)
       /\ Head(toR).m = "PAGE" => ~Has(toR', {"PAGE"}) /\ Head(toR).page = cur_page
       /\ Head(toR).m = "PAGE" /\ One(toR, Begins) => ~Has(toR', Begins)
  <2>1. "PAGE" \in Begins /\ "PAGE" \in {"PAGE"}
    BY DEF Begins
  <2>2. PagesAre(toR, cur_page) /\ One(toR, {"PAGE"})
    BY <1>1 DEF PagesInv
  <2>3. Head(toR).m = "PAGE" => Head(toR).page = cur_page
    BY <1>2, <1>7, <2>2, Taken
  <2>. QED BY <1>2, <1>6, <1>7, <2>1, <2>2, <2>3, HeadIn, TakenOne
<1>11. /\ InOrder' /\ Len(pages') \in Nat
       /\ Len(pages') = (IF rx_page_bad' THEN Len(pages) ELSE cur_page + 1)
       /\ ~rx_page_bad' => Len(pages) = cur_page
  <2>1. pages \in Seq(0..(PAGES - 1)) /\ pages = [i \in 1..Len(pages) |-> i - 1]
    <3>1. pages \in Seq(0..(PAGES - 1))
      BY <1>1 DEF TypeOK
    <3>. QED BY <1>1, <3>1 DEF PagesInv, InOrder
  <2>2. CASE rx_page_bad'
    BY <1>2, <1>9, <2>1, <2>2 DEF InOrder
  <2>3. CASE ~rx_page_bad'
    <3>1. Len(pages) = cur_page /\ pages' = Append(pages, cur_page)
      BY <1>1, <1>9, <1>10, <2>3 DEF PagesInv
    <3>. QED BY <1>2, <2>1, <2>3, <3>1, NextPage DEF InOrder
  <2>. QED BY <2>2, <2>3
<1>12. RolesInv'
  BY <1>1, <1>2, <1>3, <1>4, <1>5, <1>7, <1>8, <1>9, <1>10, <1>11 DEF RolesInv,
     SenderSending, SenderWaiting, ReceiverSending, ReceiverWaiting, Opening, AddsR, AddsS,
     ToReceiver, ToSender, Answers, MsgKinds, IdFrames, Carriers, PostKinds, senderVars,
     receiverVars
<1>13. PagesInv'
  BY <1>1, <1>2, <1>3, <1>4, <1>5, <1>7, <1>8, <1>9, <1>10, <1>11, SameOrder DEF PagesInv,
     Opening, Training, Posting, AddsR, Begins, senderVars, receiverVars
<1>14. DcnInv'
  BY <1>1, <1>2, <1>3, <1>4, <1>5, <1>7, <1>8, <1>9, <1>10, <1>11 DEF DcnInv, AddsR
<1>15. ASSUME sst' # "ST_DONE" PROVE TurnInv' /\ AnswerInv' /\ RowInv'
  <2>1. sst # "ST_DONE" /\ TurnInv /\ AnswerInv /\ RowInv
    BY <1>1, <1>2, <1>3, <1>4, <1>5, <1>7, <1>8, <1>9, <1>10, <1>11, <1>15 DEF Opening,
       Training, Posting, Checking, Judging, Ending
  <2>2. /\ Head(toR).m = "PAGE" /\ Has(toR, Begins) /\ ~Has(toR', Begins)
        /\ sst \in Posting /\ Len(pages) = cur_page
        /\ RowsBelow(toR, fallback) /\ rfallback = fallback
    <3>1. rfallback = fallback /\ RowsBelow(toR, fallback)
      BY <2>1, <1>3 DEF RowInv
    <3>2. Head(toR).m # "TCF"
      <4>1. Head(toR).m = "TCF" => Head(toR).row < fallback
        BY <1>2, <1>7, <3>1, Taken
      <4>. QED BY <1>2, <1>9, <3>1, <4>1, SMT DEF FbIndex
    <3>. QED BY <1>1, <2>1, <1>7, <1>10, <3>1, <3>2 DEF TurnInv, PagesInv, Carriers
  <2>3. TurnInv'
    BY <1>1, <1>2, <1>3, <1>4, <1>5, <1>7, <1>8, <1>9, <1>10, <1>11, <2>1, Kinds, <2>2 DEF
       TurnInv, AnswerInv, RowInv, Opening, Training, Posting, Checking, Judging, Ending,
       AddsR, AddsS, Begins, Answers, senderVars, receiverVars
  <2>4. AnswerInv'
    BY <1>1, <1>2, <1>3, <1>4, <1>5, <1>7, <1>8, <1>9, <1>10, <1>11, <2>1, Kinds, <2>2 DEF
       TurnInv, AnswerInv, RowInv, Opening, Training, Posting, Checking, Judging, Ending,
       AddsR, AddsS, Begins, Answers, senderVars, receiverVars
  <2>5. RowInv'
    BY <1>1, <1>2, <1>3, <1>4, <1>5, <1>7, <1>8, <1>9, <1>10, <1>11, <2>1, Kinds, <2>2 DEF
       TurnInv, AnswerInv, RowInv, Opening, Training, Posting, Checking, Judging, Ending,
       AddsR, AddsS, Begins, Answers, senderVars, receiverVars
  <2>. QED BY <2>3, <2>4, <2>5
<1>. QED BY <1>12, <1>13, <1>14, <1>15 DEF CoreInv

LEMMA HearPostStep ==
  ASSUME CallInv, NEW p \in Parties, HearPost(p), UNCHANGED fixed
  PROVE  CoreInv'
<1>1. /\ TypeOK /\ TimerInv /\ RolesInv /\ PagesInv /\ DcnInv
      /\ sst # "ST_DONE" => TurnInv /\ AnswerInv /\ RowInv
  BY DEF CallInv
<1>2. /\ sst # "ST_DONE" => sres # "OK"
      /\ rst # "ST_DONE" => rres # "OK"
      /\ cur_page \in Nat /\ cur_page < PAGES /\ PAGES \in Nat /\ Len(pages) \in Nat
      /\ fallback \in FbIndex /\ toR \in Seq(Messages) /\ toS \in Seq(Messages)
  BY <1>1, RoleFacts, Known2
<1>3. p = Receiver /\ rst = "A_WAIT_POST"
  BY <1>1, ByRole, RoleFacts DEF HearPost, ReceiverWaiting
<1>4. rst' = (IF rx_page_bad THEN "A_SEND_RTN" ELSE "A_SEND_MCF") /\ sst' = sst /\ rres' = rres /\ sres' = sres
  BY <1>1, <1>3, Moves DEF HearPost
<1>5. UNCHANGED <<senderVars, rfallback, rx_page_bad, pages>>
  BY <1>3 DEF HearPost
<1>6. toR' = Tail(toR) /\ toS' = toS
  BY <1>1, <1>3, Exchanges DEF HearPost
<1>7. toR # <<>> /\ Head(toR).m \in PostKinds
  BY <1>1, <1>3, ByRole, LineTyped DEF HearPost
<1>8. toS' = toS /\ AddsR(toR', toR, "none")
  BY <1>2, <1>6, <1>7, TakenHead
<1>9. last_post_fcf' = "EOP" => Has(toR, {"EOP"})
  <2>1. last_post_fcf' = Head(toR).m
    BY <1>1, <1>3, ByRole DEF HearPost
  <2>2. "EOP" \in {"EOP"}
    OBVIOUS
  <2>. QED BY <1>2, <1>7, <2>1, <2>2, HeadIn
<1>10. RolesInv'
  BY <1>1, <1>2, <1>3, <1>4, <1>5, <1>7, <1>8, <1>9 DEF RolesInv, SenderSending,
     SenderWaiting, ReceiverSending, ReceiverWaiting, Opening, AddsR, AddsS, ToReceiver,
     ToSender, Answers, MsgKinds, IdFrames, Carriers, PostKinds, senderVars, receiverVars
<1>11. PagesInv'
  BY <1>1, <1>2, <1>3, <1>4, <1>5, <1>7, <1>8, <1>9, SameOrder DEF PagesInv, Opening,
     Training, Posting, AddsR, Begins, senderVars, receiverVars
<1>12. DcnInv'
  BY <1>1, <1>2, <1>3, <1>4, <1>5, <1>7, <1>8, <1>9 DEF DcnInv, AddsR
<1>13. ASSUME sst' # "ST_DONE" PROVE TurnInv' /\ AnswerInv' /\ RowInv'
  <2>1. sst # "ST_DONE" /\ TurnInv /\ AnswerInv /\ RowInv
    BY <1>1, <1>2, <1>3, <1>4, <1>5, <1>7, <1>8, <1>9, <1>13 DEF Opening, Training, Posting,
       Checking, Judging, Ending
  <2>2. TurnInv'
    BY <1>1, <1>2, <1>3, <1>4, <1>5, <1>7, <1>8, <1>9, <2>1, Kinds DEF TurnInv, AnswerInv,
       RowInv, Opening, Training, Posting, Checking, Judging, Ending, AddsR, AddsS, Begins,
       Answers, senderVars, receiverVars
  <2>3. AnswerInv'
    BY <1>1, <1>2, <1>3, <1>4, <1>5, <1>7, <1>8, <1>9, <2>1, Kinds DEF TurnInv, AnswerInv,
       RowInv, Opening, Training, Posting, Checking, Judging, Ending, AddsR, AddsS, Begins,
       Answers, senderVars, receiverVars
  <2>4. RowInv'
    BY <1>1, <1>2, <1>3, <1>4, <1>5, <1>7, <1>8, <1>9, <2>1, Kinds DEF TurnInv, AnswerInv,
       RowInv, Opening, Training, Posting, Checking, Judging, Ending, AddsR, AddsS, Begins,
       Answers, senderVars, receiverVars
  <2>. QED BY <2>2, <2>3, <2>4
<1>. QED BY <1>10, <1>11, <1>12, <1>13 DEF CoreInv

LEMMA HearPostAgainStep ==
  ASSUME CallInv, NEW p \in Parties, HearPostAgain(p), UNCHANGED fixed
  PROVE  CoreInv'
<1>1. /\ TypeOK /\ TimerInv /\ RolesInv /\ PagesInv /\ DcnInv
      /\ sst # "ST_DONE" => TurnInv /\ AnswerInv /\ RowInv
  BY DEF CallInv
<1>2. /\ sst # "ST_DONE" => sres # "OK"
      /\ rst # "ST_DONE" => rres # "OK"
      /\ cur_page \in Nat /\ cur_page < PAGES /\ PAGES \in Nat /\ Len(pages) \in Nat
      /\ fallback \in FbIndex /\ toR \in Seq(Messages) /\ toS \in Seq(Messages)
  BY <1>1, RoleFacts, Known2
<1>3. p = Receiver /\ rst = "A_WAIT_DCN"
  BY <1>1, ByRole, RoleFacts DEF HearPostAgain, ReceiverWaiting
<1>4. rst' = "A_REACK" /\ sst' = sst /\ rres' = rres /\ sres' = sres
  BY <1>1, <1>3, Moves DEF HearPostAgain
<1>5. UNCHANGED <<senderVars, receiverVars>>
  BY <1>3 DEF HearPostAgain
<1>6. toR' = Tail(toR) /\ toS' = toS
  BY <1>1, <1>3, Exchanges DEF HearPostAgain
<1>7. toR # <<>> /\ Head(toR).m \in PostKinds
  BY <1>1, <1>3, ByRole, LineTyped DEF HearPostAgain
<1>8. toS' = toS /\ AddsR(toR', toR, "none")
  BY <1>2, <1>6, <1>7, TakenHead
<1>9. RolesInv'
  BY <1>1, <1>2, <1>3, <1>4, <1>5, <1>7, <1>8 DEF RolesInv, SenderSending, SenderWaiting,
     ReceiverSending, ReceiverWaiting, Opening, AddsR, AddsS, ToReceiver, ToSender, Answers,
     MsgKinds, IdFrames, Carriers, PostKinds, senderVars, receiverVars
<1>10. PagesInv'
  BY <1>1, <1>2, <1>3, <1>4, <1>5, <1>7, <1>8, SameOrder DEF PagesInv, Opening, Training,
     Posting, AddsR, Begins, senderVars, receiverVars
<1>11. DcnInv'
  BY <1>1, <1>2, <1>3, <1>4, <1>5, <1>7, <1>8 DEF DcnInv, AddsR
<1>12. ASSUME sst' # "ST_DONE" PROVE TurnInv' /\ AnswerInv' /\ RowInv'
  <2>1. sst # "ST_DONE" /\ TurnInv /\ AnswerInv /\ RowInv
    BY <1>1, <1>2, <1>3, <1>4, <1>5, <1>7, <1>8, <1>12 DEF Opening, Training, Posting,
       Checking, Judging, Ending
  <2>2. TurnInv'
    BY <1>1, <1>2, <1>3, <1>4, <1>5, <1>7, <1>8, <2>1, Kinds DEF TurnInv, AnswerInv, RowInv,
       Opening, Training, Posting, Checking, Judging, Ending, AddsR, AddsS, Begins, Answers,
       senderVars, receiverVars
  <2>3. AnswerInv'
    BY <1>1, <1>2, <1>3, <1>4, <1>5, <1>7, <1>8, <2>1, Kinds DEF TurnInv, AnswerInv, RowInv,
       Opening, Training, Posting, Checking, Judging, Ending, AddsR, AddsS, Begins, Answers,
       senderVars, receiverVars
  <2>4. RowInv'
    BY <1>1, <1>2, <1>3, <1>4, <1>5, <1>7, <1>8, <2>1, Kinds DEF TurnInv, AnswerInv, RowInv,
       Opening, Training, Posting, Checking, Judging, Ending, AddsR, AddsS, Begins, Answers,
       senderVars, receiverVars
  <2>. QED BY <2>2, <2>3, <2>4
<1>. QED BY <1>9, <1>10, <1>11, <1>12 DEF CoreInv

LEMMA HearDcnStep ==
  ASSUME CallInv, NEW p \in Parties, HearDcn(p), UNCHANGED fixed
  PROVE  CoreInv'
<1>1. /\ TypeOK /\ TimerInv /\ RolesInv /\ PagesInv /\ DcnInv
      /\ sst # "ST_DONE" => TurnInv /\ AnswerInv /\ RowInv
  BY DEF CallInv
<1>2. /\ sst # "ST_DONE" => sres # "OK"
      /\ rst # "ST_DONE" => rres # "OK"
      /\ cur_page \in Nat /\ cur_page < PAGES /\ PAGES \in Nat /\ Len(pages) \in Nat
      /\ fallback \in FbIndex /\ toR \in Seq(Messages) /\ toS \in Seq(Messages)
  BY <1>1, RoleFacts, Known2
<1>3. p = Receiver /\ rst \in {"A_WAIT_DCS", "A_RECV_TCF", "A_WAIT_POST", "A_WAIT_DCN"}
  <2>1. st[p] \in {"A_WAIT_DCS", "A_RECV_TCF", "A_WAIT_POST", "A_WAIT_DCN"} /\ Hears(p, {"DCN"})
    BY DEF HearDcn
  <2>2. p # Sender
    <3>. SUFFICES ASSUME p = Sender PROVE FALSE
      OBVIOUS
    <3>1. toS # <<>> /\ Head(toS).m = "DCN"
      BY <1>1, <2>1, ByRole DEF Hears
    <3>2. "DCN" \in MsgKinds \ (Answers \cup {"CSI", "DIS", "CIG", "DTC"})
      BY DEF MsgKinds, Answers
    <3>3. Has(toS, MsgKinds \ (Answers \cup {"CSI", "DIS", "CIG", "DTC"}))
      BY <1>2, <3>1, <3>2, HeadIn
    <3>. QED BY <1>1, <3>3 DEF RolesInv
  <2>. QED BY <1>1, <2>1, <2>2, ByRole, RoleFacts
<1>4. rst' = "ST_DONE" /\ sst' = sst /\ rres' = "OK" /\ sres' = sres
  BY <1>1, <1>3, Moves DEF HearDcn
<1>5. UNCHANGED <<senderVars, receiverVars>>
  BY <1>3 DEF HearDcn
<1>6. toR' = Tail(toR) /\ toS' = toS
  BY <1>1, <1>3, Exchanges DEF HearDcn
<1>7. toR # <<>> /\ Head(toR).m \in {"DCN"}
  BY <1>1, <1>3, ByRole, LineTyped DEF HearDcn
<1>8. toS' = toS /\ AddsR(toR', toR, "none")
  BY <1>2, <1>6, <1>7, TakenHead
<1>9. sres = "OK" /\ sst = "ST_DONE"
  <2>1. "DCN" \in {"DCN"} /\ Head(toR).m = "DCN"
    BY <1>7
  <2>2. Has(toR, {"DCN"})
    BY <1>2, <1>7, <2>1, HeadIn
  <2>. QED BY <1>1, <1>2, <2>2 DEF DcnInv
<1>10. RolesInv'
  BY <1>1, <1>2, <1>3, <1>4, <1>5, <1>7, <1>8, <1>9 DEF RolesInv, SenderSending,
     SenderWaiting, ReceiverSending, ReceiverWaiting, Opening, AddsR, AddsS, ToReceiver,
     ToSender, Answers, MsgKinds, IdFrames, Carriers, PostKinds, senderVars, receiverVars
<1>11. PagesInv'
  BY <1>1, <1>2, <1>3, <1>4, <1>5, <1>7, <1>8, <1>9, SameOrder DEF PagesInv, Opening,
     Training, Posting, AddsR, Begins, senderVars, receiverVars
<1>12. DcnInv'
  BY <1>1, <1>2, <1>3, <1>4, <1>5, <1>7, <1>8, <1>9 DEF DcnInv, AddsR
<1>. QED BY <1>10, <1>11, <1>12, <1>4, <1>9 DEF CoreInv

LEMMA IgnoreFrameStep ==
  ASSUME CallInv, NEW p \in Parties, IgnoreFrame(p), UNCHANGED fixed
  PROVE  CoreInv'
<1>1. /\ TypeOK /\ TimerInv /\ RolesInv /\ PagesInv /\ DcnInv
      /\ sst # "ST_DONE" => TurnInv /\ AnswerInv /\ RowInv
  BY DEF CallInv
<1>2. /\ sst # "ST_DONE" => sres # "OK"
      /\ rst # "ST_DONE" => rres # "OK"
      /\ cur_page \in Nat /\ cur_page < PAGES /\ PAGES \in Nat /\ Len(pages) \in Nat
      /\ fallback \in FbIndex /\ toR \in Seq(Messages) /\ toS \in Seq(Messages)
  BY <1>1, RoleFacts, Known2
<1>3. CASE p = Sender
  <2>1. sst = st[p]
    BY <1>1, <1>3, ByRole, RoleFacts
  <2>2. sst' = sst /\ rst' = rst /\ sres' = sres /\ rres' = rres
    BY <1>1, <1>3, <2>1, Moves DEF IgnoreFrame
  <2>3. UNCHANGED <<senderVars, rfallback, rx_page_bad, last_post_fcf, pages>>
    BY <1>3, <2>1 DEF IgnoreFrame
  <2>4. toS' = Tail(toS) /\ toR' = toR
    BY <1>1, <1>3, <2>1, Exchanges DEF IgnoreFrame
  <2>5. toS # <<>> /\ Head(toS).m \in MsgKinds
    BY <1>1, <1>3, ByRole, LineTyped DEF IgnoreFrame
  <2>6. toR' = toR /\ AddsS(toS', toS, "none")
    BY <1>2, <2>4, <2>5, TakenHead
  <2>7. RolesInv'
    BY <1>1, <1>2, <1>3, <2>1, <2>2, <2>3, <2>5, <2>6 DEF RolesInv, SenderSending,
       SenderWaiting, ReceiverSending, ReceiverWaiting, Opening, AddsR, AddsS, ToReceiver,
       ToSender, Answers, MsgKinds, IdFrames, Carriers, PostKinds, senderVars, receiverVars
  <2>8. PagesInv'
    BY <1>1, <1>2, <1>3, <2>1, <2>2, <2>3, <2>5, <2>6, SameOrder DEF PagesInv, Opening,
       Training, Posting, AddsR, Begins, senderVars, receiverVars
  <2>9. DcnInv'
    BY <1>1, <1>2, <1>3, <2>1, <2>2, <2>3, <2>5, <2>6 DEF DcnInv, AddsR
  <2>10. ASSUME sst' # "ST_DONE" PROVE TurnInv' /\ AnswerInv' /\ RowInv'
    <3>1. sst # "ST_DONE" /\ TurnInv /\ AnswerInv /\ RowInv
      BY <1>1, <1>2, <1>3, <2>1, <2>2, <2>3, <2>5, <2>6, <2>10 DEF Opening, Training, Posting,
         Checking, Judging, Ending
    <3>2. TurnInv'
      BY <1>1, <1>2, <1>3, <2>1, <2>2, <2>3, <2>5, <2>6, <3>1, Kinds DEF TurnInv, AnswerInv,
         RowInv, Opening, Training, Posting, Checking, Judging, Ending, AddsR, AddsS, Begins,
         Answers, senderVars, receiverVars
    <3>3. AnswerInv'
      BY <1>1, <1>2, <1>3, <2>1, <2>2, <2>3, <2>5, <2>6, <3>1, Kinds DEF TurnInv, AnswerInv,
         RowInv, Opening, Training, Posting, Checking, Judging, Ending, AddsR, AddsS, Begins,
         Answers, senderVars, receiverVars
    <3>4. RowInv'
      BY <1>1, <1>2, <1>3, <2>1, <2>2, <2>3, <2>5, <2>6, <3>1, Kinds DEF TurnInv, AnswerInv,
         RowInv, Opening, Training, Posting, Checking, Judging, Ending, AddsR, AddsS, Begins,
         Answers, senderVars, receiverVars
    <3>. QED BY <3>2, <3>3, <3>4
  <2>. QED BY <2>7, <2>8, <2>9, <2>10 DEF CoreInv
<1>4. CASE p = Receiver
  <2>1. rst = st[p]
    BY <1>1, <1>4, ByRole, RoleFacts
  <2>2. rst' = rst /\ sst' = sst /\ rres' = rres /\ sres' = sres
    BY <1>1, <1>4, <2>1, Moves DEF IgnoreFrame
  <2>3. UNCHANGED <<senderVars, rfallback, rx_page_bad, last_post_fcf, pages>>
    BY <1>4, <2>1 DEF IgnoreFrame
  <2>4. toR' = Tail(toR) /\ toS' = toS
    BY <1>1, <1>4, <2>1, Exchanges DEF IgnoreFrame
  <2>5. toR # <<>> /\ Head(toR).m \in MsgKinds
    BY <1>1, <1>4, ByRole, LineTyped DEF IgnoreFrame
  <2>6. toS' = toS /\ AddsR(toR', toR, "none")
    BY <1>2, <2>4, <2>5, TakenHead
  <2>7. RolesInv'
    BY <1>1, <1>2, <1>4, <2>1, <2>2, <2>3, <2>5, <2>6 DEF RolesInv, SenderSending,
       SenderWaiting, ReceiverSending, ReceiverWaiting, Opening, AddsR, AddsS, ToReceiver,
       ToSender, Answers, MsgKinds, IdFrames, Carriers, PostKinds, senderVars, receiverVars
  <2>8. PagesInv'
    BY <1>1, <1>2, <1>4, <2>1, <2>2, <2>3, <2>5, <2>6, SameOrder DEF PagesInv, Opening,
       Training, Posting, AddsR, Begins, senderVars, receiverVars
  <2>9. DcnInv'
    BY <1>1, <1>2, <1>4, <2>1, <2>2, <2>3, <2>5, <2>6 DEF DcnInv, AddsR
  <2>10. ASSUME sst' # "ST_DONE" PROVE TurnInv' /\ AnswerInv' /\ RowInv'
    <3>1. sst # "ST_DONE" /\ TurnInv /\ AnswerInv /\ RowInv
      BY <1>1, <1>2, <1>4, <2>1, <2>2, <2>3, <2>5, <2>6, <2>10 DEF Opening, Training, Posting,
         Checking, Judging, Ending
    <3>2. TurnInv'
      BY <1>1, <1>2, <1>4, <2>1, <2>2, <2>3, <2>5, <2>6, <3>1, Kinds DEF TurnInv, AnswerInv,
         RowInv, Opening, Training, Posting, Checking, Judging, Ending, AddsR, AddsS, Begins,
         Answers, senderVars, receiverVars
    <3>3. AnswerInv'
      BY <1>1, <1>2, <1>4, <2>1, <2>2, <2>3, <2>5, <2>6, <3>1, Kinds DEF TurnInv, AnswerInv,
         RowInv, Opening, Training, Posting, Checking, Judging, Ending, AddsR, AddsS, Begins,
         Answers, senderVars, receiverVars
    <3>4. RowInv'
      BY <1>1, <1>2, <1>4, <2>1, <2>2, <2>3, <2>5, <2>6, <3>1, Kinds DEF TurnInv, AnswerInv,
         RowInv, Opening, Training, Posting, Checking, Judging, Ending, AddsR, AddsS, Begins,
         Answers, senderVars, receiverVars
    <3>. QED BY <3>2, <3>3, <3>4
  <2>. QED BY <2>7, <2>8, <2>9, <2>10 DEF CoreInv
<1>. QED BY <1>3, <1>4, RoleFacts

LEMMA IgnoreCarrierStep ==
  ASSUME CallInv, NEW p \in Parties, IgnoreCarrier(p), UNCHANGED fixed
  PROVE  CoreInv'
<1>1. /\ TypeOK /\ TimerInv /\ RolesInv /\ PagesInv /\ DcnInv
      /\ sst # "ST_DONE" => TurnInv /\ AnswerInv /\ RowInv
  BY DEF CallInv
<1>2. /\ sst # "ST_DONE" => sres # "OK"
      /\ rst # "ST_DONE" => rres # "OK"
      /\ cur_page \in Nat /\ cur_page < PAGES /\ PAGES \in Nat /\ Len(pages) \in Nat
      /\ fallback \in FbIndex /\ toR \in Seq(Messages) /\ toS \in Seq(Messages)
  BY <1>1, RoleFacts, Known2
<1>3. CASE p = Sender
  <2>1. sst = st[p]
    BY <1>1, <1>3, ByRole, RoleFacts
  <2>2. sst' = sst /\ rst' = rst /\ sres' = sres /\ rres' = rres
    BY <1>1, <1>3, <2>1, Moves DEF IgnoreCarrier
  <2>3. UNCHANGED <<senderVars, receiverVars>>
    BY <1>3, <2>1 DEF IgnoreCarrier
  <2>4. toS' = Tail(toS) /\ toR' = toR
    BY <1>1, <1>3, <2>1, Exchanges DEF IgnoreCarrier
  <2>5. toS # <<>> /\ Head(toS).m \in Carriers
    BY <1>1, <1>3, ByRole, LineTyped DEF IgnoreCarrier
  <2>6. toR' = toR /\ AddsS(toS', toS, "none")
    BY <1>2, <2>4, <2>5, TakenHead
  <2>7. RolesInv'
    BY <1>1, <1>2, <1>3, <2>1, <2>2, <2>3, <2>5, <2>6 DEF RolesInv, SenderSending,
       SenderWaiting, ReceiverSending, ReceiverWaiting, Opening, AddsR, AddsS, ToReceiver,
       ToSender, Answers, MsgKinds, IdFrames, Carriers, PostKinds, senderVars, receiverVars
  <2>8. PagesInv'
    BY <1>1, <1>2, <1>3, <2>1, <2>2, <2>3, <2>5, <2>6, SameOrder DEF PagesInv, Opening,
       Training, Posting, AddsR, Begins, senderVars, receiverVars
  <2>9. DcnInv'
    BY <1>1, <1>2, <1>3, <2>1, <2>2, <2>3, <2>5, <2>6 DEF DcnInv, AddsR
  <2>10. ASSUME sst' # "ST_DONE" PROVE TurnInv' /\ AnswerInv' /\ RowInv'
    <3>1. sst # "ST_DONE" /\ TurnInv /\ AnswerInv /\ RowInv
      BY <1>1, <1>2, <1>3, <2>1, <2>2, <2>3, <2>5, <2>6, <2>10 DEF Opening, Training, Posting,
         Checking, Judging, Ending
    <3>2. TurnInv'
      BY <1>1, <1>2, <1>3, <2>1, <2>2, <2>3, <2>5, <2>6, <3>1, Kinds DEF TurnInv, AnswerInv,
         RowInv, Opening, Training, Posting, Checking, Judging, Ending, AddsR, AddsS, Begins,
         Answers, senderVars, receiverVars
    <3>3. AnswerInv'
      BY <1>1, <1>2, <1>3, <2>1, <2>2, <2>3, <2>5, <2>6, <3>1, Kinds DEF TurnInv, AnswerInv,
         RowInv, Opening, Training, Posting, Checking, Judging, Ending, AddsR, AddsS, Begins,
         Answers, senderVars, receiverVars
    <3>4. RowInv'
      BY <1>1, <1>2, <1>3, <2>1, <2>2, <2>3, <2>5, <2>6, <3>1, Kinds DEF TurnInv, AnswerInv,
         RowInv, Opening, Training, Posting, Checking, Judging, Ending, AddsR, AddsS, Begins,
         Answers, senderVars, receiverVars
    <3>. QED BY <3>2, <3>3, <3>4
  <2>. QED BY <2>7, <2>8, <2>9, <2>10 DEF CoreInv
<1>4. CASE p = Receiver
  <2>1. rst = st[p]
    BY <1>1, <1>4, ByRole, RoleFacts
  <2>2. rst' = rst /\ sst' = sst /\ rres' = rres /\ sres' = sres
    BY <1>1, <1>4, <2>1, Moves DEF IgnoreCarrier
  <2>3. UNCHANGED <<senderVars, receiverVars>>
    BY <1>4, <2>1 DEF IgnoreCarrier
  <2>4. toR' = Tail(toR) /\ toS' = toS
    BY <1>1, <1>4, <2>1, Exchanges DEF IgnoreCarrier
  <2>5. toR # <<>> /\ Head(toR).m \in Carriers
    BY <1>1, <1>4, ByRole, LineTyped DEF IgnoreCarrier
  <2>6. toS' = toS /\ AddsR(toR', toR, "none")
    BY <1>2, <2>4, <2>5, TakenHead
  <2>7. RolesInv'
    BY <1>1, <1>2, <1>4, <2>1, <2>2, <2>3, <2>5, <2>6 DEF RolesInv, SenderSending,
       SenderWaiting, ReceiverSending, ReceiverWaiting, Opening, AddsR, AddsS, ToReceiver,
       ToSender, Answers, MsgKinds, IdFrames, Carriers, PostKinds, senderVars, receiverVars
  <2>8. PagesInv'
    BY <1>1, <1>2, <1>4, <2>1, <2>2, <2>3, <2>5, <2>6, SameOrder DEF PagesInv, Opening,
       Training, Posting, AddsR, Begins, senderVars, receiverVars
  <2>9. DcnInv'
    BY <1>1, <1>2, <1>4, <2>1, <2>2, <2>3, <2>5, <2>6 DEF DcnInv, AddsR
  <2>10. ASSUME sst' # "ST_DONE" PROVE TurnInv' /\ AnswerInv' /\ RowInv'
    <3>1. sst # "ST_DONE" /\ TurnInv /\ AnswerInv /\ RowInv
      BY <1>1, <1>2, <1>4, <2>1, <2>2, <2>3, <2>5, <2>6, <2>10 DEF Opening, Training, Posting,
         Checking, Judging, Ending
    <3>2. TurnInv'
      BY <1>1, <1>2, <1>4, <2>1, <2>2, <2>3, <2>5, <2>6, <3>1, Kinds DEF TurnInv, AnswerInv,
         RowInv, Opening, Training, Posting, Checking, Judging, Ending, AddsR, AddsS, Begins,
         Answers, senderVars, receiverVars
    <3>3. AnswerInv'
      BY <1>1, <1>2, <1>4, <2>1, <2>2, <2>3, <2>5, <2>6, <3>1, Kinds DEF TurnInv, AnswerInv,
         RowInv, Opening, Training, Posting, Checking, Judging, Ending, AddsR, AddsS, Begins,
         Answers, senderVars, receiverVars
    <3>4. RowInv'
      BY <1>1, <1>2, <1>4, <2>1, <2>2, <2>3, <2>5, <2>6, <3>1, Kinds DEF TurnInv, AnswerInv,
         RowInv, Opening, Training, Posting, Checking, Judging, Ending, AddsR, AddsS, Begins,
         Answers, senderVars, receiverVars
    <3>. QED BY <3>2, <3>3, <3>4
  <2>. QED BY <2>7, <2>8, <2>9, <2>10 DEF CoreInv
<1>. QED BY <1>3, <1>4, RoleFacts

LEMMA ExpireTcfStep ==
  ASSUME CallInv, NEW p \in Parties, ExpireTcf(p), UNCHANGED fixed
  PROVE  CoreInv'
<1>1. /\ TypeOK /\ TimerInv /\ RolesInv /\ PagesInv /\ DcnInv
      /\ sst # "ST_DONE" => TurnInv /\ AnswerInv /\ RowInv
  BY DEF CallInv
<1>2. /\ sst # "ST_DONE" => sres # "OK"
      /\ rst # "ST_DONE" => rres # "OK"
      /\ cur_page \in Nat /\ cur_page < PAGES /\ PAGES \in Nat /\ Len(pages) \in Nat
      /\ fallback \in FbIndex /\ toR \in Seq(Messages) /\ toS \in Seq(Messages)
  BY <1>1, RoleFacts, Known2
<1>3. p = Receiver /\ rst = "A_RECV_TCF"
  BY <1>1, ByRole, RoleFacts DEF ExpireTcf, ReceiverWaiting
<1>4. rst' = "A_SEND_FTT" /\ sst' = sst /\ rres' = rres /\ sres' = sres
  BY <1>1, <1>3, Moves DEF ExpireTcf
<1>5. UNCHANGED <<senderVars, rfallback, rx_page_bad, last_post_fcf, pages>>
  BY <1>3 DEF ExpireTcf
<1>6. toR' = toR /\ toS' = toS
  BY <1>1, <1>3, Exchanges DEF ExpireTcf
<1>7. RolesInv'
  BY <1>1, <1>2, <1>3, <1>4, <1>5, <1>6 DEF RolesInv, SenderSending, SenderWaiting,
     ReceiverSending, ReceiverWaiting, Opening, AddsR, AddsS, ToReceiver, ToSender, Answers,
     MsgKinds, IdFrames, Carriers, PostKinds, senderVars, receiverVars
<1>8. PagesInv'
  BY <1>1, <1>2, <1>3, <1>4, <1>5, <1>6, SameOrder DEF PagesInv, Opening, Training, Posting,
     AddsR, Begins, senderVars, receiverVars
<1>9. DcnInv'
  BY <1>1, <1>2, <1>3, <1>4, <1>5, <1>6 DEF DcnInv, AddsR
<1>10. ASSUME sst' # "ST_DONE" PROVE TurnInv' /\ AnswerInv' /\ RowInv'
  <2>1. sst # "ST_DONE" /\ TurnInv /\ AnswerInv /\ RowInv
    BY <1>1, <1>2, <1>3, <1>4, <1>5, <1>6, <1>10 DEF Opening, Training, Posting, Checking,
       Judging, Ending
  <2>2. TurnInv'
    BY <1>1, <1>2, <1>3, <1>4, <1>5, <1>6, <2>1, Kinds DEF TurnInv, AnswerInv, RowInv,
       Opening, Training, Posting, Checking, Judging, Ending, AddsR, AddsS, Begins, Answers,
       senderVars, receiverVars
  <2>3. AnswerInv'
    BY <1>1, <1>2, <1>3, <1>4, <1>5, <1>6, <2>1, Kinds DEF TurnInv, AnswerInv, RowInv,
       Opening, Training, Posting, Checking, Judging, Ending, AddsR, AddsS, Begins, Answers,
       senderVars, receiverVars
  <2>4. RowInv'
    BY <1>1, <1>2, <1>3, <1>4, <1>5, <1>6, <2>1, Kinds DEF TurnInv, AnswerInv, RowInv,
       Opening, Training, Posting, Checking, Judging, Ending, AddsR, AddsS, Begins, Answers,
       senderVars, receiverVars
  <2>. QED BY <2>2, <2>3, <2>4
<1>. QED BY <1>7, <1>8, <1>9, <1>10 DEF CoreInv

LEMMA ExpirePostStep ==
  ASSUME CallInv, NEW p \in Parties, ExpirePost(p), UNCHANGED fixed
  PROVE  CoreInv'
<1>1. /\ TypeOK /\ TimerInv /\ RolesInv /\ PagesInv /\ DcnInv
      /\ sst # "ST_DONE" => TurnInv /\ AnswerInv /\ RowInv
  BY DEF CallInv
<1>2. /\ sst # "ST_DONE" => sres # "OK"
      /\ rst # "ST_DONE" => rres # "OK"
      /\ cur_page \in Nat /\ cur_page < PAGES /\ PAGES \in Nat /\ Len(pages) \in Nat
      /\ fallback \in FbIndex /\ toR \in Seq(Messages) /\ toS \in Seq(Messages)
  BY <1>1, RoleFacts, Known2
<1>3. p = Sender /\ sst = "C_WAIT_MCF"
  BY <1>1, ByRole, RoleFacts DEF ExpirePost, SenderWaiting
<1>4. sst' = "C_SEND_POST" /\ rst' = rst /\ sres' = sres /\ rres' = rres
  BY <1>1, <1>3, Moves DEF ExpirePost
<1>5. UNCHANGED <<fallback, cur_page, rtn_count, pages_tx, receiverVars>>
  BY <1>3 DEF ExpirePost
<1>6. toR' = toR /\ toS' = toS
  BY <1>1, <1>3, Exchanges DEF ExpirePost
<1>7. RolesInv'
  BY <1>1, <1>2, <1>3, <1>4, <1>5, <1>6 DEF RolesInv, SenderSending, SenderWaiting,
     ReceiverSending, ReceiverWaiting, Opening, AddsR, AddsS, ToReceiver, ToSender, Answers,
     MsgKinds, IdFrames, Carriers, PostKinds, senderVars, receiverVars
<1>8. PagesInv'
  BY <1>1, <1>2, <1>3, <1>4, <1>5, <1>6, SameOrder DEF PagesInv, Opening, Training, Posting,
     AddsR, Begins, senderVars, receiverVars
<1>9. DcnInv'
  BY <1>1, <1>2, <1>3, <1>4, <1>5, <1>6 DEF DcnInv, AddsR
<1>10. ASSUME sst' # "ST_DONE" PROVE TurnInv' /\ AnswerInv' /\ RowInv'
  <2>1. sst # "ST_DONE" /\ TurnInv /\ AnswerInv /\ RowInv
    BY <1>1, <1>2, <1>3, <1>4, <1>5, <1>6, <1>10 DEF Opening, Training, Posting, Checking,
       Judging, Ending
  <2>2. TurnInv'
    BY <1>1, <1>2, <1>3, <1>4, <1>5, <1>6, <2>1, Kinds DEF TurnInv, AnswerInv, RowInv,
       Opening, Training, Posting, Checking, Judging, Ending, AddsR, AddsS, Begins, Answers,
       senderVars, receiverVars
  <2>3. AnswerInv'
    BY <1>1, <1>2, <1>3, <1>4, <1>5, <1>6, <2>1, Kinds DEF TurnInv, AnswerInv, RowInv,
       Opening, Training, Posting, Checking, Judging, Ending, AddsR, AddsS, Begins, Answers,
       senderVars, receiverVars
  <2>4. RowInv'
    BY <1>1, <1>2, <1>3, <1>4, <1>5, <1>6, <2>1, Kinds DEF TurnInv, AnswerInv, RowInv,
       Opening, Training, Posting, Checking, Judging, Ending, AddsR, AddsS, Begins, Answers,
       senderVars, receiverVars
  <2>. QED BY <2>2, <2>3, <2>4
<1>. QED BY <1>7, <1>8, <1>9, <1>10 DEF CoreInv

LEMMA ExpireDisStep ==
  ASSUME CallInv, NEW p \in Parties, ExpireDis(p), UNCHANGED fixed
  PROVE  CoreInv'
<1>1. /\ TypeOK /\ TimerInv /\ RolesInv /\ PagesInv /\ DcnInv
      /\ sst # "ST_DONE" => TurnInv /\ AnswerInv /\ RowInv
  BY DEF CallInv
<1>2. /\ sst # "ST_DONE" => sres # "OK"
      /\ rst # "ST_DONE" => rres # "OK"
      /\ cur_page \in Nat /\ cur_page < PAGES /\ PAGES \in Nat /\ Len(pages) \in Nat
      /\ fallback \in FbIndex /\ toR \in Seq(Messages) /\ toS \in Seq(Messages)
  BY <1>1, RoleFacts, Known2
<1>3. CASE p = Sender
  <2>1. sst = "A_WAIT_DCS"
    BY <1>1, <1>3, ByRole, RoleFacts DEF ExpireDis, MayRepeatDis
  <2>2. sst' = "A_SEND_DIS" /\ rst' = rst /\ sres' = sres /\ rres' = rres
    BY <1>1, <1>3, <2>1, Moves DEF ExpireDis
  <2>3. UNCHANGED <<senderVars, receiverVars>>
    BY <1>3, <2>1 DEF ExpireDis
  <2>4. toR' = toR /\ toS' = toS
    BY <1>1, <1>3, <2>1, Exchanges DEF ExpireDis
  <2>5. RolesInv'
    BY <1>1, <1>2, <1>3, <2>1, <2>2, <2>3, <2>4 DEF RolesInv, SenderSending, SenderWaiting,
       ReceiverSending, ReceiverWaiting, Opening, AddsR, AddsS, ToReceiver, ToSender, Answers,
       MsgKinds, IdFrames, Carriers, PostKinds, senderVars, receiverVars
  <2>6. PagesInv'
    BY <1>1, <1>2, <1>3, <2>1, <2>2, <2>3, <2>4, SameOrder DEF PagesInv, Opening, Training,
       Posting, AddsR, Begins, senderVars, receiverVars
  <2>7. DcnInv'
    BY <1>1, <1>2, <1>3, <2>1, <2>2, <2>3, <2>4 DEF DcnInv, AddsR
  <2>8. ASSUME sst' # "ST_DONE" PROVE TurnInv' /\ AnswerInv' /\ RowInv'
    <3>1. sst # "ST_DONE" /\ TurnInv /\ AnswerInv /\ RowInv
      BY <1>1, <1>2, <1>3, <2>1, <2>2, <2>3, <2>4, <2>8 DEF Opening, Training, Posting,
         Checking, Judging, Ending
    <3>2. TurnInv'
      BY <1>1, <1>2, <1>3, <2>1, <2>2, <2>3, <2>4, <3>1, Kinds DEF TurnInv, AnswerInv, RowInv,
         Opening, Training, Posting, Checking, Judging, Ending, AddsR, AddsS, Begins, Answers,
         senderVars, receiverVars
    <3>3. AnswerInv'
      BY <1>1, <1>2, <1>3, <2>1, <2>2, <2>3, <2>4, <3>1, Kinds DEF TurnInv, AnswerInv, RowInv,
         Opening, Training, Posting, Checking, Judging, Ending, AddsR, AddsS, Begins, Answers,
         senderVars, receiverVars
    <3>4. RowInv'
      BY <1>1, <1>2, <1>3, <2>1, <2>2, <2>3, <2>4, <3>1, Kinds DEF TurnInv, AnswerInv, RowInv,
         Opening, Training, Posting, Checking, Judging, Ending, AddsR, AddsS, Begins, Answers,
         senderVars, receiverVars
    <3>. QED BY <3>2, <3>3, <3>4
  <2>. QED BY <2>5, <2>6, <2>7, <2>8 DEF CoreInv
<1>4. CASE p = Receiver
  <2>1. rst = "A_WAIT_DCS"
    BY <1>1, <1>4, ByRole, RoleFacts DEF ExpireDis, MayRepeatDis
  <2>2. rst' = "A_SEND_DIS" /\ sst' = sst /\ rres' = rres /\ sres' = sres
    BY <1>1, <1>4, <2>1, Moves DEF ExpireDis
  <2>3. UNCHANGED <<senderVars, receiverVars>>
    BY <1>4, <2>1 DEF ExpireDis
  <2>4. toR' = toR /\ toS' = toS
    BY <1>1, <1>4, <2>1, Exchanges DEF ExpireDis
  <2>5. RolesInv'
    BY <1>1, <1>2, <1>4, <2>1, <2>2, <2>3, <2>4 DEF RolesInv, SenderSending, SenderWaiting,
       ReceiverSending, ReceiverWaiting, Opening, AddsR, AddsS, ToReceiver, ToSender, Answers,
       MsgKinds, IdFrames, Carriers, PostKinds, senderVars, receiverVars
  <2>6. PagesInv'
    BY <1>1, <1>2, <1>4, <2>1, <2>2, <2>3, <2>4, SameOrder DEF PagesInv, Opening, Training,
       Posting, AddsR, Begins, senderVars, receiverVars
  <2>7. DcnInv'
    BY <1>1, <1>2, <1>4, <2>1, <2>2, <2>3, <2>4 DEF DcnInv, AddsR
  <2>8. ASSUME sst' # "ST_DONE" PROVE TurnInv' /\ AnswerInv' /\ RowInv'
    <3>1. sst # "ST_DONE" /\ TurnInv /\ AnswerInv /\ RowInv
      BY <1>1, <1>2, <1>4, <2>1, <2>2, <2>3, <2>4, <2>8 DEF Opening, Training, Posting,
         Checking, Judging, Ending
    <3>2. TurnInv'
      BY <1>1, <1>2, <1>4, <2>1, <2>2, <2>3, <2>4, <3>1, Kinds DEF TurnInv, AnswerInv, RowInv,
         Opening, Training, Posting, Checking, Judging, Ending, AddsR, AddsS, Begins, Answers,
         senderVars, receiverVars
    <3>3. AnswerInv'
      BY <1>1, <1>2, <1>4, <2>1, <2>2, <2>3, <2>4, <3>1, Kinds DEF TurnInv, AnswerInv, RowInv,
         Opening, Training, Posting, Checking, Judging, Ending, AddsR, AddsS, Begins, Answers,
         senderVars, receiverVars
    <3>4. RowInv'
      BY <1>1, <1>2, <1>4, <2>1, <2>2, <2>3, <2>4, <3>1, Kinds DEF TurnInv, AnswerInv, RowInv,
         Opening, Training, Posting, Checking, Judging, Ending, AddsR, AddsS, Begins, Answers,
         senderVars, receiverVars
    <3>. QED BY <3>2, <3>3, <3>4
  <2>. QED BY <2>5, <2>6, <2>7, <2>8 DEF CoreInv
<1>. QED BY <1>3, <1>4, RoleFacts

LEMMA ExpireFinishStep ==
  ASSUME CallInv, NEW p \in Parties, ExpireFinish(p), UNCHANGED fixed
  PROVE  CoreInv'
<1>1. /\ TypeOK /\ TimerInv /\ RolesInv /\ PagesInv /\ DcnInv
      /\ sst # "ST_DONE" => TurnInv /\ AnswerInv /\ RowInv
  BY DEF CallInv
<1>2. /\ sst # "ST_DONE" => sres # "OK"
      /\ rst # "ST_DONE" => rres # "OK"
      /\ cur_page \in Nat /\ cur_page < PAGES /\ PAGES \in Nat /\ Len(pages) \in Nat
      /\ fallback \in FbIndex /\ toR \in Seq(Messages) /\ toS \in Seq(Messages)
  BY <1>1, RoleFacts, Known2
<1>3. CASE p = Sender
  <2>1. sst \notin {"C_SEND_DCN", "ST_DONE"}
    <3>1. timer[p] > 0
      BY DEF ExpireFinish, MayExpire
    <3>2. st[p] \notin Sending \cup {"ST_DONE"}
      BY <1>1, <3>1, SMT DEF TimerInv
    <3>. QED BY <1>1, <1>3, <3>2, ByRole DEF Sending, SenderSending
  <2>2. sst' = "ST_DONE" /\ rst' = rst /\ sres' = "TIMEOUT" /\ rres' = rres
    BY <1>1, <1>3, <2>1, Moves DEF ExpireFinish
  <2>3. UNCHANGED <<senderVars, receiverVars>>
    BY <1>3, <2>1 DEF ExpireFinish
  <2>4. toR' = toR /\ toS' = toS
    BY <1>1, <1>3, <2>1, Exchanges DEF ExpireFinish
  <2>5. RolesInv'
    BY <1>1, <1>2, <1>3, <2>1, <2>2, <2>3, <2>4 DEF RolesInv, SenderSending, SenderWaiting,
       ReceiverSending, ReceiverWaiting, Opening, AddsR, AddsS, ToReceiver, ToSender, Answers,
       MsgKinds, IdFrames, Carriers, PostKinds, senderVars, receiverVars
  <2>6. PagesInv'
    BY <1>1, <1>2, <1>3, <2>1, <2>2, <2>3, <2>4, SameOrder DEF PagesInv, Opening, Training,
       Posting, AddsR, Begins, senderVars, receiverVars
  <2>7. DcnInv'
    BY <1>1, <1>2, <1>3, <2>1, <2>2, <2>3, <2>4 DEF DcnInv, AddsR
  <2>. QED BY <2>5, <2>6, <2>7, <2>2 DEF CoreInv
<1>4. CASE p = Receiver
  <2>1. rst \notin {"C_SEND_DCN", "ST_DONE"}
    <3>1. timer[p] > 0
      BY DEF ExpireFinish, MayExpire
    <3>2. st[p] \notin Sending \cup {"ST_DONE"}
      BY <1>1, <3>1, SMT DEF TimerInv
    <3>. QED BY <1>1, <1>4, <3>2, ByRole DEF Sending, SenderSending
  <2>2. rst' = "ST_DONE" /\ sst' = sst /\ rres' = "TIMEOUT" /\ sres' = sres
    BY <1>1, <1>4, <2>1, Moves DEF ExpireFinish
  <2>3. UNCHANGED <<senderVars, receiverVars>>
    BY <1>4, <2>1 DEF ExpireFinish
  <2>4. toR' = toR /\ toS' = toS
    BY <1>1, <1>4, <2>1, Exchanges DEF ExpireFinish
  <2>5. RolesInv'
    BY <1>1, <1>2, <1>4, <2>1, <2>2, <2>3, <2>4 DEF RolesInv, SenderSending, SenderWaiting,
       ReceiverSending, ReceiverWaiting, Opening, AddsR, AddsS, ToReceiver, ToSender, Answers,
       MsgKinds, IdFrames, Carriers, PostKinds, senderVars, receiverVars
  <2>6. PagesInv'
    BY <1>1, <1>2, <1>4, <2>1, <2>2, <2>3, <2>4, SameOrder DEF PagesInv, Opening, Training,
       Posting, AddsR, Begins, senderVars, receiverVars
  <2>7. DcnInv'
    BY <1>1, <1>2, <1>4, <2>1, <2>2, <2>3, <2>4 DEF DcnInv, AddsR
  <2>8. ASSUME sst' # "ST_DONE" PROVE TurnInv' /\ AnswerInv' /\ RowInv'
    <3>1. sst # "ST_DONE" /\ TurnInv /\ AnswerInv /\ RowInv
      BY <1>1, <1>2, <1>4, <2>1, <2>2, <2>3, <2>4, <2>8 DEF Opening, Training, Posting,
         Checking, Judging, Ending
    <3>2. TurnInv'
      BY <1>1, <1>2, <1>4, <2>1, <2>2, <2>3, <2>4, <3>1, Kinds DEF TurnInv, AnswerInv, RowInv,
         Opening, Training, Posting, Checking, Judging, Ending, AddsR, AddsS, Begins, Answers,
         senderVars, receiverVars
    <3>3. AnswerInv'
      BY <1>1, <1>2, <1>4, <2>1, <2>2, <2>3, <2>4, <3>1, Kinds DEF TurnInv, AnswerInv, RowInv,
         Opening, Training, Posting, Checking, Judging, Ending, AddsR, AddsS, Begins, Answers,
         senderVars, receiverVars
    <3>4. RowInv'
      BY <1>1, <1>2, <1>4, <2>1, <2>2, <2>3, <2>4, <3>1, Kinds DEF TurnInv, AnswerInv, RowInv,
         Opening, Training, Posting, Checking, Judging, Ending, AddsR, AddsS, Begins, Answers,
         senderVars, receiverVars
    <3>. QED BY <3>2, <3>3, <3>4
  <2>. QED BY <2>5, <2>6, <2>7, <2>8 DEF CoreInv
<1>. QED BY <1>3, <1>4, RoleFacts

-----------------------------------------------------------------------------
LEMMA CoreStep ==
  ASSUME CallInv, NEW p \in Parties, StepComplete(p) \/ Hear(p) \/ Expire(p)
  PROVE  CoreInv'
<1>1. UNCHANGED fixed
  BY DEF StepComplete, Hear, Expire
<1>2. CASE StepComplete(p)
  BY <1>1, <1>2, SendDcsStep, PauseAfterDcsStep, SendTcfStep, SendImageStep, SendPostStep,
     SendDcnStep, SendCfrStep, SendFttOrRtnStep, SendMcfNextStep, SendMcfLastStep,
     SendCedStep, SendDisStep, SendDtcStep DEF StepComplete
<1>3. CASE Hear(p)
  BY <1>1, <1>3, HearCapsStep, HearCapsAbortStep, HearDisPollStep, HearDisNoDocStep,
     HearCfrStep, HearFttStep, HearFttGiveUpStep, HearMcfNextStep, HearMcfLastStep,
     HearRtnStep, HearRtnGiveUpStep, HearDcsStep, HearTcfStep, HearPageStep, HearPostStep,
     HearPostAgainStep, HearDcnStep, IgnoreFrameStep, IgnoreCarrierStep DEF Hear
<1>4. CASE Expire(p)
  BY <1>1, <1>4, ExpireTcfStep, ExpirePostStep, ExpireDisStep, ExpireFinishStep DEF Expire
<1>. QED BY <1>2, <1>3, <1>4

LEMMA CallInit ==
  ASSUME Init
  PROVE  CallInv
<1>1. TypeOK
  <2>1. setup \in CallSetups /\ lossy \in SUBSET MsgKinds /\ racing \in BOOLEAN
    BY CallAssumption DEF Init
  <2>2. st \in [Parties -> Substates] /\ result \in [Parties -> CallResults]
    BY Known DEF Init, CallResults
  <2>3. timer \in [Parties -> {0, 3000, 6000, 7000, 35000}]
    BY DEF Init
  <2>4. to \in [Parties -> Seq(Messages)]
    BY EmptySeq DEF Init
  <2>5. pages \in Seq(0..(PAGES - 1))
    BY EmptySeq DEF Init
  <2>6. /\ fallback \in FbIndex /\ rfallback \in FbIndex /\ cur_page \in 0..(PAGES - 1)
        /\ rtn_count \in 0..(RTN_LIMIT + 1) /\ post_retries \in 0..POST_RETRIES
        /\ dis_retries \in 0..DIS_RETRIES
    BY CallAssumption, SMT DEF Init, FbIndex
  <2>7. pages_tx \in {0, PAGES} /\ last_post_fcf \in PostKinds
    BY SMT DEF Init, PostKinds
  <2>8. fast \in BOOLEAN /\ rx_page_bad \in BOOLEAN
    <3>1. fast = FALSE /\ rx_page_bad = FALSE
      BY DEF Init
    <3>. QED BY <3>1
  <2>. QED BY <2>1, <2>2, <2>3, <2>4, <2>5, <2>6, <2>7, <2>8 DEF TypeOK
<1>2. /\ \A p \in Parties : st[p] \in {"C_WAIT_DIS", "A_SEND_CED"} /\ result[p] = "NONE"
      /\ \A p \in Parties : st[p] = "A_SEND_CED" => timer[p] = 0
      /\ \A p \in Parties : to[p] = <<>>
  BY DEF Init
<1>3. /\ sst \in {"C_WAIT_DIS", "A_SEND_CED"} /\ rst \in {"C_WAIT_DIS", "A_SEND_CED"}
      /\ sres = "NONE" /\ rres = "NONE" /\ toS = <<>> /\ toR = <<>>
  BY <1>2, RoleFacts DEF sst, rst, sres, rres, toS, toR
<1>4. /\ \A kinds : ~Has(toS, kinds) /\ ~Has(toR, kinds)
      /\ \A kinds : One(toS, kinds) /\ One(toR, kinds)
      /\ PagesAre(toR, cur_page) /\ DcsAre(toR, fallback) /\ RowsUpTo(toR, fallback)
      /\ RowsBelow(toR, fallback) /\ OneAtRow(toR, fallback)
  BY <1>3 DEF Has, One, PagesAre, DcsAre, RowsUpTo, RowsBelow, OneAtRow
<1>5. TimerInv
  BY <1>2 DEF TimerInv, Sending, SenderSending, ReceiverSending
<1>6. RolesInv
  BY <1>3, <1>4, CallAssumption DEF RolesInv, Opening, Init
<1>7. PagesInv
  <2>1. pages = <<>> /\ Len(pages) = 0 /\ cur_page = 0 /\ pages_tx = 0
    BY DEF Init
  <2>2. pages = [i \in 1..Len(pages) |-> i - 1]
    BY <2>1
  <2>. QED BY <1>3, <1>4, <2>1, <2>2 DEF PagesInv, InOrder
<1>8. DcnInv
  BY <1>3, <1>4 DEF DcnInv
<1>9. TurnInv
  BY <1>3, <1>4 DEF TurnInv, Checking, Judging, Ending
<1>10. AnswerInv
  BY <1>3, <1>4 DEF AnswerInv, Opening, Training, Posting, Checking, Judging, Ending
<1>11. RowInv
  BY <1>3, <1>4 DEF RowInv, Training, Checking, Judging
<1>. QED BY <1>1, <1>5, <1>6, <1>7, <1>8, <1>9, <1>10, <1>11 DEF CallInv

LEMMA CallStutter ==
  ASSUME CallInv, UNCHANGED vars
  PROVE  CallInv'
<1>1. Sender' = Sender /\ Receiver' = Receiver
  BY SameRoles DEF vars
<1>2. /\ sst' = sst /\ rst' = rst /\ sres' = sres /\ rres' = rres /\ toR' = toR /\ toS' = toS
      /\ UNCHANGED <<fixed, engineVars, senderVars, dis_retries, receiverVars, to>>
  BY <1>1 DEF vars, engineVars, sst, rst, sres, rres, toR, toS
<1>3. TypeOK'
  BY <1>2 DEF CallInv, TypeOK, fixed, engineVars, senderVars, receiverVars
<1>4. TimerInv' /\ DcnInv' /\ RolesInv' /\ PagesInv'
  BY <1>2 DEF CallInv, TimerInv, DcnInv, RolesInv, PagesInv, InOrder, engineVars,
     senderVars, receiverVars
<1>5. (sst # "ST_DONE" => TurnInv /\ AnswerInv /\ RowInv)'
  BY <1>2 DEF CallInv, TurnInv, AnswerInv, RowInv, senderVars, receiverVars
<1>. QED BY <1>3, <1>4, <1>5 DEF CallInv

(* The turn to act on a training check or on a page is in one place only,   *)
(* whatever the line loses, however late or early a timer runs out, and for *)
(* every document, modem mask and retry limit.                              *)
THEOREM CallInvariant == Spec => []CallInv
<1>1. Init => CallInv
  BY CallInit
<1>2. CallInv /\ [Next]_vars => CallInv'
  <2>1. ASSUME CallInv, NEW p \in Parties, StepComplete(p) \/ Hear(p) \/ Expire(p)
        PROVE  CallInv'
    <3>1. TypeOK'
      BY <2>1, TypeStep DEF CallInv
    <3>2. TimerInv'
      BY <2>1, TimerStep DEF CallInv
    <3>3. CoreInv'
      BY <2>1, CoreStep
    <3>. QED BY <3>1, <3>2, <3>3 DEF CallInv, CoreInv
  <2>. QED BY <2>1, CallStutter DEF Next
<1>. QED BY <1>1, <1>2, PTL DEF Spec

(* Every variable keeps its type; DIS, the post-message and a rejected page *)
(* are not sent more often than the code's limits.                          *)
THEOREM CallTypeCorrect == Spec => []TypeOK
<1>1. CallInv => TypeOK
  BY DEF CallInv
<1>. QED BY CallInvariant, <1>1, PTL

(* The receiver reports success only if the sender does, and the sender     *)
(* only when the receiver's file holds the whole document in order.         *)
THEOREM SuccessAgreedCorrect == Spec => []SuccessAgreed
<1>1. CallInv => SuccessAgreed
  BY DEF CallInv, DcnInv, PagesInv, InOrder, SuccessAgreed, sres, rres
<1>. QED BY CallInvariant, <1>1, PTL

LEMMA OtherSteps ==
  ASSUME NEW p \in Parties, StepComplete(p) \/ Hear(p) \/ Expire(p),
         ~HearMcfNext(p), ~HearMcfLast(p), ~HearPage(p)
  PROVE  UNCHANGED <<cur_page, pages_tx, pages>>
<1>1. CASE StepComplete(p)
  BY <1>1 DEF StepComplete, SendDcs, PauseAfterDcs, SendTcf, SendImage, SendPost, SendDcn,
     SendCfr, SendFttOrRtn, SendMcfNext, SendMcfLast, SendCed, SendDis, SendDtc, senderVars,
     receiverVars
<1>2. CASE Hear(p)
  BY <1>2 DEF Hear, HearCaps, HearCapsAbort, HearDisPoll, HearDisNoDoc, HearCfr, HearFtt,
     HearFttGiveUp, HearRtn, HearRtnGiveUp, HearDcs, HearTcf, HearPost, HearPostAgain,
     HearDcn, IgnoreFrame, IgnoreCarrier, senderVars, receiverVars
<1>3. CASE Expire(p)
  BY <1>3 DEF Expire, ExpireTcf, ExpirePost, ExpireDis, ExpireFinish, senderVars, receiverVars
<1>. QED BY <1>1, <1>2, <1>3

(* Every step is a step of the abstract page transfer, or none.             *)
LEMMA TransferStep ==
  ASSUME CallInv, NEW p \in Parties, StepComplete(p) \/ Hear(p) \/ Expire(p)
  PROVE  [Transfer!PTNext]_Transfer!ptvars
<1>1. /\ TypeOK /\ TimerInv /\ RolesInv /\ PagesInv /\ DcnInv
      /\ sst # "ST_DONE" => TurnInv /\ AnswerInv /\ RowInv
  BY DEF CallInv
<1>2. /\ UNCHANGED fixed
      /\ cur_page \in Nat /\ cur_page < PAGES /\ PAGES \in Nat /\ Len(pages) \in Nat
      /\ toR \in Seq(Messages) /\ toS \in Seq(Messages)
  BY <1>1, Known2 DEF StepComplete, Hear, Expire
<1>. DEFINE Doc == [k \in 1..PAGES |-> k - 1]
<1>3. Len(Doc) = PAGES /\ \A k \in 1..PAGES : Doc[k] = k - 1
  BY <1>2
<1>4. CASE HearPage(p)
  <2>1. p = Receiver /\ UNCHANGED <<cur_page, pages_tx>>
    BY <1>1, <1>4, ByRole DEF HearPage, ReceiverWaiting, senderVars
  <2>2. toR # <<>> /\ \/ pages' = pages
                      \/ Head(toR).m = "PAGE" /\ pages' = Append(pages, Head(toR).page)
    BY <1>1, <1>4, <2>1, ByRole DEF HearPage, HearsCarrier, Hears, finish_rx_page
  <2>3. CASE pages' = pages
    BY <2>1, <2>3 DEF Transfer!ptvars, confirmed
  <2>4. CASE Head(toR).m = "PAGE" /\ pages' = Append(pages, Head(toR).page)
    <3>1. "PAGE" \in {"PAGE"}
      OBVIOUS
    <3>2. Has(toR, {"PAGE"})
      BY <1>2, <2>2, <2>4, <3>1, HeadIn
    <3>3. PagesAre(toR, cur_page) /\ Len(pages) = cur_page /\ pages_tx = 0
      BY <1>1, <3>2 DEF PagesInv
    <3>4. Head(toR).page = cur_page
      <4>. DEFINE q2 == Tail(toR)
      <4>. QED BY <1>2, <2>2, <2>4, <3>3, Taken
    <3>5. confirmed = cur_page /\ confirmed' = confirmed
      BY <2>1, <3>3 DEF confirmed
    <3>6. Len(pages) < Len(Doc) /\ pages' = Append(pages, Doc[Len(pages) + 1])
      BY <1>2, <1>3, <2>4, <3>3, <3>4
    <3>. QED BY <3>3, <3>5, <3>6 DEF Transfer!PTNext, Transfer!Write
  <2>. QED BY <2>2, <2>3, <2>4
<1>5. CASE HearMcfNext(p) \/ HearMcfLast(p)
  <2>1. p = Sender /\ sst = "C_WAIT_MCF" /\ pages' = pages
    BY <1>1, <1>5, ByRole DEF HearMcfNext, HearMcfLast, SenderWaiting, receiverVars
  <2>2. toS # <<>> /\ Head(toS).m = "MCF"
    BY <1>1, <1>5, <2>1, ByRole DEF HearMcfNext, HearMcfLast, Hears
  <2>3. Has(toS, {"MCF"})
    <3>1. "MCF" \in {"MCF"}
      OBVIOUS
    <3>. QED BY <1>2, <2>2, <3>1, HeadIn
  <2>4. Len(pages) = cur_page + 1
    BY <1>1, <2>1, <2>3 DEF AnswerInv, Posting
  <2>5. pages_tx = 0
    BY <1>1, <2>1, Known2 DEF PagesInv
  <2>6. confirmed = cur_page /\ confirmed' = cur_page + 1
    <3>1. CASE HearMcfNext(p)
      BY <1>2, <2>5, <3>1, SMT DEF HearMcfNext, confirmed
    <3>2. CASE HearMcfLast(p)
      BY <1>2, <2>5, <3>2, SMT DEF HearMcfLast, confirmed
    <3>. QED BY <1>5, <3>1, <3>2
  <2>7. confirmed < Len(pages) /\ confirmed' = confirmed + 1
    BY <1>2, <2>4, <2>6
  <2>. QED BY <2>1, <2>7 DEF Transfer!PTNext, Transfer!Confirm
<1>6. CASE ~HearPage(p) /\ ~HearMcfNext(p) /\ ~HearMcfLast(p)
  BY <1>6, OtherSteps DEF Transfer!ptvars, confirmed
<1>. QED BY <1>4, <1>5, <1>6

(* A classic call implements the abstract page transfer: the receiver       *)
(* writes the pages in order, each once, and the sender counts a page only  *)
(* after it has been written, whatever is lost, repeated or sent again.     *)
THEOREM DeliversPagesCorrect == Spec => DeliversPages
<1>1. Init => Transfer!PTInit
  BY DEF Init, Transfer!PTInit, confirmed
<1>2. CallInv /\ [Next]_vars => [Transfer!PTNext]_Transfer!ptvars
  <2>1. CASE UNCHANGED vars
    BY <2>1 DEF vars, senderVars, receiverVars, Transfer!ptvars, confirmed
  <2>. QED BY <2>1, TransferStep DEF Next
<1>. QED BY CallInvariant, <1>1, <1>2, PTL DEF Spec, DeliversPages, Transfer!PTSpec

-----------------------------------------------------------------------------
(***************************************************************************)
(* The row a receiver listens at.  It has the DCS it heard last to go by,  *)
(* and a training check or a page of an earlier row may still be on the    *)
(* line: what keeps them apart is that they come before that DCS.          *)
(***************************************************************************)
Announced(q) ==
  \A i, j \in 1..Len(q) :
    i < j /\ q[i].m = "DCS" /\ q[j].m \in Carriers => q[i].bits = FB[q[j].row].dcs

RowsAre(q, row) == \A i \in 1..Len(q) : q[i].m \in Carriers => q[i].row = row

(* The row of the receiver is the sender's: it listens, or will again       *)
(* without another DCS.                                                     *)
Tuned == fast \/ rst \in {"A_SEND_CFR", "A_WAIT_POST", "A_SEND_MCF"}

Listens ==
  fast => \/ rst = "A_RECV_TCF"
          \/ rst = "A_RECV_IMAGE" /\ timer[Receiver] = 0
          \/ rst = "ST_DONE" /\ sst = "ST_DONE"

TunedInv ==
  /\ One(toR, {"DCS"}) /\ Announced(toR)
  /\ Tuned => ~Has(toR, {"DCS"}) /\ RowsAre(toR, rfallback)
  /\ Listens

(* A carrier sent at the row announced leaves the queue as it says.         *)
LEMMA SentAtRow ==
  ASSUME NEW q \in Seq(Messages), NEW msg \in Messages, NEW q2 \in Arrivals(q, msg)
  PROVE  /\ Announced(q) /\ (msg.m \in Carriers => DcsAre(q, msg.row)) => Announced(q2)
         /\ \A row : RowsAre(q, row) /\ (msg.m \in Carriers => msg.row = row)
              => RowsAre(q2, row)
<1>1. /\ q2 \in Seq(Messages) /\ Len(q2) \in {Len(q), Len(q) + 1}
      /\ \A i \in 1..Len(q2) : \/ i \in 1..Len(q) /\ q2[i] = q[i]
                               \/ i = Len(q) + 1 /\ q2[i] = msg
  BY Arrived
<1>2. ASSUME Announced(q), msg.m \in Carriers => DcsAre(q, msg.row) PROVE Announced(q2)
  <2>. SUFFICES ASSUME NEW i \in 1..Len(q2), NEW j \in 1..Len(q2), i < j,
                       q2[i].m = "DCS", q2[j].m \in Carriers
                PROVE  q2[i].bits = FB[q2[j].row].dcs
    BY DEF Announced
  <2>1. i \in 1..Len(q) /\ q2[i] = q[i]
    BY <1>1
  <2>2. CASE j \in 1..Len(q) /\ q2[j] = q[j]
    BY <1>2, <2>1, <2>2 DEF Announced
  <2>3. CASE q2[j] = msg
    BY <1>2, <2>1, <2>3 DEF DcsAre
  <2>. QED BY <1>1, <2>2, <2>3
<1>3. ASSUME NEW row, RowsAre(q, row), msg.m \in Carriers => msg.row = row
      PROVE  RowsAre(q2, row)
  BY <1>1, <1>3 DEF RowsAre
<1>. QED BY <1>2, <1>3

(* After a DCS every carrier is at the row it announces.                    *)
LEMMA TakenAtRow ==
  ASSUME NEW q \in Seq(Messages), q # <<>>, NEW q2, q2 = Tail(q)
  PROVE  /\ Announced(q) => Announced(q2)
         /\ \A row : RowsAre(q, row) => RowsAre(q2, row)
         /\ Announced(q) /\ Head(q).m = "DCS" =>
              \A i \in 1..Len(q2) : q2[i].m \in Carriers => Head(q).bits = FB[q2[i].row].dcs
<1>1. /\ q2 \in Seq(Messages) /\ Len(q) \in Nat /\ Len(q) > 0 /\ Len(q2) = Len(q) - 1
      /\ \A i \in 1..Len(q2) : i + 1 \in 1..Len(q) /\ q2[i] = q[i + 1]
  BY SMT
<1>2. 1 \in 1..Len(q) /\ Head(q) = q[1]
  BY SMT
<1>3. ASSUME Announced(q) PROVE Announced(q2)
  <2>. SUFFICES ASSUME NEW i \in 1..Len(q2), NEW j \in 1..Len(q2), i < j,
                       q2[i].m = "DCS", q2[j].m \in Carriers
                PROVE  q2[i].bits = FB[q2[j].row].dcs
    BY DEF Announced
  <2>1. i + 1 < j + 1
    BY <1>1, SMT
  <2>. QED BY <1>1, <1>3, <2>1 DEF Announced
<1>4. ASSUME NEW row, RowsAre(q, row) PROVE RowsAre(q2, row)
  BY <1>1, <1>4 DEF RowsAre
<1>5. ASSUME Announced(q), Head(q).m = "DCS", NEW i \in 1..Len(q2), q2[i].m \in Carriers
      PROVE  Head(q).bits = FB[q2[i].row].dcs
  <2>1. 1 < i + 1
    BY <1>1, SMT
  <2>. QED BY <1>1, <1>2, <1>5, <2>1 DEF Announced
<1>. QED BY <1>3, <1>4, <1>5

(* Neither a DCS nor a carrier is added to the receiver's queue.            *)
Quiet(q2, q) ==
  /\ One(q, {"DCS"}) => One(q2, {"DCS"})
  /\ Has(q2, {"DCS"}) => Has(q, {"DCS"})
  /\ Announced(q) => Announced(q2)
  /\ RowsAre(q, rfallback) => RowsAre(q2, rfallback)

LEMMA QuietLine ==
  ASSUME TypeOK, UNCHANGED fixed, NEW p \in Parties
  PROVE  /\ UNCHANGED to => Quiet(toR', toR)
         /\ to[p] # <<>> /\ Takes(p) => Quiet(toR', toR)
         /\ \A msg \in Messages :
              msg.m \notin Carriers \cup {"DCS"} /\ Puts(p, msg) => Quiet(toR', toR)
         /\ \A msg \in Messages : \A id \in IdFrames :
              msg.m \notin Carriers \cup {"DCS"} /\ PutsBurst(p, id, msg) => Quiet(toR', toR)
<1>1. toR \in Seq(Messages) /\ (p = Receiver => toR = to[p])
  BY RoleFacts DEF TypeOK, toR
<1>2. Quiet(toR, toR)
  BY DEF Quiet
<1>3. ASSUME NEW q \in Seq(Messages), NEW msg \in Messages, NEW q2 \in Arrivals(q, msg),
             msg.m \notin Carriers \cup {"DCS"}
      PROVE  q2 \in Seq(Messages) /\ Quiet(q2, q)
  <2>1. /\ \A kinds : Has(q2, kinds) => Has(q, kinds) \/ msg.m \in kinds
        /\ \A kinds : One(q, kinds) /\ (msg.m \in kinds => ~Has(q, kinds)) => One(q2, kinds)
        /\ q2 \in Seq(Messages)
    BY Sent
  <2>2. /\ Announced(q) => Announced(q2)
        /\ \A row : RowsAre(q, row) => RowsAre(q2, row)
    BY <1>3, SentAtRow
  <2>3. msg.m \notin {"DCS"}
    BY <1>3
  <2>. QED BY <2>1, <2>2, <2>3, Zenon DEF Quiet
<1>4. UNCHANGED to => Quiet(toR', toR)
  BY <1>2, Exchanges
<1>5. ASSUME to[p] # <<>>, Takes(p) PROVE Quiet(toR', toR)
  <2>1. \/ toR' = toR
        \/ toR # <<>> /\ toR' = Tail(toR)
    BY <1>1, <1>5, Exchanges, RoleFacts
  <2>2. CASE toR # <<>> /\ toR' = Tail(toR)
    <3>1. /\ \A kinds : Has(toR', kinds) => Has(toR, kinds)
          /\ \A kinds : One(toR, kinds) => One(toR', kinds)
      BY <1>1, <2>2, Taken
    <3>2. /\ Announced(toR) => Announced(toR')
          /\ \A row : RowsAre(toR, row) => RowsAre(toR', row)
      BY <1>1, <2>2, TakenAtRow
    <3>. QED BY <3>1, <3>2 DEF Quiet
  <2>. QED BY <1>2, <2>1, <2>2
<1>6. ASSUME NEW msg \in Messages, msg.m \notin Carriers \cup {"DCS"}, Puts(p, msg)
      PROVE  Quiet(toR', toR)
  <2>1. toR' = toR \/ toR' \in Arrivals(toR, msg)
    BY <1>6, Exchanges, RoleFacts
  <2>. QED BY <1>1, <1>2, <1>3, <1>6, <2>1
<1>7. ASSUME NEW msg \in Messages, NEW id \in IdFrames, msg.m \notin Carriers \cup {"DCS"},
             PutsBurst(p, id, msg)
      PROVE  Quiet(toR', toR)
  <2>1. \/ toR' = toR
        \/ \E q \in Arrivals(toR, [m |-> id]) : toR' \in Arrivals(q, msg)
    BY <1>7, Exchanges, RoleFacts
  <2>2. ASSUME NEW q \in Arrivals(toR, [m |-> id]), toR' \in Arrivals(q, msg)
        PROVE  Quiet(toR', toR)
    <3>1. [m |-> id] \in Messages /\ [m |-> id].m \notin Carriers \cup {"DCS"}
      BY KnownMessages DEF IdFrames, Carriers
    <3>2. q \in Seq(Messages) /\ Quiet(q, toR)
      BY <1>1, <1>3, <3>1
    <3>3. Quiet(toR', q)
      BY <1>3, <1>7, <2>2, <3>2
    <3>. QED BY <3>2, <3>3 DEF Quiet
  <2>. QED BY <1>2, <2>1, <2>2
<1>. QED BY <1>4, <1>5, <1>6, <1>7

LEMMA TunedKept ==
  ASSUME TunedInv, Quiet(toR', toR), UNCHANGED rfallback, Tuned' => Tuned, Listens'
  PROVE  TunedInv'
BY DEF TunedInv, Quiet

(* How a step of one party's engine keeps what the receiver listens for.    *)
LEMMA ListenMoves ==
  ASSUME TypeOK, UNCHANGED fixed, Listens
  PROVE  /\ \A s, ms : Go(Sender, s, ms) /\ sst # "ST_DONE" /\ UNCHANGED fast =>
              (Tuned' => Tuned) /\ Listens'
         /\ Go(Sender, sst, 0) /\ UNCHANGED fast => (Tuned' => Tuned) /\ Listens'
         /\ \A r : Finish(Sender, r) /\ UNCHANGED fast => (Tuned' => Tuned) /\ Listens'
         /\ \A s, ms :
              /\ Go(Receiver, s, ms) /\ fast' = FALSE
              /\ s \in {"A_SEND_CFR", "A_WAIT_POST", "A_SEND_MCF"} => Tuned
              => (Tuned' => Tuned) /\ Listens'
         /\ \A r : /\ Finish(Receiver, r) /\ UNCHANGED fast /\ (fast => sst = "ST_DONE")
                  => (Tuned' => Tuned) /\ Listens'
         /\ UNCHANGED <<engineVars, fast>> => (Tuned' => Tuned) /\ Listens'
<1>1. st \in [Parties -> Substates] /\ timer \in [Parties -> {0, 3000, 6000, 7000, 35000}]
  BY DEF TypeOK
<1>2. ASSUME NEW s, NEW ms, Go(Sender, s, ms), sst # "ST_DONE", UNCHANGED fast
      PROVE  (Tuned' => Tuned) /\ Listens'
  BY <1>1, <1>2, RoleFacts, SameRoles DEF Go, Tuned, Listens, sst, rst
<1>3. ASSUME NEW r, Finish(Sender, r), UNCHANGED fast
      PROVE  (Tuned' => Tuned) /\ Listens'
  BY <1>1, <1>3, RoleFacts, SameRoles DEF Finish, Tuned, Listens, sst, rst
<1>4. ASSUME NEW s, NEW ms, Go(Receiver, s, ms), fast' = FALSE,
             s \in {"A_SEND_CFR", "A_WAIT_POST", "A_SEND_MCF"} => Tuned
      PROVE  (Tuned' => Tuned) /\ Listens'
  BY <1>1, <1>4, RoleFacts, SameRoles DEF Go, Tuned, Listens, sst, rst
<1>5. ASSUME UNCHANGED <<engineVars, fast>> PROVE (Tuned' => Tuned) /\ Listens'
  BY <1>5, SameRoles DEF engineVars, Tuned, Listens, sst, rst
<1>6. ASSUME Go(Sender, sst, 0), UNCHANGED fast PROVE (Tuned' => Tuned) /\ Listens'
  BY <1>1, <1>6, RoleFacts, SameRoles DEF Go, Tuned, Listens, sst, rst
<1>7. ASSUME NEW r, Finish(Receiver, r), UNCHANGED fast, fast => sst = "ST_DONE"
      PROVE  (Tuned' => Tuned) /\ Listens'
  BY <1>1, <1>7, RoleFacts, SameRoles DEF Finish, Tuned, Listens, sst, rst
<1>. QED BY <1>2, <1>3, <1>4, <1>5, <1>6, <1>7

(* A DCS is sent only when the receiver listens for nothing.                *)
LEMMA TunedSendDcs ==
  ASSUME CallInv, TunedInv, NEW p \in Parties, SendDcs(p), UNCHANGED fixed
  PROVE  TunedInv'
<1>1. TypeOK /\ RolesInv /\ (sst # "ST_DONE" => TurnInv /\ RowInv)
  BY DEF CallInv
<1>2. p = Sender /\ sst = "C_SEND_DCS"
  BY <1>1, ByRole, RoleFacts DEF SendDcs, SenderSending
<1>3. ~Has(toR, Begins) /\ ~Tuned
  <2>1. TurnInv /\ RowInv
    BY <1>1, <1>2
  <2>2. rst \notin {"A_SEND_CFR", "A_RECV_IMAGE", "A_RECV_TCF", "A_WAIT_POST", "A_SEND_MCF"}
    BY <1>2, <2>1 DEF TurnInv, RowInv, Training, Checking, Judging
  <2>3. ~fast
    BY <1>2, <2>2 DEF TunedInv, Listens
  <2>. QED BY <1>2, <2>1, <2>2, <2>3 DEF TurnInv, Tuned
<1>4. ~Has(toR, {"DCS"})
  BY <1>3 DEF Has, Begins
<1>5. (Tuned' => Tuned) /\ Listens'
  BY <1>1, <1>2, ListenMoves DEF SendDcs, TunedInv, receiverVars
<1>. DEFINE dcs == [m |-> "DCS", bits |-> FB[fallback].dcs]
<1>6. dcs \in Messages /\ dcs.m = "DCS" /\ [m |-> "TSI"] \in Messages
  BY <1>1, KnownMessages
<1>7. PICK q \in Arrivals(toR, [m |-> "TSI"]) : toR' \in Arrivals(q, dcs)
  BY <1>1, <1>2, Exchanges DEF SendDcs
<1>. HIDE DEF dcs
<1>8. toR \in Seq(Messages) /\ Announced(toR)
  BY <1>1, Exchanges DEF TunedInv
<1>9. q \in Seq(Messages) /\ ~Has(q, {"DCS"}) /\ Announced(q)
  <2>1. "TSI" \notin {"DCS"} /\ "TSI" \notin Carriers /\ [m |-> "TSI"].m = "TSI"
    BY DEF Carriers
  <2>. QED BY <1>4, <1>6, <1>7, <1>8, <2>1, Sent, SentAtRow
<1>10. One(q, {"DCS"})
  BY <1>9, Lacks
<1>11. One(toR', {"DCS"}) /\ Announced(toR')
  <2>1. dcs.m \notin Carriers
    BY <1>6 DEF Carriers
  <2>. QED BY <1>6, <1>7, <1>9, <1>10, <2>1, Sent, SentAtRow
<1>. QED BY <1>3, <1>5, <1>11 DEF TunedInv

(* A training check or a page is sent at the row announced last.            *)
LEMMA TunedSendCarrier ==
  ASSUME CallInv, TunedInv, NEW p \in Parties, SendTcf(p) \/ SendImage(p), UNCHANGED fixed
  PROVE  TunedInv'
<1>1. TypeOK /\ RolesInv /\ (sst # "ST_DONE" => TurnInv /\ RowInv)
  BY DEF CallInv
<1>2. p = Sender /\ sst \in {"C_SEND_TCF", "C_SEND_IMAGE"}
  BY <1>1, ByRole, RoleFacts DEF SendTcf, SendImage, SenderSending
<1>3. DcsAre(toR, fallback) /\ (Tuned => rfallback = fallback)
  <2>1. RowInv
    BY <1>1, <1>2
  <2>2. rst \in Checking \cup Judging \cup {"A_RECV_IMAGE"} => rfallback = fallback
    BY <2>1 DEF RowInv
  <2>. QED BY <1>2, <2>1, <2>2 DEF RowInv, Tuned, TunedInv, Listens, Checking, Judging
<1>4. UNCHANGED rfallback /\ (Tuned' => Tuned) /\ Listens'
  BY <1>1, <1>2, ListenMoves DEF SendTcf, SendImage, TunedInv, receiverVars
<1>5. PICK msg \in Messages : /\ msg.m \in Carriers /\ msg.row = fallback
                              /\ toR' \in Arrivals(toR, msg)
  <2>1. CASE SendTcf(p)
    <3>1. toR' \in Arrivals(toR, [m |-> "TCF", row |-> fallback])
      BY <1>1, <1>2, <2>1, Exchanges DEF SendTcf
    <3>. QED BY <1>1, <3>1, KnownMessages DEF Carriers
  <2>2. CASE SendImage(p)
    <3>1. toR' \in Arrivals(toR, [m |-> "PAGE", row |-> fallback, page |-> cur_page])
      BY <1>1, <1>2, <2>2, Exchanges DEF SendImage
    <3>. QED BY <1>1, <3>1, KnownMessages DEF Carriers
  <2>. QED BY <2>1, <2>2
<1>6. toR \in Seq(Messages) /\ msg.m \notin {"DCS"}
  BY <1>1, <1>5, Exchanges DEF Carriers
<1>7. /\ One(toR, {"DCS"}) => One(toR', {"DCS"})
      /\ Has(toR', {"DCS"}) => Has(toR, {"DCS"})
  BY <1>5, <1>6, Sent
<1>8. /\ Announced(toR) => Announced(toR')
      /\ Tuned /\ RowsAre(toR, rfallback) => RowsAre(toR', rfallback)
  BY <1>3, <1>5, <1>6, SentAtRow
<1>. QED BY <1>4, <1>7, <1>8 DEF TunedInv

(* The DCS the receiver adopts is the last one, and announces all behind it. *)
LEMMA TunedHearDcs ==
  ASSUME CallInv, TunedInv, NEW p \in Parties, HearDcs(p), UNCHANGED fixed
  PROVE  TunedInv'
<1>1. TypeOK /\ RolesInv
  BY DEF CallInv
<1>2. to[p] # <<>> /\ Head(to[p]).m = "DCS" /\ Takes(p)
  BY DEF HearDcs, Hears
<1>3. p = Receiver
  <2>1. ASSUME p = Sender PROVE FALSE
    <3>1. toS = to[p] /\ toS \in Seq(Messages)
      BY <1>1, <2>1, ByRole, Exchanges
    <3>2. "DCS" \in MsgKinds \ (Answers \cup {"CSI", "DIS", "CIG", "DTC"})
      BY DEF MsgKinds, Answers
    <3>3. Has(toS, MsgKinds \ (Answers \cup {"CSI", "DIS", "CIG", "DTC"}))
      BY <1>2, <3>1, <3>2, HeadIn
    <3>. QED BY <1>1, <3>3 DEF RolesInv
  <2>. QED BY <2>1, RoleFacts
<1>4. toR \in Seq(Messages) /\ toR # <<>> /\ Head(toR).m = "DCS" /\ toR' = Tail(toR)
  BY <1>1, <1>2, <1>3, ByRole, Exchanges
<1>5. rst' = "A_RECV_TCF" /\ rfallback' = ParseDcs(Head(toR).bits)
  BY <1>1, <1>3, ByRole, Moves DEF HearDcs
<1>6. ~Has(toR', {"DCS"}) /\ One(toR', {"DCS"})
  <2>1. Head(toR).m \in {"DCS"} /\ One(toR, {"DCS"})
    BY <1>4 DEF TunedInv
  <2>. QED BY <1>4, <2>1, TakenOne, Lacks
<1>7. /\ Announced(toR') /\ toR' \in Seq(Messages)
      /\ \A i \in 1..Len(toR') : toR'[i].m \in Carriers => Head(toR).bits = FB[toR'[i].row].dcs
  <2>1. Announced(toR)
    BY DEF TunedInv
  <2>. DEFINE q2 == Tail(toR)
  <2>2. q2 \in Seq(Messages)
    BY <1>4, SMT
  <2>3. /\ Announced(q2)
        /\ \A i \in 1..Len(q2) : q2[i].m \in Carriers => Head(toR).bits = FB[q2[i].row].dcs
    BY <1>4, <2>1, TakenAtRow
  <2>. HIDE DEF q2
  <2>4. toR' = q2
    BY <1>4 DEF q2
  <2>. QED BY <2>2, <2>3, <2>4
<1>8. RowsAre(toR', rfallback')
  <2>. SUFFICES ASSUME NEW i \in 1..Len(toR'), toR'[i].m \in Carriers
                PROVE  toR'[i].row = rfallback'
    BY DEF RowsAre
  <2>1. toR'[i].row \in FbIndex
    BY <1>7, MessageFields
  <2>. QED BY <1>1, <1>5, <1>7, <2>1, Rows
<1>. QED BY <1>5, <1>6, <1>7, <1>8 DEF TunedInv, Listens

(* Every other action leaves the row and the DCS of the receiver alone.     *)
LEMMA TunedOther ==
  ASSUME CallInv, TunedInv, NEW p \in Parties, StepComplete(p) \/ Hear(p) \/ Expire(p),
         ~SendDcs(p), ~SendTcf(p), ~SendImage(p), ~HearDcs(p)
  PROVE  TunedInv'
<1>1. TypeOK /\ RolesInv /\ TimerInv /\ DcnInv /\ Listens /\ UNCHANGED fixed
  BY DEF CallInv, TunedInv, StepComplete, Hear, Expire
<1>2. UNCHANGED rfallback
  <2>1. CASE StepComplete(p)
    BY <2>1 DEF StepComplete, PauseAfterDcs, SendPost, SendDcn, SendCfr, SendFttOrRtn,
       SendMcfNext, SendMcfLast, SendCed, SendDis, SendDtc, receiverVars
  <2>2. CASE Hear(p)
    BY <2>2 DEF Hear, HearCaps, HearCapsAbort, HearDisPoll, HearDisNoDoc, HearCfr, HearFtt,
       HearFttGiveUp, HearMcfNext, HearMcfLast, HearRtn, HearRtnGiveUp, HearTcf, HearPage,
       HearPost, HearPostAgain, HearDcn, IgnoreFrame, IgnoreCarrier, receiverVars
  <2>3. CASE Expire(p)
    BY <2>3 DEF Expire, ExpireTcf, ExpirePost, ExpireDis, ExpireFinish, receiverVars
  <2>. QED BY <2>1, <2>2, <2>3
<1>3. Quiet(toR', toR)
  <2>1. CASE StepComplete(p)
    <3>1. CASE \/ PauseAfterDcs(p)
               \/ p = "answerer" /\ SendCed
      BY <1>1, <3>1, QuietLine DEF PauseAfterDcs, SendCed
    <3>2. \A kind \in {"MPS", "EOP", "CFR", "FTT", "MCF", "RTN", "DCN"} :
            [m |-> kind] \in Messages /\ [m |-> kind].m \notin Carriers \cup {"DCS"}
      BY <1>1, KnownMessages DEF Carriers
    <3>3. PostMessage \in {"MPS", "EOP"}
      BY DEF PostMessage
    <3>4. CASE \/ SendPost(p) \/ SendDcn(p) \/ SendCfr(p) \/ SendFttOrRtn(p)
               \/ SendMcfNext(p) \/ SendMcfLast(p)
      <4>1. PICK kind \in {"MPS", "EOP", "CFR", "FTT", "MCF", "RTN", "DCN"} :
              Puts(p, [m |-> kind])
        BY <3>3, <3>4 DEF SendPost, SendDcn, SendCfr, SendFttOrRtn, SendMcfNext, SendMcfLast
      <4>. QED BY <1>1, <3>2, <4>1, QuietLine
    <3>5. CASE p = "answerer" /\ SendDis
      <4>. DEFINE dis == [m |-> "DIS", bits |-> DisBits(Allowed["answerer"]), doc |-> setup.doc]
      <4>1. dis \in Messages /\ dis.m \notin Carriers \cup {"DCS"} /\ "CSI" \in IdFrames
        BY <1>1, <3>5, KnownMessages DEF Carriers
      <4>2. PutsBurst(p, "CSI", dis)
        BY <3>5 DEF SendDis
      <4>. HIDE DEF dis
      <4>. QED BY <1>1, <4>1, <4>2, QuietLine
    <3>6. CASE p = "caller" /\ SendDtc
      <4>. DEFINE dtc == [m |-> "DTC", bits |-> DisBits(Allowed["caller"])]
      <4>1. dtc \in Messages /\ dtc.m \notin Carriers \cup {"DCS"} /\ "CIG" \in IdFrames
        BY <1>1, <3>6, KnownMessages DEF Carriers
      <4>2. PutsBurst(p, "CIG", dtc)
        BY <3>6 DEF SendDtc
      <4>. HIDE DEF dtc
      <4>. QED BY <1>1, <4>1, <4>2, QuietLine
    <3>. QED BY <2>1, <3>1, <3>4, <3>5, <3>6 DEF StepComplete
  <2>2. CASE Hear(p)
    <3>1. to[p] # <<>> /\ Takes(p)
      BY <2>2 DEF Hear, HearCaps, HearCapsAbort, HearsCaps, HearDisPoll, HearDisNoDoc, HearCfr,
         HearFtt, HearFttGiveUp, HearMcfNext, HearMcfLast, HearRtn, HearRtnGiveUp, HearTcf,
         HearPage, HearsCarrier, HearPost, HearPostAgain, HearDcn, IgnoreFrame, IgnoreCarrier,
         Hears
    <3>. QED BY <1>1, <3>1, QuietLine
  <2>3. CASE Expire(p)
    BY <1>1, <2>3, QuietLine DEF Expire, ExpireTcf, ExpirePost, ExpireDis, ExpireFinish
  <2>. QED BY <2>1, <2>2, <2>3
<1>4. (Tuned' => Tuned) /\ Listens'
  <2>1. CASE p = Sender
    <3>1. sst = st[p]
      BY <2>1, ByRole, <1>1
    <3>2. UNCHANGED fast
      <4>1. st[p] \notin ReceiverSending \cup ReceiverWaiting
        BY <1>1, <2>1, ByRole, RoleFacts
      <4>2. CASE StepComplete(p)
        BY <4>1, <4>2 DEF StepComplete, PauseAfterDcs, SendPost, SendDcn, SendCfr, SendFttOrRtn,
           SendMcfNext, SendMcfLast, SendCed, SendDis, SendDtc, receiverVars, ReceiverSending
      <4>3. CASE Hear(p)
        <5>1. IgnoreFrame(p) => UNCHANGED fast
          BY <1>1, <2>1, RoleFacts DEF IgnoreFrame, TypeOK
        <5>. QED BY <4>1, <4>3, <5>1 DEF Hear, HearCaps, HearCapsAbort, HearDisPoll,
           HearDisNoDoc, HearCfr, HearFtt, HearFttGiveUp, HearMcfNext, HearMcfLast, HearRtn,
           HearRtnGiveUp, HearTcf, HearPage, HearPost, HearPostAgain, HearDcn, IgnoreCarrier,
           receiverVars, ReceiverWaiting
      <4>4. CASE Expire(p)
        BY <4>1, <4>4 DEF Expire, ExpireTcf, ExpirePost, ExpireDis, ExpireFinish, receiverVars,
           ReceiverWaiting
      <4>. QED BY <4>2, <4>3, <4>4
    <3>3. \/ sst # "ST_DONE" /\ \E s, ms : Go(Sender, s, ms)
          \/ \E r : Finish(Sender, r)
          \/ UNCHANGED engineVars
          \/ Go(Sender, sst, 0)
      <4>1. CASE StepComplete(p)
        BY <2>1, <3>1, <4>1 DEF StepComplete, PauseAfterDcs, SendPost, SendDcn, SendCfr,
           SendFttOrRtn, SendMcfNext, SendMcfLast, SendCed, SendDis, SendDtc
      <4>2. CASE Hear(p)
        BY <2>1, <3>1, <4>2 DEF Hear, HearCaps, HearCapsAbort, HearsCaps, HearDisPoll,
           HearDisNoDoc, HearCfr, HearFtt, HearFttGiveUp, HearMcfNext, HearMcfLast, HearRtn,
           HearRtnGiveUp, HearTcf, HearPage, HearPost, HearPostAgain, HearDcn, IgnoreFrame,
           IgnoreCarrier
      <4>3. CASE Expire(p)
        BY <2>1, <3>1, <4>3 DEF Expire, ExpireTcf, ExpirePost, ExpireDis, MayRepeatDis,
           ExpireFinish
      <4>. QED BY <4>1, <4>2, <4>3
    <3>. QED BY <1>1, <3>2, <3>3, ListenMoves
  <2>2. CASE p = Receiver
    <3>1. rst = st[p] /\ toR = to[p] /\ st[p] \notin SenderSending \cup SenderWaiting
      BY <1>1, <2>2, ByRole, RoleFacts
    <3>2. fast => rst \in {"A_RECV_TCF", "A_RECV_IMAGE", "ST_DONE"}
      BY <1>1 DEF Listens
    <3>3. CASE SendCfr(p) \/ SendMcfNext(p)
      <4>1. Tuned
        BY <3>1, <3>3 DEF SendCfr, SendMcfNext, Tuned
      <4>2. rst' = "A_RECV_IMAGE" /\ timer[Receiver]' = 0
        <5>1. timer \in [Parties -> {0, 3000, 6000, 7000, 35000}]
          BY <1>1 DEF TypeOK
        <5>2. Go(Receiver, "A_RECV_IMAGE", 0)
          BY <2>2, <3>3 DEF SendCfr, SendMcfNext
        <5>3. timer[Receiver]' = 0
          BY <1>1, <5>1, <5>2, RoleFacts, SameRoles DEF Go
        <5>. QED BY <1>1, <5>2, <5>3, Moves
      <4>. QED BY <4>1, <4>2 DEF Listens
    <3>4. CASE StepComplete(p) /\ ~SendCfr(p) /\ ~SendMcfNext(p)
      <4>1. /\ rst \notin {"A_RECV_TCF", "A_RECV_IMAGE", "ST_DONE"} /\ UNCHANGED fast
            /\ \E s, ms : /\ Go(Receiver, s, ms)
                         /\ s \notin {"A_SEND_CFR", "A_WAIT_POST", "A_SEND_MCF"}
        BY <2>2, <3>1, <3>4 DEF StepComplete, PauseAfterDcs, SendPost, SendDcn, SendFttOrRtn,
           SendMcfLast, SendCed, SendDis, SendDtc, SenderSending, receiverVars
      <4>2. fast' = FALSE
        BY <1>1, <3>2, <4>1 DEF TypeOK
      <4>. QED BY <1>1, <4>1, <4>2, ListenMoves
    <3>5. CASE HearTcf(p) \/ HearPage(p)
      <4>1. Tuned /\ fast' = FALSE
        BY <3>5 DEF HearTcf, HearPage, HearsCarrier, Tuned
      <4>2. \E s, ms : Go(Receiver, s, ms)
        BY <2>2, <3>5 DEF HearTcf, HearPage
      <4>. QED BY <1>1, <4>1, <4>2, ListenMoves
    <3>6. CASE HearPost(p)
      <4>1. Tuned /\ fast' = FALSE
        BY <1>1, <3>1, <3>2, <3>6 DEF HearPost, Tuned, TypeOK
      <4>2. \E s, ms : Go(Receiver, s, ms)
        BY <2>2, <3>6 DEF HearPost
      <4>. QED BY <1>1, <4>1, <4>2, ListenMoves
    <3>7. CASE HearDcn(p)
      <4>1. toR \in Seq(Messages) /\ toR # <<>> /\ Head(toR).m \in {"DCN"}
        BY <1>1, <3>1, <3>7, Exchanges DEF HearDcn, Hears
      <4>2. sres = "OK"
        BY <1>1, <4>1, HeadIn DEF DcnInv
      <4>3. sst = "ST_DONE"
        BY <1>1, <4>2, Known2
      <4>. QED BY <1>1, <2>2, <3>7, <4>3, ListenMoves DEF HearDcn, receiverVars
    <3>8. CASE IgnoreFrame(p)
      <4>1. fast' = FALSE /\ Go(Receiver, rst, 0)
        BY <2>2, <3>1, <3>8 DEF IgnoreFrame
      <4>2. rst \in {"A_SEND_CFR", "A_WAIT_POST", "A_SEND_MCF"} => Tuned
        BY DEF Tuned
      <4>. QED BY <1>1, <4>1, <4>2, ListenMoves
    <3>9. CASE IgnoreCarrier(p)
      BY <1>1, <3>9, ListenMoves DEF IgnoreCarrier, receiverVars
    <3>10. CASE \/ HearCaps(p) \/ HearCapsAbort(p) \/ HearPostAgain(p) \/ ExpireDis(p)
                \/ p = "caller" /\ HearDisPoll
                \/ p = "caller" /\ HearDisNoDoc
      <4>1. /\ rst \notin {"A_RECV_TCF", "A_RECV_IMAGE", "ST_DONE"} /\ UNCHANGED fast
            /\ \/ \E s, ms : /\ Go(Receiver, s, ms)
                            /\ s \notin {"A_SEND_CFR", "A_WAIT_POST", "A_SEND_MCF"}
               \/ \E r : Finish(Receiver, r)
        BY <2>2, <3>1, <3>10 DEF HearCaps, HearCapsAbort, HearsCaps, HearPostAgain, ExpireDis,
           MayRepeatDis, HearDisPoll, HearDisNoDoc, receiverVars
      <4>2. fast' = FALSE /\ ~fast
        BY <1>1, <3>2, <4>1 DEF TypeOK
      <4>. QED BY <1>1, <4>1, <4>2, ListenMoves
    <3>11. CASE ExpireTcf(p)
      BY <1>1, <2>2, <3>11, ListenMoves DEF ExpireTcf
    <3>12. CASE ExpireFinish(p)
      <4>1. timer[Receiver] > 0 /\ rst # "A_RECV_TCF" /\ UNCHANGED fast
        BY <2>2, <3>1, <3>12 DEF ExpireFinish, MayExpire, receiverVars
      <4>2. rst # "ST_DONE"
        BY <1>1, <2>2, <3>1, <4>1 DEF TimerInv
      <4>3. ~fast
        BY <1>1, <4>1, <4>2 DEF Listens
      <4>. QED BY <1>1, <2>2, <3>12, <4>1, <4>3, ListenMoves DEF ExpireFinish
    <3>13. CASE Hear(p)
      BY <3>1, <3>5, <3>6, <3>7, <3>8, <3>9, <3>10, <3>13 DEF Hear, HearCfr, HearFtt,
         HearFttGiveUp, HearMcfNext, HearMcfLast, HearRtn, HearRtnGiveUp, SenderWaiting
    <3>14. CASE Expire(p)
      BY <3>1, <3>10, <3>11, <3>12, <3>14 DEF Expire, ExpirePost, SenderWaiting
    <3>. QED BY <3>3, <3>4, <3>13, <3>14
  <2>. QED BY <2>1, <2>2, RoleFacts
<1>. QED BY <1>2, <1>3, <1>4, TunedKept DEF TunedInv

(* Every carrier on the line behind the DCS the receiver heard last is at   *)
(* the row it listens at, and no other carrier is before it.                *)
LEMMA TunedInvariant == Spec => []TunedInv
<1>1. Init => TunedInv
  <2>. SUFFICES ASSUME Init PROVE TunedInv
    OBVIOUS
  <2>1. toR = <<>> /\ fast = FALSE /\ rst \in {"C_WAIT_DIS", "A_SEND_CED"}
    BY RoleFacts DEF Init, toR, rst
  <2>. QED BY <2>1 DEF TunedInv, Tuned, Listens, One, Has, Announced, RowsAre
<1>2. CallInv /\ TunedInv /\ [Next]_vars => TunedInv'
  <2>. SUFFICES ASSUME CallInv, TunedInv, [Next]_vars PROVE TunedInv'
    OBVIOUS
  <2>1. CASE UNCHANGED vars
    <3>1. /\ toR' = toR /\ rst' = rst /\ sst' = sst /\ rfallback' = rfallback
          /\ fast' = fast /\ timer[Receiver]' = timer[Receiver]
      BY <2>1, SameRoles DEF vars, engineVars, receiverVars, toR, rst, sst
    <3>. QED BY <3>1 DEF TunedInv, Tuned, Listens
  <2>2. ASSUME NEW p \in Parties, StepComplete(p) \/ Hear(p) \/ Expire(p) PROVE TunedInv'
    <3>1. UNCHANGED fixed
      BY <2>2 DEF StepComplete, Hear, Expire
    <3>. QED BY <2>2, <3>1, TunedSendDcs, TunedSendCarrier, TunedHearDcs, TunedOther
  <2>. QED BY <2>1, <2>2 DEF Next
<1>. QED BY CallInvariant, <1>1, <1>2, PTL DEF Spec

(* A carrier reaches a listening receiver at the rate of the DCS it heard   *)
(* last, and a page is sent at the rate whose training check passed,        *)
(* however many training checks, pages and DCS were lost or crossed on the  *)
(* line (rfallback, fast; parse_dcs).                                       *)
THEOREM RateAgreedCorrect == Spec => []RateAgreed
<1>1. CallInv /\ TunedInv => RateAgreed
  <2>. SUFFICES ASSUME CallInv, TunedInv PROVE RateAgreed
    OBVIOUS
  <2>1. ASSUME fast, Hears(Receiver, Carriers) PROVE Head(to[Receiver]).row = rfallback
    <3>1. TypeOK
      BY DEF CallInv
    <3>2. toR \in Seq(Messages) /\ toR # <<>> /\ Head(toR).m \in Carriers
      BY <2>1, <3>1, RoleFacts DEF TypeOK, toR, Hears
    <3>3. 1 \in 1..Len(toR) /\ Head(toR) = toR[1]
      BY <3>2, SMT
    <3>. QED BY <2>1, <3>2, <3>3 DEF TunedInv, Tuned, RowsAre, toR
  <2>2. ASSUME st[Sender] = "C_SEND_IMAGE", st[Receiver] = "A_RECV_IMAGE"
        PROVE  fallback = rfallback
    BY <2>2 DEF CallInv, RowInv, sst, rst
  <2>. QED BY <2>1, <2>2 DEF RateAgreed
<1>. QED BY CallInvariant, TunedInvariant, <1>1, PTL
============================================================================
