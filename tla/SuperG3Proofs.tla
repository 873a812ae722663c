---------------------------- MODULE SuperG3Proofs ----------------------------
(***************************************************************************)
(* The theorems of SuperG3, for every offer of modulations, table of       *)
(* rates and bound on repeats and retrains.                                *)
(***************************************************************************)
EXTENDS SuperG3, FunctionTheorems, SequenceTheorems, FiniteSetTheorems, WellFoundedInduction, TLAPS

-----------------------------------------------------------------------------
(* The invariant. *)

ControlFrames == {"DIS", "DCS", "CFR", "PPS", "PPR", "MCF", "DCN"}
FrameSeqs == Seq(ControlFrames)
FrameSets == SUBSET ControlFrames
Rates == 0..14
Gates == {"", "trn", "cc", "pri"}
Pcms == {"", "TRN", "PRI"}

Sessions ==
  [st : SessionStates, done : BOOLEAN, in_retrain : BOOLEAN, retrains : Nat,
   tx_mode : Modes, rx_mode : Modes,
   frames : FrameSeqs, saved : FrameSeqs, pri_pending : BOOLEAN,
   pcm : Pcms, pcm_rate : Rates,
   ccs_state : CcStates, pre_mph : BOOLEAN, form_startup : BOOLEAN, peer_mph : BOOLEAN,
   data_pending : BOOLEAN, reneg_pending : BOOLEAN, holdoff : BOOLEAN,
   cc_established : BOOLEAN, last_adv : Rates, remote_max : Rates, rate_cur : Rates,
   floor_hard_fails : Nat,
   gate : Gates, win_mph : Rates, win : FrameSeqs, rx_seen : FrameSets,
   burst_seen : BOOLEAN, pri_skip : BOOLEAN]

Engines ==
  [sub : Substates, v34 : BOOLEAN, dis_retries : Nat, post_retries : Nat, ppr_count : Nat,
   missing : BOOLEAN, result : {"", "OK", "ERR", "HUNG_UP"}]

SafePoints == {p \in Points : p.local_max <= top_rate(p.srate)}

EndRecords == [ss : Sessions, pt : SafePoints, t : Engines]

CallerSubs ==
  {"C_WAIT_V8", "C_WAIT_V34", "C_WAIT_DIS", "C_SEND_DCS", "C_WAIT_CFR", "C_SEND_ECM",
   "C_SEND_PPS", "C_WAIT_PPS_RESP", "C_SEND_DCN", "PHASE_B", "DONE"}
AnswererSubs ==
  {"A_SEND_V8", "A_WAIT_V34", "A_SEND_CED", "A_CLASSIC_DIS", "A_SEND_DIS", "A_WAIT_DCS",
   "A_SEND_CFR", "A_RECV_ECM", "A_WAIT_PPS", "A_SEND_PPR", "A_SEND_ECM_MCF", "A_REACK",
   "A_WAIT_DCN", "PHASE_B", "DONE"}
SubsOf(s) == IF s = "C" THEN CallerSubs ELSE AnswererSubs

CallerV8 == {"OFF", "CI", "TE", "CM", "CJ", "DONE"}
AnswererV8 == {"OFF", "ANSAM", "JM", "DONE"}

CallerP2 ==
  {"OFF", "C_SILENCE", "C_INFO0", "C_TONEB", "C_TB_REV", "C_L1", "C_L2", "C_TONEB2"}
AnswererP2 ==
  {"OFF", "A_SILENCE", "A_INFO0", "A_TONEA", "A_TA_REV", "A_SIL2", "A_PROBE", "A_TONEA2",
   "A_INFOH"}

Kept(sig) == sig \in {"SILENCE", "INFO0", "INFOH"}

LineInv ==
  /\ DOMAIN arriving = Sides /\ DOMAIN p2_roll = Sides
  /\ \A s \in Sides : Kept(p2_roll[s].sig)
  /\ p2_roll["C"].sig = "INFOH" => p2_roll["C"].srate \in Srates

(* The session is not past Phase 2, or begins again. *)
Beginning == {"IDLE", "START"}

(* What the answerer acknowledged is there. *)
Acked(t) == t.sub \in {"A_SEND_ECM_MCF", "A_REACK", "A_WAIT_DCN"} => ~t.missing

EndOk(s, e) ==
  /\ e \in EndRecords /\ e.t.sub \in SubsOf(s)
  /\ s = "C" => e.ss.rx_mode # "PRI" /\ (e.ss.done => e.ss.st \notin Beginning)
  /\ s = "A" => Acked(e.t)

EndsInv ==
  /\ \A s \in Sides : EndOk(s, End(s))
  /\ DOMAIN ss = Sides /\ DOMAIN t30 = Sides /\ DOMAIN point = Sides

P2Inv ==
  /\ p2_state \in [Sides -> CallerP2 \cup AnswererP2] /\ p2_info_seen \in [Sides -> BOOLEAN]
  /\ p2_state["C"] \in CallerP2 /\ p2_state["A"] \in AnswererP2
  /\ ss["C"].st = "START" => p2_state["C"] # "OFF"

(* V.8 runs at an end; T.30 waits for it, and V.34 has not begun.           *)
V8Runs(s) == v8[s] \notin {"OFF", "DONE"}

V8Inv ==
  /\ V8TypeOK /\ v8["C"] \in CallerV8 /\ v8["A"] \in AnswererV8
  /\ \A s \in Sides :
       /\ V8Runs(s) => /\ v8_status[s] = "" /\ ss[s].st = "IDLE" /\ p2_state[s] = "OFF"
                       /\ t30[s].sub \in {"C_WAIT_V8", "A_SEND_V8", "DONE"}

TypeInv == LineInv /\ EndsInv /\ P2Inv /\ V8Inv

(* What the octets on the line say, and who knows the common modulations.   *)
CommonMods == our_modulations["A"] \cap our_modulations["C"]
CallerAgrees == v8["C"] = "CJ" \/ v8_status["C"] = "V8_CALL"
AnswererAgrees == v8["A"] \in {"JM", "DONE"} /\ modulations["A"] = CommonMods

AgreeInv ==
  /\ arriving["C"].sig = "CM" => parse_modulation(arriving["C"].octets) = our_modulations["C"]
  /\ arriving["A"].sig = "JM" =>
       AnswererAgrees /\ parse_modulation(arriving["A"].octets) = CommonMods
  /\ v8["A"] = "JM" => AnswererAgrees
  /\ CallerAgrees => modulations["C"] = CommonMods /\ AnswererAgrees
  /\ arriving["C"].sig = "CJ" => CallerAgrees
  /\ v8_status["A"] = "V8_CALL" => CallerAgrees

(* The block is delivered: MCF may be, or have been, on its way.            *)
Delivered(t) ==
  t.sub \in {"A_SEND_ECM_MCF", "A_REACK", "A_WAIT_DCN", "DONE"} /\ ~t.missing
SaysMcf(q) == "MCF" \in Range(q)
Confirmed(t) == t.sub = "C_SEND_DCN" \/ t.result = "OK"

McfInv ==
  \/ SaysMcf(ss["A"].frames) \/ SaysMcf(ss["A"].saved) \/ SaysMcf(ss["C"].win)
  \/ Confirmed(t30["C"])
  => Delivered(t30["A"])

(* The caller is through Phase 2, for good.                                 *)
Settled2 ==
  t30["C"].sub # "DONE" /\ p2_state["C"] = "OFF" /\ ss["C"].st \notin {"IDLE", "START"}
Past2 == Settled2 \/ t30["C"].sub = "DONE"

PointInv ==
  /\ Settled2 =>
       /\ point["C"].srate = point["A"].srate /\ arriving["C"].sig = "SILENCE"
       /\ p2_state["A"] \in {"OFF", "A_INFOH", "A_SILENCE", "A_INFO0", "A_TONEA"}
  /\ ss["A"].gate # "" => Past2
  /\ p2_roll["C"].sig = "INFOH" /\ ~Past2 =>
       /\ p2_roll["C"].srate = point["A"].srate
       /\ p2_state["A"] \in {"OFF", "A_INFOH"} /\ ~V8Runs("A")

CallInv == TypeInv /\ AgreeInv /\ McfInv /\ PointInv

-----------------------------------------------------------------------------
(* Folds: a set that holds the base and is closed under the step holds the  *)
(* result. FoldLeft is a recursive function on the subsets of the indices.  *)
LEMMA UpTo ==
  ASSUME NEW n \in Nat, NEW T, 0 \in T, \A k \in 0..(n - 1) : k \in T => k + 1 \in T
  PROVE  \A k \in 0..n : k \in T
<1>. DEFINE Bad == {k \in Nat : k <= n /\ k \notin T}
<1>1. ASSUME Bad # {} PROVE FALSE
  <2>1. IsWellFoundedOn(OpToRel(<, Nat), Nat)
    BY NatLessThanWellFounded
  <2>2. Bad \subseteq Nat
    OBVIOUS
  <2>. HIDE DEF Bad
  <2>3. PICK m \in Bad : \A k \in Bad : ~(<<k, m>> \in OpToRel(<, Nat))
    BY <1>1, <2>1, <2>2, WFMin
  <2>4. \A k \in Bad : ~(k < m)
    BY <2>2, <2>3 DEF OpToRel
  <2>. USE DEF Bad
  <2>5. m \in Nat /\ m <= n /\ m \notin T /\ m # 0
    BY <2>3
  <2>6. m - 1 \in 0..(n - 1) /\ m - 1 \in Nat /\ m - 1 <= n /\ m - 1 < m /\ (m - 1) + 1 = m
    BY <2>5, SMT
  <2>7. m - 1 \in T
    BY <2>4, <2>6
  <2>. QED BY <2>5, <2>6, <2>7
<1>2. \A k \in 0..n : k \in Nat /\ k <= n
  BY SMT
<1>. QED BY <1>1, <1>2

(* The recursion, with its step F as a function of the value and the index. *)
Recurs(g, base, F, k) ==
  g = [s \in SUBSET (1..k) |-> IF s = {} THEN base ELSE F[g[s \ {Max(s)}], Max(s)]]

LEMMA MaxIs ==
  ASSUME NEW k \in Nat, NEW s \in SUBSET (1..(k + 1)), k + 1 \in s
  PROVE  Max(s) = k + 1 /\ s \ {k + 1} \in SUBSET (1..k) /\ s # {}
<1>1. \A x \in s : k + 1 >= x /\ (x >= k + 1 => x = k + 1)
  BY SMT
<1>2. Max(s) = k + 1
  BY <1>1 DEF Max
<1>3. \A x \in 1..(k + 1) : x # k + 1 => x \in 1..k
  BY SMT
<1>. QED BY <1>2, <1>3

LEMMA MaxOfInterval ==
  ASSUME NEW k \in Nat
  PROVE  Max(1..(k + 1)) = k + 1 /\ (1..(k + 1)) \ {k + 1} = 1..k /\ 1..(k + 1) # {}
<1>1. k + 1 \in 1..(k + 1) /\ 1..(k + 1) \in SUBSET (1..(k + 1))
  BY SMT
<1>2. (1..(k + 1)) \ {k + 1} = 1..k
  BY SMT
<1>. QED BY <1>1, <1>2, MaxIs

LEMMA RecursExists ==
  ASSUME NEW T, NEW base \in T, NEW n \in Nat, NEW F \in [T \X (1..n) -> T]
  PROVE  \E g \in [SUBSET (1..n) -> T] : Recurs(g, base, F, n)
<1>. DEFINE Done == {k \in Nat : \E g \in [SUBSET (1..k) -> T] : Recurs(g, base, F, k)}
<1>1. 0 \in Done
  <2>. DEFINE g == [s \in SUBSET (1..0) |-> base]
  <2>1. 1..0 = {}
    BY SMT
  <2>2. \A s \in SUBSET (1..0) : s = {}
    BY <2>1
  <2>3. g = [s \in SUBSET (1..0) |-> IF s = {} THEN base ELSE F[g[s \ {Max(s)}], Max(s)]]
    BY <2>2
  <2>4. Recurs(g, base, F, 0)
    BY <2>3 DEF Recurs
  <2>5. g \in [SUBSET (1..0) -> T]
    OBVIOUS
  <2>. QED BY <2>4, <2>5
<1>2. ASSUME NEW k \in 0..(n - 1), k \in Done PROVE k + 1 \in Done
  <2>1. PICK h \in [SUBSET (1..k) -> T] : Recurs(h, base, F, k)
    BY <1>2
  <2>2. k \in Nat /\ k + 1 \in Nat /\ k + 1 \in 1..n
    BY SMT
  <2>. DEFINE old == SUBSET (1..k)
              new == SUBSET (1..(k + 1))
              g == [s \in new |-> IF k + 1 \in s THEN F[h[s \ {k + 1}], k + 1] ELSE h[s]]
  <2>3. 1..(k + 1) = (1..k) \cup {k + 1} /\ k + 1 \notin 1..k
    BY <2>2, SMT
  <2>4. \A s \in new : k + 1 \notin s => s \in old
    BY <2>3
  <2>5. \A s \in old : s \in new /\ k + 1 \notin s /\ g[s] = h[s]
    BY <2>3
  <2>6. \A s \in new : k + 1 \in s => /\ Max(s) = k + 1 /\ s \ {k + 1} \in old /\ s # {}
                                      /\ g[s] = F[h[s \ {k + 1}], k + 1]
    BY <2>2, MaxIs
  <2>7. \A s \in old : h[s] = IF s = {} THEN base ELSE F[h[s \ {Max(s)}], Max(s)]
    BY <2>1 DEF Recurs
  <2>8. g \in [new -> T]
    <3>1. \A s \in new : (IF k + 1 \in s THEN F[h[s \ {k + 1}], k + 1] ELSE h[s]) \in T
      <4>. TAKE s \in new
      <4>1. CASE k + 1 \in s
        <5>1. h[s \ {k + 1}] \in T
          BY <4>1, <2>6
        <5>. QED BY <4>1, <5>1, <2>2
      <4>2. CASE k + 1 \notin s
        BY <4>2, <2>4
      <4>. QED BY <4>1, <4>2
    <3>. QED BY <3>1
  <2>9. \A s \in new : g[s] = IF s = {} THEN base ELSE F[g[s \ {Max(s)}], Max(s)]
    <3>. TAKE s \in new
    <3>1. CASE k + 1 \in s
      <4>1. g[s \ {k + 1}] = h[s \ {k + 1}]
        BY <3>1, <2>6, <2>5
      <4>. HIDE DEF g
      <4>. QED BY <3>1, <4>1, <2>6
    <3>2. CASE k + 1 \notin s
      <4>1. s \in old /\ s \ {Max(s)} \in old
        BY <3>2, <2>4
      <4>2. g[s] = h[s] /\ g[s \ {Max(s)}] = h[s \ {Max(s)}]
        BY <4>1, <2>5
      <4>. HIDE DEF g
      <4>. QED BY <4>1, <4>2, <2>7
    <3>. QED BY <3>1, <3>2
  <2>. HIDE DEF g
  <2>10. Recurs(g, base, F, k + 1)
    <3>1. g = [s \in new |-> g[s]]
      BY <2>8
    <3>. QED BY <3>1, <2>9 DEF Recurs
  <2>. QED BY <2>2, <2>8, <2>10
<1>. HIDE DEF Done
<1>3. \A k \in 0..n : k \in Done
  BY <1>1, <1>2, UpTo
<1>4. n \in 0..n
  BY SMT
<1>. QED BY <1>3, <1>4 DEF Done

LEMMA MaxIn ==
  ASSUME NEW n \in Nat, NEW s \in SUBSET (1..n), s # {}
  PROVE  Max(s) \in s /\ \A x \in s : Max(s) >= x
<1>. DEFINE Has(t) == \E m \in t : \A x \in t : m >= x
            Done == {k \in Nat : \A t \in SUBSET (1..k) : t # {} => Has(t)}
<1>1. 0 \in Done
  <2>1. 1..0 = {}
    BY SMT
  <2>. QED BY <2>1
<1>2. ASSUME NEW k \in 0..(n - 1), k \in Done PROVE k + 1 \in Done
  <2>1. k \in Nat /\ k + 1 \in Nat
    BY SMT
  <2>2. ASSUME NEW t \in SUBSET (1..(k + 1)), t # {} PROVE Has(t)
    <3>1. CASE k + 1 \in t
      <4>1. \A x \in t : k + 1 >= x
        BY SMT
      <4>. QED BY <3>1, <4>1
    <3>2. CASE k + 1 \notin t
      <4>1. \A x \in 1..(k + 1) : x # k + 1 => x \in 1..k
        BY SMT
      <4>2. t \in SUBSET (1..k)
        BY <3>2, <4>1
      <4>. QED BY <1>2, <2>2, <4>2
    <3>. QED BY <3>1, <3>2
  <2>. QED BY <2>1, <2>2
<1>. HIDE DEF Done
<1>3. \A k \in 0..n : k \in Done
  BY <1>1, <1>2, UpTo
<1>4. n \in 0..n
  BY SMT
<1>5. Has(s)
  BY <1>3, <1>4 DEF Done
<1>. QED BY <1>5 DEF Max

(* A chain of values through the prefixes of the indices. *)
LEMMA Chain ==
  ASSUME NEW n \in Nat, NEW g, NEW T, g[{}] \in T,
         \A k \in 0..(n - 1) : g[1..k] \in T => g[1..(k + 1)] \in T
  PROVE  g[1..n] \in T
<1>. DEFINE Done == {k \in Nat : g[1..k] \in T}
<1>1. 0 \in Done
  <2>1. 1..0 = {}
    BY SMT
  <2>. QED BY <2>1
<1>2. \A k \in 0..(n - 1) : k \in Done => k + 1 \in Done
  OBVIOUS
<1>. HIDE DEF Done
<1>3. \A k \in 0..n : k \in Done
  BY <1>1, <1>2, UpTo
<1>4. n \in 0..n
  BY SMT
<1>. QED BY <1>3, <1>4 DEF Done

-----------------------------------------------------------------------------
(* Only keeps members of the set, and adds none. *)
Keep(set, q, kept, i) == IF q[i] \in set THEN Append(kept, q[i]) ELSE kept

IsOnly(g, q, set, n) ==
  g = [s \in SUBSET (1..n) |-> IF s = {} THEN <<>> ELSE Keep(set, q, g[s \ {Max(s)}], Max(s))]

LEMMA OnlyIs ==
  ASSUME NEW q, NEW set, NEW n \in Nat, DOMAIN q = 1..n
  PROVE  Only(q, set) = (CHOOSE g : IsOnly(g, q, set, n))[1..n]
  BY DEF Only, FoldLeft, MapThenFoldSet, IsOnly, Keep

LEMMA OnlyIn ==
  ASSUME NEW X, NEW q \in Seq(X), NEW set
  PROVE  Only(q, set) \in Seq(X \cap set)
<1>. DEFINE n == Len(q)
            T == Seq(X \cap set)
            F == [p \in T \X (1..n) |-> Keep(set, q, p[1], p[2])]
<1>1. n \in Nat /\ DOMAIN q = 1..n /\ <<>> \in T
  OBVIOUS
<1>2. \A x \in T, i \in 1..n : Keep(set, q, x, i) \in T
  <2>. TAKE x \in T, i \in 1..n
  <2>1. q[i] \in X
    OBVIOUS
  <2>2. CASE q[i] \in set
    <3>1. q[i] \in X \cap set
      BY <2>1, <2>2
    <3>2. Append(x, q[i]) \in T
      BY <3>1, AppendProperties
    <3>. QED BY <2>2, <3>2 DEF Keep
  <2>3. CASE q[i] \notin set
    BY <2>3 DEF Keep
  <2>. QED BY <2>2, <2>3
<1>. HIDE DEF n, T
<1>3. F \in [T \X (1..n) -> T] /\ \A x \in T, i \in 1..n : F[x, i] = Keep(set, q, x, i)
  BY <1>2
<1>. HIDE DEF F
<1>4. PICK g \in [SUBSET (1..n) -> T] : Recurs(g, <<>>, F, n)
  BY <1>1, <1>3, RecursExists
<1>5. IsOnly(g, q, set, n)
  <2>1. \A s \in SUBSET (1..n) : s # {} =>
          F[g[s \ {Max(s)}], Max(s)] = Keep(set, q, g[s \ {Max(s)}], Max(s))
    <3>. TAKE s \in SUBSET (1..n)
    <3>. HAVE s # {}
    <3>1. Max(s) \in 1..n
      BY <1>1, MaxIn
    <3>2. g[s \ {Max(s)}] \in T
      OBVIOUS
    <3>. QED BY <1>3, <3>1, <3>2
  <2>. QED BY <1>4, <2>1 DEF Recurs, IsOnly
<1>6. PICK h : IsOnly(h, q, set, n) /\ Only(q, set) = h[1..n]
  BY <1>1, <1>5, OnlyIs
<1>7. \A s \in SUBSET (1..n) : h[s] = IF s = {} THEN <<>> ELSE Keep(set, q, h[s \ {Max(s)}], Max(s))
  BY <1>6 DEF IsOnly
<1>8. \A k \in 0..(n - 1) : h[1..k] \in T => h[1..(k + 1)] \in T
  <2>. TAKE k \in 0..(n - 1)
  <2>1. k \in Nat /\ k + 1 \in 1..n /\ 1..(k + 1) \in SUBSET (1..n)
    BY <1>1, SMT
  <2>2. h[1..(k + 1)] = Keep(set, q, h[1..k], k + 1)
    BY <1>7, <2>1, MaxOfInterval
  <2>. QED BY <1>2, <2>1, <2>2
<1>9. h[{}] \in T
  BY <1>1, <1>7
<1>10. h[1..n] \in T
  BY <1>1, <1>8, <1>9, Chain
<1>. QED BY <1>6, <1>10 DEF T

-----------------------------------------------------------------------------
(* Frames handed up one after the other stay in a set closed under one.     *)
IsTaken(g, e, q, n) ==
  g = [s \in SUBSET (1..n) |-> IF s = {} THEN e ELSE on_frame(g[s \ {Max(s)}], q[Max(s)])]

LEMMA TakenIs ==
  ASSUME NEW e, NEW q, NEW n \in Nat, DOMAIN q = 1..n
  PROVE  on_frames(e, q) = (CHOOSE g : IsTaken(g, e, q, n))[1..n]
  BY DEF on_frames, FoldLeft, MapThenFoldSet, IsTaken

LEMMA TakenIn ==
  ASSUME NEW X, NEW q \in Seq(X), NEW T, NEW e \in T,
         \A x \in T, f \in X : on_frame(x, f) \in T
  PROVE  on_frames(e, q) \in T
<1>. DEFINE n == Len(q)
            F == [p \in T \X (1..n) |-> on_frame(p[1], q[p[2]])]
<1>1. n \in Nat /\ DOMAIN q = 1..n
  OBVIOUS
<1>2. \A x \in T, i \in 1..n : on_frame(x, q[i]) \in T
  OBVIOUS
<1>. HIDE DEF n
<1>3. F \in [T \X (1..n) -> T] /\ \A x \in T, i \in 1..n : F[x, i] = on_frame(x, q[i])
  BY <1>2
<1>. HIDE DEF F
<1>4. PICK g \in [SUBSET (1..n) -> T] : Recurs(g, e, F, n)
  BY <1>1, <1>3, RecursExists
<1>5. IsTaken(g, e, q, n)
  <2>1. \A s \in SUBSET (1..n) : s # {} =>
          F[g[s \ {Max(s)}], Max(s)] = on_frame(g[s \ {Max(s)}], q[Max(s)])
    <3>. TAKE s \in SUBSET (1..n)
    <3>. HAVE s # {}
    <3>1. Max(s) \in 1..n
      BY <1>1, MaxIn
    <3>2. g[s \ {Max(s)}] \in T
      OBVIOUS
    <3>. QED BY <1>3, <3>1, <3>2
  <2>. QED BY <1>4, <2>1 DEF Recurs, IsTaken
<1>6. PICK h : IsTaken(h, e, q, n) /\ on_frames(e, q) = h[1..n]
  BY <1>1, <1>5, TakenIs
<1>7. \A s \in SUBSET (1..n) : h[s] = IF s = {} THEN e ELSE on_frame(h[s \ {Max(s)}], q[Max(s)])
  BY <1>6 DEF IsTaken
<1>8. \A k \in 0..(n - 1) : h[1..k] \in T => h[1..(k + 1)] \in T
  <2>. TAKE k \in 0..(n - 1)
  <2>1. k \in Nat /\ k + 1 \in 1..n /\ 1..(k + 1) \in SUBSET (1..n)
    BY <1>1, SMT
  <2>2. h[1..(k + 1)] = on_frame(h[1..k], q[k + 1])
    BY <1>7, <2>1, MaxOfInterval
  <2>. QED BY <1>2, <2>1, <2>2
<1>9. h[{}] \in T
  BY <1>1, <1>7
<1>10. h[1..n] \in T
  BY <1>1, <1>8, <1>9, Chain
<1>. QED BY <1>6, <1>10

-----------------------------------------------------------------------------
(* The rates of a symbol rate have a highest and a lowest.                  *)
LEMMA HighestOf ==
  ASSUME NEW S \in SUBSET (1..14), S # {}
  PROVE  \E m \in S : \A x \in S : x <= m
<1>1. 14 \in Nat
  OBVIOUS
<1>2. Max(S) \in S /\ \A x \in S : Max(S) >= x
  BY <1>1, MaxIn
<1>. QED BY <1>2

LEMMA LowestOf ==
  ASSUME NEW S \in SUBSET (1..14), S # {}
  PROVE  \E m \in S : \A x \in S : x >= m
<1>. DEFINE T == {15 - x : x \in S}
<1>1. T \in SUBSET (1..14) /\ T # {}
  <2>1. \A x \in S : 15 - x \in 1..14
    BY SMT
  <2>. QED BY <2>1
<1>. HIDE DEF T
<1>2. PICK t \in T : \A y \in T : y <= t
  BY <1>1, HighestOf
<1>3. PICK m \in S : t = 15 - m
  BY DEF T
<1>4. \A x \in S : 15 - x <= 15 - m
  BY <1>2, <1>3 DEF T
<1>5. \A x \in S : x \in Int /\ m \in Int
  OBVIOUS
<1>. QED BY <1>4, <1>5, SMT

LEMMA RateFacts ==
  ASSUME NEW sr \in Srates
  PROVE  /\ rate_mask[sr] \in SUBSET (1..14) /\ rate_mask[sr] # {}
         /\ top_rate(sr) \in rate_mask[sr] /\ \A q \in rate_mask[sr] : q <= top_rate(sr)
         /\ floor_rate(sr) \in rate_mask[sr]
<1>1. rate_mask[sr] \in SUBSET (1..14) /\ rate_mask[sr] # {}
  BY RateAssumption
<1>. DEFINE S == rate_mask[sr]
<1>2. top_rate(sr) \in S /\ \A q \in S : q <= top_rate(sr)
  <2>1. \E m \in S : \A x \in S : x <= m
    BY <1>1, HighestOf
  <2>. QED BY <2>1 DEF top_rate
<1>3. floor_rate(sr) \in S
  <2>1. \E m \in S : \A x \in S : x >= m
    BY <1>1, LowestOf
  <2>. QED BY <2>1 DEF floor_rate
<1>. QED BY <1>1, <1>2, <1>3

(* A point of a session: its cap is one its symbol rate carries.            *)
LEMMA PointFacts ==
  /\ \A p \in SafePoints : p.srate \in Srates /\ p.local_max \in 1..14 /\ p.local_max <= top_rate(p.srate)
  /\ \A p \in SafePoints, n \in 1..14 :
       n <= top_rate(p.srate) => [p EXCEPT !.local_max = n] \in SafePoints
  /\ \A sr \in Srates, n \in 1..14 :
       n <= top_rate(sr) => [srate |-> sr, local_max |-> n] \in SafePoints
<1>1. \A p \in SafePoints : p.srate \in Srates /\ p.local_max \in 1..14 /\ p.local_max <= top_rate(p.srate)
  BY DEF SafePoints, Points
<1>2. ASSUME NEW p \in SafePoints, NEW n \in 1..14, n <= top_rate(p.srate)
      PROVE  [p EXCEPT !.local_max = n] \in SafePoints
  <2>1. [p EXCEPT !.local_max = n] \in Points /\ [p EXCEPT !.local_max = n].srate = p.srate
        /\ [p EXCEPT !.local_max = n].local_max = n
    BY DEF SafePoints, Points
  <2>. QED BY <1>2, <2>1, Zenon DEF SafePoints
<1>3. ASSUME NEW sr \in Srates, NEW n \in 1..14, n <= top_rate(sr)
      PROVE  [srate |-> sr, local_max |-> n] \in SafePoints
  BY <1>3 DEF SafePoints, Points
<1>. QED BY <1>1, <1>2, <1>3

-----------------------------------------------------------------------------
(* What the functions of one end's session leave and change, as far as the  *)
(* invariant reads it.                                                      *)
Says(r) == SaysMcf(r.frames) \/ SaysMcf(r.saved)

(* The same, or further on: nothing heard or said that was not before.      *)
Onward(r, x) ==
  /\ x \in Sessions
  /\ x.st = r.st \/ (r.st # "IDLE" /\ x.st \notin Beginning)
  /\ x.done = r.done \/ x.st \notin Beginning
  /\ x.rx_mode = r.rx_mode
  /\ Says(x) => Says(r)
  /\ x.gate # "" => r.gate # ""
  /\ Range(x.win) \subseteq Range(r.win)

(* A change of fields that none of this reads.                              *)
Alike(r, x) ==
  /\ x \in Sessions
  /\ x.st = r.st /\ x.done = r.done /\ x.rx_mode = r.rx_mode
  /\ x.frames = r.frames /\ x.saved = r.saved /\ x.gate = r.gate /\ x.win = r.win

LEMMA AlikeOnward ==
  ASSUME NEW r, NEW x, Alike(r, x)
  PROVE  Onward(r, x)
BY DEF Alike, Onward, Says

LEMMA AlikeAlike ==
  ASSUME NEW r, NEW x, NEW y, Alike(r, x), Alike(x, y)
  PROVE  Alike(r, y)
BY Zenon DEF Alike

LEMMA OnwardOnward ==
  ASSUME NEW r, NEW x, NEW y, Onward(r, x), Onward(x, y)
  PROVE  Onward(r, y)
BY Zenon DEF Onward

LEMMA Empty ==
  /\ <<>> \in FrameSeqs /\ {} \in FrameSets /\ ~SaysMcf(<<>>) /\ Range(<<>>) = {}
  /\ "" \in Gates /\ "" \in Pcms
BY DEF FrameSeqs, FrameSets, SaysMcf, Range, Gates, Pcms

LEMMA Fields ==
  ASSUME NEW r \in Sessions
  PROVE  /\ r.st \in SessionStates /\ r.tx_mode \in Modes /\ r.rx_mode \in Modes
         /\ r.frames \in FrameSeqs /\ r.saved \in FrameSeqs /\ r.win \in FrameSeqs
         /\ r.rx_seen \in FrameSets /\ r.gate \in Gates /\ r.pcm \in Pcms
         /\ r.ccs_state \in CcStates /\ r.pcm_rate \in Rates /\ r.last_adv \in Rates
         /\ r.remote_max \in Rates /\ r.rate_cur \in Rates /\ r.win_mph \in Rates
         /\ r.retrains \in Nat /\ r.floor_hard_fails \in Nat
         /\ {r.done, r.in_retrain, r.pri_pending, r.pre_mph, r.form_startup, r.peer_mph,
             r.data_pending, r.reneg_pending, r.holdoff, r.cc_established, r.burst_seen,
             r.pri_skip} \subseteq BOOLEAN
BY DEF Sessions

LEMMA GateOpens ==
  ASSUME NEW r \in Sessions, NEW what \in Gates, NEW mph \in Rates
  PROVE  LET x == gate_opens(r, what, mph) IN
         /\ x \in Sessions /\ x.st = r.st /\ x.done = r.done /\ x.rx_mode = r.rx_mode
         /\ x.frames = r.frames /\ x.saved = r.saved /\ x.gate = what /\ x.win = <<>>
         /\ x.ccs_state = r.ccs_state
<1>1. ASSUME NEW q \in FrameSeqs, NEW S \in FrameSets
      PROVE  LET x == [r EXCEPT !.gate = what, !.win_mph = mph, !.win = q, !.rx_seen = S,
                                !.burst_seen = FALSE] IN
             /\ x \in Sessions /\ x.st = r.st /\ x.done = r.done /\ x.rx_mode = r.rx_mode
             /\ x.frames = r.frames /\ x.saved = r.saved /\ x.gate = what /\ x.win = q
             /\ x.ccs_state = r.ccs_state
  BY DEF Sessions
<1>. QED BY <1>1, Empty DEF gate_opens

LEMMA GateShut1 ==
  ASSUME NEW r \in Sessions
  PROVE  Onward(r, gate_shut(r)) /\ Onward(r, regate(r))
<1>1. r.gate \in Gates /\ "" \in Gates /\ 0 \in Rates
  <2>1. 0 \in Rates
    BY SMT DEF Rates
  <2>. QED BY <2>1, Fields, Empty
<1>2. PICK x : x = gate_opens(r, "", 0)
  OBVIOUS
<1>3. PICK y : y = gate_opens(r, r.gate, 0)
  OBVIOUS
<1>4. /\ x \in Sessions /\ x.st = r.st /\ x.done = r.done /\ x.rx_mode = r.rx_mode
      /\ x.frames = r.frames /\ x.saved = r.saved /\ x.gate = "" /\ x.win = <<>>
  BY <1>1, <1>2, GateOpens
<1>5. /\ y \in Sessions /\ y.st = r.st /\ y.done = r.done /\ y.rx_mode = r.rx_mode
      /\ y.frames = r.frames /\ y.saved = r.saved /\ y.gate = r.gate /\ y.win = <<>>
  BY <1>1, <1>3, GateOpens
<1>6. Onward(r, x) /\ Onward(r, y)
  BY <1>4, <1>5, Empty DEF Onward, Says
<1>. QED BY <1>2, <1>3, <1>6 DEF gate_shut, regate

(* An end's own modes and queue. *)
LEMMA TxMode1 ==
  ASSUME NEW r \in Sessions, NEW mode \in Modes
  PROVE  Onward(r, set_tx_mode(r, mode))
<1>1. ASSUME NEW q \in FrameSeqs
      PROVE  LET x == [r EXCEPT !.tx_mode = mode, !.frames = q, !.pri_pending = FALSE] IN
             /\ x \in Sessions /\ x.st = r.st /\ x.done = r.done /\ x.rx_mode = r.rx_mode
             /\ x.frames = q /\ x.saved = r.saved /\ x.gate = r.gate /\ x.win = r.win
  BY DEF Sessions
<1>2. PICK q : q = IF mode = "CC" THEN <<>> ELSE r.frames
  OBVIOUS
<1>3. q \in FrameSeqs /\ (SaysMcf(q) => SaysMcf(r.frames))
  BY <1>2, Fields, Empty
<1>4. PICK x : x = [r EXCEPT !.tx_mode = mode, !.frames = q, !.pri_pending = FALSE]
  OBVIOUS
<1>5. /\ x \in Sessions /\ x.st = r.st /\ x.done = r.done /\ x.rx_mode = r.rx_mode
      /\ x.frames = q /\ x.saved = r.saved /\ x.gate = r.gate /\ x.win = r.win
  BY <1>1, <1>3, <1>4
<1>6. Onward(r, x)
  BY <1>3, <1>5 DEF Onward, Says
<1>7. set_tx_mode(r, mode) = x
  BY <1>2, <1>4 DEF set_tx_mode
<1>. QED BY <1>6, <1>7

LEMMA Queues ==
  ASSUME NEW r \in Sessions, NEW f \in ControlFrames
  PROVE  LET x == queue_frame(r, f) IN
         /\ x \in Sessions /\ x.st = r.st /\ x.done = r.done /\ x.rx_mode = r.rx_mode
         /\ x.gate = r.gate /\ x.win = r.win
         /\ Says(x) => Says(r) \/ f = "MCF"
<1>1. ASSUME NEW q \in FrameSeqs
      PROVE  LET x == [r EXCEPT !.frames = q] IN
             /\ x \in Sessions /\ x.st = r.st /\ x.done = r.done /\ x.rx_mode = r.rx_mode
             /\ x.frames = q /\ x.saved = r.saved /\ x.gate = r.gate /\ x.win = r.win
  BY DEF Sessions
<1>2. PICK q : q = Append(r.frames, f)
  OBVIOUS
<1>3. r.frames \in Seq(ControlFrames)
  BY Fields DEF FrameSeqs
<1>4. q \in FrameSeqs
  BY <1>2, <1>3 DEF FrameSeqs
<1>5. SaysMcf(q) => SaysMcf(r.frames) \/ f = "MCF"
  <2>1. /\ q \in Seq(ControlFrames) /\ Len(q) = Len(r.frames) + 1
        /\ \A i \in 1..Len(r.frames) : q[i] = r.frames[i]
        /\ q[Len(r.frames) + 1] = f
    BY <1>2, <1>3, AppendProperties
  <2>2. \A i \in 1..Len(q) : i \in 1..Len(r.frames) \/ i = Len(r.frames) + 1
    BY <1>3, <2>1, SMT
  <2>3. DOMAIN q = 1..Len(q) /\ DOMAIN r.frames = 1..Len(r.frames)
    BY <1>3, <2>1
  <2>. QED BY <2>1, <2>2, <2>3 DEF SaysMcf, Range
<1>6. PICK x : x = [r EXCEPT !.frames = q]
  OBVIOUS
<1>7. /\ x \in Sessions /\ x.st = r.st /\ x.done = r.done /\ x.rx_mode = r.rx_mode
      /\ x.frames = q /\ x.saved = r.saved /\ x.gate = r.gate /\ x.win = r.win
  BY <1>1, <1>4, <1>6
<1>8. queue_frame(r, f) = x
  BY <1>2, <1>6 DEF queue_frame
<1>. QED BY <1>5, <1>7, <1>8 DEF Says

LEMMA RxMode1 ==
  ASSUME NEW r \in Sessions, NEW mode \in Modes
  PROVE  LET x == set_rx_mode(r, mode) IN
         /\ x \in Sessions /\ x.st = r.st /\ x.done = r.done /\ x.rx_mode = mode
         /\ x.frames = r.frames /\ x.saved = r.saved
         /\ x.gate # "" => r.gate # ""
         /\ Range(x.win) \subseteq Range(r.win)
<1>. DEFINE skip == mode = "PRI" /\ (r.pri_skip \/ (r.rx_mode # "PRI" /\ r.gate # ""))
            keep == r.rx_mode = mode \/ (r.rx_mode = "STARTUP" /\ mode = "CC" /\ r.gate # "")
            r1 == IF keep THEN r ELSE regate(r)
<1>1. PICK p, q, cc : /\ p = skip /\ q = r1
                      /\ cc = IF mode = "PRI" /\ r.ccs_state = "RUN" THEN "DRAIN" ELSE q.ccs_state
  OBVIOUS
<1>2. p \in BOOLEAN
  BY <1>1
<1>3. /\ q \in Sessions /\ q.st = r.st /\ q.done = r.done /\ q.frames = r.frames /\ q.saved = r.saved
      /\ q.gate = r.gate /\ Range(q.win) \subseteq Range(r.win)
  <2>1. CASE keep
    BY <1>1, <2>1
  <2>2. CASE ~keep
    <3>1. q = gate_opens(r, r.gate, 0) /\ r.gate \in Gates /\ 0 \in Rates
      <4>1. 0 \in Rates
        BY SMT DEF Rates
      <4>. QED BY <1>1, <2>2, <4>1, Fields DEF regate
    <3>2. /\ q \in Sessions /\ q.st = r.st /\ q.done = r.done /\ q.frames = r.frames /\ q.saved = r.saved
          /\ q.gate = r.gate /\ q.win = <<>>
      BY <3>1, GateOpens
    <3>. QED BY <3>2, Empty
  <2>. QED BY <2>1, <2>2
<1>4. cc \in CcStates
  <2>1. q.ccs_state \in CcStates
    BY <1>3, Fields
  <2>. QED BY <1>1, <2>1 DEF CcStates
<1>5. PICK x : x = [q EXCEPT !.pri_skip = p, !.rx_mode = mode, !.ccs_state = cc]
  OBVIOUS
<1>6. /\ x \in Sessions /\ x.st = q.st /\ x.done = q.done /\ x.rx_mode = mode
      /\ x.frames = q.frames /\ x.saved = q.saved /\ x.gate = q.gate /\ x.win = q.win
  BY <1>2, <1>3, <1>4, <1>5 DEF Sessions
<1>7. set_rx_mode(r, mode) = x
  BY <1>1, <1>5 DEF set_rx_mode
<1>. QED BY <1>3, <1>6, <1>7

(* One field. *)
LEMMA Set1 ==
  ASSUME NEW r \in Sessions
  PROVE  /\ \A b \in BOOLEAN :
              /\ Alike(r, [r EXCEPT !.pri_pending = b]) /\ Alike(r, [r EXCEPT !.pri_skip = b])
              /\ Alike(r, [r EXCEPT !.data_pending = b]) /\ Alike(r, [r EXCEPT !.holdoff = b])
              /\ Alike(r, [r EXCEPT !.burst_seen = b])
              /\ Alike(r, [r EXCEPT !.reneg_pending = b])
         /\ \A c \in CcStates : Alike(r, [r EXCEPT !.ccs_state = c])
         /\ \A p \in Pcms : Alike(r, [r EXCEPT !.pcm = p])
         /\ \A n \in Rates : Alike(r, [r EXCEPT !.rate_cur = n]) /\ Alike(r, [r EXCEPT !.win_mph = n])
         /\ \A n \in Nat : Alike(r, [r EXCEPT !.floor_hard_fails = n])
<1>1. ASSUME NEW b \in BOOLEAN
      PROVE  /\ Alike(r, [r EXCEPT !.pri_pending = b]) /\ Alike(r, [r EXCEPT !.pri_skip = b])
             /\ Alike(r, [r EXCEPT !.data_pending = b]) /\ Alike(r, [r EXCEPT !.holdoff = b])
             /\ Alike(r, [r EXCEPT !.burst_seen = b])
             /\ Alike(r, [r EXCEPT !.reneg_pending = b])
  <2>1. Alike(r, [r EXCEPT !.pri_pending = b]) /\ Alike(r, [r EXCEPT !.pri_skip = b])
    BY DEF Alike, Sessions
  <2>2. Alike(r, [r EXCEPT !.data_pending = b]) /\ Alike(r, [r EXCEPT !.holdoff = b])
    BY DEF Alike, Sessions
  <2>3. Alike(r, [r EXCEPT !.burst_seen = b]) /\ Alike(r, [r EXCEPT !.reneg_pending = b])
    BY DEF Alike, Sessions
  <2>. QED BY <2>1, <2>2, <2>3
<1>2. ASSUME NEW c \in CcStates PROVE Alike(r, [r EXCEPT !.ccs_state = c])
  BY DEF Alike, Sessions
<1>3. ASSUME NEW p \in Pcms PROVE Alike(r, [r EXCEPT !.pcm = p])
  BY DEF Alike, Sessions
<1>4. ASSUME NEW n \in Rates
      PROVE  Alike(r, [r EXCEPT !.rate_cur = n]) /\ Alike(r, [r EXCEPT !.win_mph = n])
  BY DEF Alike, Sessions
<1>5. ASSUME NEW n \in Nat PROVE Alike(r, [r EXCEPT !.floor_hard_fails = n])
  BY DEF Alike, Sessions
<1>. QED BY <1>1, <1>2, <1>3, <1>4, <1>5

(* The held control channel. *)
LEMMA CcsReset1 ==
  ASSUME NEW r \in Sessions
  PROVE  Alike(r, ccs_reset(r))
<1>1. "OFF" \in CcStates
  BY DEF CcStates
<1>2. ASSUME NEW c \in CcStates
      PROVE  Alike(r, [r EXCEPT !.ccs_state = c, !.data_pending = FALSE, !.pre_mph = FALSE,
                                !.form_startup = FALSE, !.peer_mph = FALSE])
  BY DEF Alike, Sessions
<1>. QED BY <1>1, <1>2 DEF ccs_reset

LEMMA CcsForm1 ==
  ASSUME NEW r \in Sessions, NEW c \in CcStates, NEW b \in BOOLEAN, NEW z \in Rates,
         NEW d \in BOOLEAN
  PROVE  Alike(r, [r EXCEPT !.ccs_state = c, !.pre_mph = b, !.form_startup = b,
                            !.last_adv = z, !.reneg_pending = d])
<1>1. PICK x : x = [r EXCEPT !.ccs_state = c, !.pre_mph = b, !.form_startup = b,
                             !.last_adv = z, !.reneg_pending = d]
  OBVIOUS
<1>2. /\ x.st = r.st /\ x.done = r.done /\ x.rx_mode = r.rx_mode
      /\ x.frames = r.frames /\ x.saved = r.saved /\ x.gate = r.gate /\ x.win = r.win
  BY <1>1 DEF Sessions
<1>3. x \in Sessions
  <2>1. CASE b = TRUE /\ d = TRUE
    BY <1>1, <2>1 DEF Sessions
  <2>2. CASE b = TRUE /\ d = FALSE
    BY <1>1, <2>2 DEF Sessions
  <2>3. CASE b = FALSE /\ d = TRUE
    BY <1>1, <2>3 DEF Sessions
  <2>4. CASE b = FALSE /\ d = FALSE
    BY <1>1, <2>4 DEF Sessions
  <2>. QED BY <2>1, <2>2, <2>3, <2>4
<1>. QED BY <1>1, <1>2, <1>3 DEF Alike

LEMMA CcsBegin1 ==
  ASSUME NEW r \in Sessions, NEW pt \in SafePoints, NEW startup \in BOOLEAN
  PROVE  Alike(r, ccs_begin(r, pt, startup))
<1>1. PICK q : q = ccs_reset(r)
  OBVIOUS
<1>2. Alike(r, q) /\ q \in Sessions
  BY <1>1, CcsReset1 DEF Alike
<1>3. PICK adv : adv = IF use_sh(r, pt, startup) THEN q.last_adv ELSE pt.local_max
  OBVIOUS
<1>4. adv \in Rates
  <2>1. q.last_adv \in Rates
    BY <1>2, Fields
  <2>2. pt.local_max \in 1..14
    BY PointFacts
  <2>3. pt.local_max \in Rates
    BY <2>2, SMT DEF Rates
  <2>. QED BY <1>3, <2>1, <2>3
<1>5. PICK b : b = (q.reneg_pending /\ ~startup)
  OBVIOUS
<1>6. b \in BOOLEAN
  BY <1>5
<1>7. "RUN" \in CcStates
  BY DEF CcStates
<1>8. PICK x : x = [q EXCEPT !.ccs_state = "RUN", !.pre_mph = startup, !.form_startup = startup,
                             !.last_adv = adv, !.reneg_pending = b]
  OBVIOUS
<1>9. Alike(q, x)
  BY <1>2, <1>4, <1>6, <1>7, <1>8, CcsForm1
<1>10. ccs_begin(r, pt, startup) = x
  BY <1>1, <1>3, <1>5, <1>8 DEF ccs_begin
<1>. QED BY <1>2, <1>9, <1>10, AlikeAlike

LEMMA AppendFrames1 ==
  ASSUME NEW r \in Sessions
  PROVE  Onward(r, append_frames(r))
<1>1. ASSUME NEW q \in FrameSeqs, NEW o \in FrameSeqs
      PROVE  LET x == [r EXCEPT !.saved = q, !.frames = o, !.data_pending = TRUE] IN
             /\ x \in Sessions /\ x.st = r.st /\ x.done = r.done /\ x.rx_mode = r.rx_mode
             /\ x.frames = o /\ x.saved = q /\ x.gate = r.gate /\ x.win = r.win
  BY DEF Sessions
<1>2. r.frames \in FrameSeqs
  BY Fields
<1>3. PICK x : x = append_frames(r)
  OBVIOUS
<1>4. /\ x \in Sessions /\ x.st = r.st /\ x.done = r.done /\ x.rx_mode = r.rx_mode
      /\ x.frames = <<>> /\ x.saved = r.frames /\ x.gate = r.gate /\ x.win = r.win
  BY <1>1, <1>2, <1>3, Empty DEF append_frames
<1>5. Onward(r, x)
  BY <1>4, Empty DEF Onward, Says
<1>. QED BY <1>3, <1>5

LEMMA Restart1 ==
  ASSUME NEW r \in Sessions, NEW pt \in SafePoints
  PROVE  Onward(r, restart(r, pt)) /\ restart(r, pt).st = r.st
<1>1. ASSUME NEW q \in FrameSeqs
      PROVE  LET x == [r EXCEPT !.frames = q] IN
             /\ x \in Sessions /\ x.st = r.st /\ x.done = r.done /\ x.rx_mode = r.rx_mode
             /\ x.frames = q /\ x.saved = r.saved /\ x.gate = r.gate /\ x.win = r.win
  BY DEF Sessions
<1>2. PICK q : q = IF r.frames = <<>> THEN r.saved ELSE r.frames
  OBVIOUS
<1>3. q \in FrameSeqs /\ (SaysMcf(q) => Says(r))
  BY <1>2, Fields DEF Says
<1>4. PICK x : x = [r EXCEPT !.frames = q]
  OBVIOUS
<1>5. /\ x \in Sessions /\ x.st = r.st /\ x.done = r.done /\ x.rx_mode = r.rx_mode
      /\ x.frames = q /\ x.saved = r.saved /\ x.gate = r.gate /\ x.win = r.win
  BY <1>1, <1>3, <1>4
<1>6. Onward(r, x)
  BY <1>3, <1>5 DEF Onward, Says
<1>7. PICK y : y = ccs_begin(x, pt, TRUE)
  OBVIOUS
<1>8. Alike(x, y)
  BY <1>5, <1>7, CcsBegin1
<1>9. Onward(r, y) /\ y.st = r.st
  BY <1>5, <1>6, <1>8, AlikeOnward, OnwardOnward DEF Alike
<1>10. restart(r, pt) = y
  BY <1>2, <1>4, <1>7 DEF restart
<1>. QED BY <1>9, <1>10

LEMMA Interlock1 ==
  ASSUME NEW r \in Sessions
  PROVE  Alike(r, interlock(r))
BY DEF Alike, Sessions, interlock

(* Rates. *)
LEMMA PickRate1 ==
  ASSUME NEW r \in Sessions, NEW pt \in SafePoints
  PROVE  Alike(r, pick_rate(r, pt))
<1>. DEFINE ok == {n \in rate_mask[pt.srate] :
                     n <= pt.local_max /\ (r.remote_max > 0 => n <= r.remote_max)}
<1>1. PICK n : n = IF ok = {} THEN floor_rate(pt.srate) ELSE CHOOSE x \in ok : \A m \in ok : m <= x
  OBVIOUS
<1>2. rate_mask[pt.srate] \in SUBSET (1..14) /\ floor_rate(pt.srate) \in rate_mask[pt.srate]
  BY PointFacts, RateFacts
<1>3. ok \in SUBSET (1..14)
  BY <1>2
<1>. HIDE DEF ok
<1>4. n \in 1..14
  <2>1. CASE ok = {}
    BY <1>1, <1>2, <2>1
  <2>2. CASE ok # {}
    <3>1. \E x \in ok : \A m \in ok : m <= x
      BY <1>3, <2>2, HighestOf
    <3>2. n \in ok
      BY <1>1, <2>2, <3>1
    <3>. QED BY <1>3, <3>2
  <2>. QED BY <2>1, <2>2
<1>5. n \in Rates
  BY <1>4, SMT DEF Rates
<1>6. pick_rate(r, pt) = [r EXCEPT !.rate_cur = n]
  BY <1>1 DEF pick_rate, ok
<1>. QED BY <1>5, <1>6, Set1

Reported(r, st, b, n) ==
  [r EXCEPT !.done = TRUE, !.st = st, !.cc_established = b, !.in_retrain = FALSE,
            !.floor_hard_fails = n]

LEMMA Reported1 ==
  ASSUME NEW r \in Sessions, NEW st \in SessionStates, NEW b \in BOOLEAN, NEW n \in Nat
  PROVE  LET x == Reported(r, st, b, n) IN
         /\ x \in Sessions /\ x.st = st /\ x.rx_mode = r.rx_mode
         /\ x.frames = r.frames /\ x.saved = r.saved /\ x.gate = r.gate /\ x.win = r.win
<1>1. PICK x : x = Reported(r, st, b, n)
  OBVIOUS
<1>2. x \in Sessions
  BY <1>1 DEF Sessions, Reported
<1>3. /\ x.st = st /\ x.rx_mode = r.rx_mode
      /\ x.frames = r.frames /\ x.saved = r.saved /\ x.gate = r.gate /\ x.win = r.win
  BY <1>1 DEF Sessions, Reported
<1>. QED BY <1>1, <1>2, <1>3

LEMMA Report1 ==
  ASSUME NEW r \in Sessions, r.st # "IDLE", NEW ok \in BOOLEAN
  PROVE  Onward(r, report_v34(r, ok))
<1>1. CASE r.done
  BY <1>1 DEF report_v34, Onward
<1>2. CASE ~r.done
  <2>2. PICK st, b, n : /\ st = IF ok THEN "DONE" ELSE "FAILED"
                        /\ b = (r.cc_established \/ ok)
                        /\ n = IF ok THEN 0 ELSE r.floor_hard_fails
    OBVIOUS
  <2>3. st \in SessionStates /\ st \notin Beginning /\ b \in BOOLEAN /\ n \in Nat
    <3>1. r.floor_hard_fails \in Nat
      BY Fields
    <3>. QED BY <2>2, <3>1 DEF SessionStates, Beginning
  <2>4. PICK x : x = Reported(r, st, b, n)
    OBVIOUS
  <2>5. /\ x \in Sessions /\ x.st = st /\ x.rx_mode = r.rx_mode
        /\ x.frames = r.frames /\ x.saved = r.saved /\ x.gate = r.gate /\ x.win = r.win
    BY <2>3, <2>4, Reported1
  <2>6. Onward(r, x)
    BY <2>3, <2>5 DEF Onward, Says
  <2>7. report_v34(r, ok) = x
    BY <1>2, <2>2, <2>4 DEF report_v34, Reported
  <2>. QED BY <2>6, <2>7
<1>. QED BY <1>1, <1>2

(* The frames an end captures and hands up. *)
LEMMA OnlyRange ==
  ASSUME NEW q \in FrameSeqs, NEW set
  PROVE  Only(q, set) \in FrameSeqs /\ Range(Only(q, set)) \subseteq Range(q)
<1>1. q \in Seq(ControlFrames)
  BY DEF FrameSeqs
<1>2. PICK R : R = Range(q)
  OBVIOUS
<1>3. R \subseteq ControlFrames /\ q \in Seq(R)
  <2>1. \A i \in 1..Len(q) : q[i] \in R /\ q[i] \in ControlFrames
    BY <1>1, <1>2 DEF Range
  <2>2. Len(q) \in Nat /\ DOMAIN q = 1..Len(q) /\ q = [i \in 1..Len(q) |-> q[i]]
    BY <1>1
  <2>. QED BY <1>2, <2>1, <2>2, SeqDef DEF Range
<1>4. PICK o : o = Only(q, set)
  OBVIOUS
<1>5. o \in Seq(R \cap set) /\ R \cap set \subseteq ControlFrames
  BY <1>3, <1>4, OnlyIn
<1>6. Len(o) \in Nat /\ DOMAIN o = 1..Len(o) /\ \A i \in 1..Len(o) : o[i] \in R \cap set
  BY <1>5
<1>7. o \in Seq(ControlFrames)
  BY <1>5, <1>6, SeqDef
<1>8. Range(o) \subseteq R
  BY <1>6 DEF Range
<1>. QED BY <1>2, <1>4, <1>7, <1>8 DEF FrameSeqs

LEMMA HandUp1 ==
  ASSUME NEW r \in Sessions, NEW got \in FrameSets
  PROVE  Onward(r, hand_up(r, got)) /\ hand_up(r, got).st = r.st
<1>1. ASSUME NEW q \in FrameSeqs, NEW S \in FrameSets
      PROVE  LET x == [r EXCEPT !.win = q, !.rx_seen = S] IN
             /\ x \in Sessions /\ x.st = r.st /\ x.done = r.done /\ x.rx_mode = r.rx_mode
             /\ x.frames = r.frames /\ x.saved = r.saved /\ x.gate = r.gate /\ x.win = q
  BY DEF Sessions
<1>2. PICK q, S : q = Only(r.win, Range(r.win) \ got) /\ S = r.rx_seen \cup got
  OBVIOUS
<1>3. q \in FrameSeqs /\ Range(q) \subseteq Range(r.win)
  BY <1>2, Fields, OnlyRange
<1>4. S \in FrameSets
  BY <1>2, Fields DEF FrameSets
<1>5. PICK x : x = [r EXCEPT !.win = q, !.rx_seen = S]
  OBVIOUS
<1>6. /\ x \in Sessions /\ x.st = r.st /\ x.done = r.done /\ x.rx_mode = r.rx_mode
      /\ x.frames = r.frames /\ x.saved = r.saved /\ x.gate = r.gate /\ x.win = q
  BY <1>1, <1>3, <1>4, <1>5
<1>7. Onward(r, x)
  BY <1>3, <1>6 DEF Onward, Says
<1>8. hand_up(r, got) = x
  BY <1>2, <1>5 DEF hand_up
<1>. QED BY <1>6, <1>7, <1>8

(* A peer's session while this end acts: it only hears.                     *)
Hears(r, x, q) ==
  /\ x \in Sessions /\ x.st = r.st /\ x.done = r.done /\ x.rx_mode = r.rx_mode
  /\ x.frames = r.frames /\ x.saved = r.saved
  /\ Range(x.win) \subseteq Range(r.win) \cup Range(q)

LEMMA Captured1 ==
  ASSUME NEW r \in Sessions, NEW frames \in FrameSeqs
  PROVE  Hears(r, captured(r, frames), frames) /\ captured(r, frames).gate = r.gate
<1>1. ASSUME NEW q \in FrameSeqs
      PROVE  LET x == [r EXCEPT !.win = q] IN
             /\ x \in Sessions /\ x.st = r.st /\ x.done = r.done /\ x.rx_mode = r.rx_mode
             /\ x.frames = r.frames /\ x.saved = r.saved /\ x.gate = r.gate /\ x.win = q
  BY DEF Sessions
<1>2. PICK o : o = Only(frames, Range(frames) \ (r.rx_seen \cup Range(r.win)))
  OBVIOUS
<1>3. o \in FrameSeqs /\ Range(o) \subseteq Range(frames) /\ r.win \in FrameSeqs
  BY <1>2, Fields, OnlyRange
<1>4. PICK q : q = r.win \o o
  OBVIOUS
<1>5. q \in FrameSeqs /\ Range(q) \subseteq Range(r.win) \cup Range(frames)
  <2>1. r.win \in Seq(ControlFrames) /\ o \in Seq(ControlFrames)
    BY <1>3 DEF FrameSeqs
  <2>2. /\ q \in Seq(ControlFrames) /\ Len(q) = Len(r.win) + Len(o)
        /\ \A i \in 1..Len(q) : q[i] = IF i <= Len(r.win) THEN r.win[i] ELSE o[i - Len(r.win)]
    BY <1>4, <2>1, ConcatProperties
  <2>3. /\ DOMAIN q = 1..Len(q) /\ DOMAIN o = 1..Len(o) /\ DOMAIN r.win = 1..Len(r.win)
        /\ Len(o) \in Nat /\ Len(r.win) \in Nat
    BY <2>1, <2>2
  <2>4. \A i \in 1..Len(q) :
          IF i <= Len(r.win) THEN i \in 1..Len(r.win) ELSE i - Len(r.win) \in 1..Len(o)
    BY <2>2, <2>3, SMT
  <2>5. \A i \in DOMAIN q : q[i] \in Range(r.win) \cup Range(o)
    BY <2>2, <2>3, <2>4 DEF Range
  <2>6. Range(q) \subseteq Range(r.win) \cup Range(o)
    BY <2>5 DEF Range
  <2>. QED BY <1>3, <2>2, <2>6 DEF FrameSeqs
<1>6. PICK x : x = [r EXCEPT !.win = q]
  OBVIOUS
<1>7. /\ x \in Sessions /\ x.st = r.st /\ x.done = r.done /\ x.rx_mode = r.rx_mode
      /\ x.frames = r.frames /\ x.saved = r.saved /\ x.gate = r.gate /\ x.win = q
  BY <1>1, <1>5, <1>6
<1>8. captured(r, frames) = x
  BY <1>2, <1>4, <1>6 DEF captured
<1>. QED BY <1>5, <1>7, <1>8 DEF Hears

LEMMA Onto1 ==
  ASSUME NEW r \in Sessions, NEW what \in Gates, NEW mph \in Rates, NEW q
  PROVE  Hears(r, Onto(r, what, mph), q) /\ Hears(r, gate_opens(r, what, mph), q)
<1>1. Hears(r, gate_opens(r, what, mph), q)
  <2>1. PICK x : x = gate_opens(r, what, mph)
    OBVIOUS
  <2>2. /\ x \in Sessions /\ x.st = r.st /\ x.done = r.done /\ x.rx_mode = r.rx_mode
        /\ x.frames = r.frames /\ x.saved = r.saved /\ x.win = <<>>
    BY <2>1, GateOpens
  <2>3. Hears(r, x, q)
    BY <2>2, Empty DEF Hears
  <2>. QED BY <2>1, <2>3
<1>2. ASSUME r.gate # "" PROVE Hears(r, Onto(r, what, mph), q)
  <2>1. ASSUME NEW n \in Rates
        PROVE  LET x == [r EXCEPT !.gate = what, !.win_mph = n] IN
               /\ x \in Sessions /\ x.st = r.st /\ x.done = r.done /\ x.rx_mode = r.rx_mode
               /\ x.frames = r.frames /\ x.saved = r.saved /\ x.win = r.win
    BY DEF Sessions
  <2>2. PICK n : n = IF mph > 0 THEN mph ELSE r.win_mph
    OBVIOUS
  <2>3. n \in Rates
    BY <2>2, Fields
  <2>4. PICK x : x = [r EXCEPT !.gate = what, !.win_mph = n]
    OBVIOUS
  <2>5. /\ x \in Sessions /\ x.st = r.st /\ x.done = r.done /\ x.rx_mode = r.rx_mode
        /\ x.frames = r.frames /\ x.saved = r.saved /\ x.win = r.win
    BY <2>1, <2>3, <2>4
  <2>6. Hears(r, x, q)
    BY <2>5 DEF Hears
  <2>7. Onto(r, what, mph) = x
    BY <1>2, <2>2, <2>4 DEF Onto
  <2>. QED BY <2>6, <2>7
<1>3. r.gate = "" => Onto(r, what, mph) = gate_opens(r, what, mph)
  BY DEF Onto
<1>. QED BY <1>1, <1>2, <1>3

LEMMA AlikeHears ==
  ASSUME NEW r, NEW x, NEW q, Alike(r, x)
  PROVE  Hears(r, x, q) /\ x.gate = r.gate
BY DEF Alike, Hears

Retrained(r, n, z, st, p) ==
  [r EXCEPT !.retrains = n, !.done = FALSE, !.cc_established = FALSE, !.last_adv = z,
            !.floor_hard_fails = 0, !.in_retrain = TRUE, !.st = st, !.pcm = p]

LEMMA Retrained1 ==
  ASSUME NEW r \in Sessions, NEW n \in Nat, NEW z \in Rates, NEW st \in SessionStates,
         NEW p \in Pcms
  PROVE  LET x == Retrained(r, n, z, st, p) IN
         /\ x \in Sessions /\ x.st = st /\ x.rx_mode = r.rx_mode /\ x.frames = r.frames
         /\ x.saved = r.saved /\ x.gate = r.gate /\ x.win = r.win
<1>1. PICK x : x = Retrained(r, n, z, st, p)
  OBVIOUS
<1>2. x \in Sessions
  BY <1>1 DEF Sessions, Retrained
<1>3. /\ x.st = st /\ x.rx_mode = r.rx_mode /\ x.frames = r.frames
      /\ x.saved = r.saved /\ x.gate = r.gate /\ x.win = r.win
  BY <1>1 DEF Sessions, Retrained
<1>. QED BY <1>1, <1>2, <1>3

(* A retrain: Phase 2 again, and nothing heard any more.                    *)
LEMMA Retrain1 ==
  ASSUME NEW r \in Sessions
  PROVE  LET x == retrain(r) IN
         /\ x \in Sessions /\ x.rx_mode = r.rx_mode
         /\ x.st = "IDLE" => r.st = "IDLE"
         /\ Says(x) => Says(r)
         /\ x.gate # "" => r.gate # ""
         /\ Range(x.win) \subseteq Range(r.win)
<1>1. CASE r.retrains >= MaxRetrains
  BY <1>1 DEF retrain
<1>2. CASE ~(r.retrains >= MaxRetrains)
  <2>1. PICK o, q : o = ccs_reset(r) /\ q = gate_opens(o, "", 0)
    OBVIOUS
  <2>2. Alike(r, o) /\ o \in Sessions
    BY <2>1, CcsReset1 DEF Alike
  <2>3. 0 \in Rates
    BY SMT DEF Rates
  <2>4. /\ q \in Sessions /\ q.rx_mode = r.rx_mode /\ q.frames = r.frames
        /\ q.saved = r.saved /\ q.gate = "" /\ q.win = <<>>
    BY <2>1, <2>2, <2>3, GateOpens, Empty DEF Alike
  <2>6. PICK n : n = q.retrains + 1
    OBVIOUS
  <2>7. n \in Nat /\ "START" \in SessionStates
    <3>1. q.retrains \in Nat
      BY <2>4, Fields
    <3>. QED BY <2>6, <3>1 DEF SessionStates
  <2>8. PICK x : x = Retrained(q, n, 0, "START", "")
    OBVIOUS
  <2>9. /\ x \in Sessions /\ x.st = "START" /\ x.rx_mode = q.rx_mode /\ x.frames = q.frames
        /\ x.saved = q.saved /\ x.gate = q.gate /\ x.win = q.win
    <3>1. PICK st : st = "START"
      OBVIOUS
    <3>2. x = Retrained(q, n, 0, st, "")
      BY <2>8, <3>1
    <3>3. /\ x \in Sessions /\ x.st = st /\ x.rx_mode = q.rx_mode /\ x.frames = q.frames
          /\ x.saved = q.saved /\ x.gate = q.gate /\ x.win = q.win
      <4>1. st \in SessionStates /\ "" \in Pcms /\ q \in Sessions /\ n \in Nat /\ 0 \in Rates
        BY <2>3, <2>4, <2>7, <3>1, Empty
      <4>2. LET y == Retrained(q, n, 0, st, "") IN
            /\ y \in Sessions /\ y.st = st /\ y.rx_mode = q.rx_mode /\ y.frames = q.frames
            /\ y.saved = q.saved /\ y.gate = q.gate /\ y.win = q.win
        BY <4>1, Retrained1, Zenon
      <4>. QED BY <3>2, <4>2, Zenon
    <3>. QED BY <3>1, <3>3
  <2>10. retrain(r) = x
    BY <1>2, <2>1, <2>6, <2>8 DEF retrain, gate_shut, Retrained
  <2>. QED BY <2>4, <2>9, <2>10, Empty DEF Says
<1>. QED BY <1>1, <1>2

-----------------------------------------------------------------------------
(* What a step of T.30 and V.34 does to one whole end.                      *)

(* told: the caller may have heard MCF.                                     *)
EngineMoves(s, t, u, told) ==
  /\ u \in Engines /\ u.sub \in SubsOf(s)
  /\ t.sub = "DONE" => u.sub = "DONE"
  /\ s = "C" => (Confirmed(u) => Confirmed(t) \/ told)
  /\ s = "A" => (Delivered(t) => Delivered(u)) /\ Acked(u)

SessionMoves(s, r, x, u) ==
  /\ x \in Sessions
  /\ x.gate # "" => r.gate # ""
  /\ Range(x.win) \subseteq Range(r.win)
  /\ s = "C" => /\ x.rx_mode # "PRI" /\ (x.done => x.st \notin Beginning)
                /\ x.st = "START" => r.st = "START"
                /\ r.st = "IDLE" => x.st = "IDLE"
                /\ r.st \notin Beginning => x.st \notin Beginning \/ u.sub = "DONE"
  /\ s = "A" => /\ Says(x) => Says(r) \/ Delivered(u)
                /\ x.st = "IDLE" => r.st = "IDLE" \/ u.sub = "DONE"

Moves(s, a, b, told) ==
  /\ b = [ss |-> b.ss, pt |-> b.pt, t |-> b.t]
  /\ b.pt \in SafePoints /\ b.pt.srate = a.pt.srate
  /\ EngineMoves(s, a.t, b.t, told) /\ SessionMoves(s, a.ss, b.ss, b.t)

LEMMA EndIs ==
  ASSUME NEW s, NEW e, EndOk(s, e)
  PROVE  /\ e = [ss |-> e.ss, pt |-> e.pt, t |-> e.t]
         /\ e.ss \in Sessions /\ e.pt \in SafePoints /\ e.t \in Engines
BY DEF EndOk, EndRecords

LEMMA MovesOk ==
  ASSUME NEW s, NEW a, NEW b, NEW told, Moves(s, a, b, told)
  PROVE  EndOk(s, b)
<1>1. b \in EndRecords
  BY DEF Moves, EngineMoves, SessionMoves, EndRecords
<1>. QED BY <1>1 DEF Moves, EngineMoves, SessionMoves, EndOk

LEMMA MovesSelf ==
  ASSUME NEW s, NEW e, NEW told, EndOk(s, e)
  PROVE  Moves(s, e, e, told)
<1>1. EngineMoves(s, e.t, e.t, told)
  BY EndIs DEF EngineMoves, EndOk
<1>2. SessionMoves(s, e.ss, e.ss, e.t)
  BY EndIs DEF SessionMoves, EndOk
<1>. QED BY <1>1, <1>2, EndIs DEF Moves

LEMMA MovesMoves ==
  ASSUME NEW s, NEW a, NEW b, NEW c, NEW told, Moves(s, a, b, told), Moves(s, b, c, told)
  PROVE  Moves(s, a, c, told)
<1>1. EngineMoves(s, a.t, c.t, told)
  BY Zenon DEF Moves, EngineMoves
<1>2. SessionMoves(s, a.ss, c.ss, c.t)
  <2>1. Delivered(b.t) /\ s = "A" => Delivered(c.t)
    BY Zenon DEF Moves, EngineMoves
  <2>2. b.t.sub = "DONE" => c.t.sub = "DONE"
    BY Zenon DEF Moves, EngineMoves
  <2>3. SessionMoves(s, a.ss, b.ss, b.t) /\ SessionMoves(s, b.ss, c.ss, c.t)
    BY Zenon DEF Moves
  <2>. QED BY <2>1, <2>2, <2>3, Zenon DEF SessionMoves
<1>3. c.pt.srate = a.pt.srate
  BY Zenon DEF Moves
<1>. QED BY <1>1, <1>2, <1>3, Zenon DEF Moves

(* An end's record, field by field. *)
LEMMA Put ==
  ASSUME NEW e, NEW r, NEW p, NEW t, e = [ss |-> r, pt |-> p, t |-> t], NEW x
  PROVE  /\ e.ss = r /\ e.pt = p /\ e.t = t
         /\ [e EXCEPT !.ss = x] = [ss |-> x, pt |-> p, t |-> t]
         /\ [e EXCEPT !.pt = x] = [ss |-> r, pt |-> x, t |-> t]
         /\ [e EXCEPT !.t = x] = [ss |-> r, pt |-> p, t |-> x]
<1>1. PICK R, P, T : R = {r} /\ P = {p} /\ T = {t}
  OBVIOUS
<1>2. e \in [ss : R, pt : P, t : T] /\ e.ss = r /\ e.pt = p /\ e.t = t
  BY <1>1
<1>3. [e EXCEPT !.ss = x] = [ss |-> x, pt |-> p, t |-> t]
  BY <1>2
<1>4. [e EXCEPT !.pt = x] = [ss |-> r, pt |-> x, t |-> t]
  BY <1>2
<1>5. [e EXCEPT !.t = x] = [ss |-> r, pt |-> p, t |-> x]
  BY <1>2
<1>. QED BY <1>2, <1>3, <1>4, <1>5

LEMMA PutT ==
  ASSUME NEW R, NEW P, NEW T, NEW e \in [ss : R, pt : P, t : T], NEW x
  PROVE  [e EXCEPT !.t = x] = [ss |-> e.ss, pt |-> e.pt, t |-> x]
OBVIOUS

LEMMA ToIs ==
  ASSUME NEW e, NEW r, NEW p, NEW t, e = [ss |-> r, pt |-> p, t |-> t], NEW sub, NEW u,
         u = [t EXCEPT !.sub = sub]
  PROVE  to(e, sub) = [ss |-> r, pt |-> p, t |-> u]
<1>1. e.t = t
  OBVIOUS
<1>2. [e EXCEPT !.t = u] = [ss |-> r, pt |-> p, t |-> u]
  <2>1. [e EXCEPT !.t = u] = [ss |-> e.ss, pt |-> e.pt, t |-> u]
    <3>1. PICK R, P, T : R = {r} /\ P = {p} /\ T = {t}
      OBVIOUS
    <3>2. e \in [ss : R, pt : P, t : T]
      BY <3>1
    <3>. QED BY <3>2, PutT
  <2>. QED BY <2>1
<1>3. to(e, sub) = [e EXCEPT !.t = u]
  BY <1>1 DEF to
<1>. QED BY <1>2, <1>3

(* Only the session changes. *)
LEMMA SessionOnly ==
  ASSUME NEW s \in Sides, NEW e, NEW told, EndOk(s, e), NEW x, Onward(e.ss, x)
  PROVE  Moves(s, e, [e EXCEPT !.ss = x], told)
<1>1. PICK b : b = [ss |-> x, pt |-> e.pt, t |-> e.t]
  OBVIOUS
<1>2. b.ss = x /\ b.pt = e.pt /\ b.t = e.t /\ b = [ss |-> b.ss, pt |-> b.pt, t |-> b.t]
  BY <1>1
<1>3. EngineMoves(s, e.t, e.t, told)
  BY EndIs DEF EngineMoves, EndOk
<1>4. SessionMoves(s, e.ss, x, e.t)
  BY EndIs DEF SessionMoves, EndOk, Onward, Beginning
<1>5. Moves(s, e, b, told)
  BY <1>2, <1>3, <1>4, EndIs, Zenon DEF Moves
<1>6. [e EXCEPT !.ss = x] = b
  BY <1>1, EndIs
<1>. QED BY <1>5, <1>6

(* The engine changes, and the session on. *)
LEMMA SessionAndEngine ==
  ASSUME NEW s \in Sides, NEW e, NEW told, EndOk(s, e), NEW x, NEW u,
         EngineMoves(s, e.t, u, told), SessionMoves(s, e.ss, x, u)
  PROVE  Moves(s, e, [ss |-> x, pt |-> e.pt, t |-> u], told)
<1>1. PICK b : b = [ss |-> x, pt |-> e.pt, t |-> u]
  OBVIOUS
<1>2. b.ss = x /\ b.pt = e.pt /\ b.t = u /\ b = [ss |-> b.ss, pt |-> b.pt, t |-> b.t]
  BY <1>1
<1>3. Moves(s, e, b, told)
  BY <1>2, EndIs, Zenon DEF Moves
<1>. QED BY <1>1, <1>3

LEMMA SubMoves ==
  ASSUME NEW s \in Sides, NEW t \in Engines, NEW told, NEW sub \in SubsOf(s),
         t.sub # "DONE",
         s = "C" => (sub = "C_SEND_DCN" => Confirmed(t) \/ told),
         s = "A" => /\ Delivered(t) => Delivered([t EXCEPT !.sub = sub])
                    /\ Acked([t EXCEPT !.sub = sub])
  PROVE  EngineMoves(s, t, [t EXCEPT !.sub = sub], told)
<1>1. sub \in Substates
  BY DEF SubsOf, CallerSubs, AnswererSubs, Substates, Waiting
<1>2. PICK u : u = [t EXCEPT !.sub = sub]
  OBVIOUS
<1>3. u \in Engines /\ u.sub = sub /\ u.result = t.result
  BY <1>1, <1>2 DEF Engines
<1>4. EngineMoves(s, t, u, told)
  BY <1>2, <1>3 DEF EngineMoves, Confirmed
<1>. QED BY <1>2, <1>4

(* A control frame is queued: for the answerer, MCF only of a delivered block.*)
LEMMA SendMoves ==
  ASSUME NEW s \in Sides, NEW e, NEW told, EndOk(s, e), e.t.sub # "DONE",
         NEW f \in ControlFrames, NEW sub \in SubsOf(s),
         s = "C" => (sub = "C_SEND_DCN" => Confirmed(e.t) \/ told),
         s = "A" => /\ Delivered(e.t) => sub \in {"A_SEND_ECM_MCF", "A_REACK"}
                    /\ f = "MCF" => sub \in {"A_SEND_ECM_MCF", "A_REACK"}
                    /\ sub \in {"A_SEND_ECM_MCF", "A_REACK", "A_WAIT_DCN"} => ~e.t.missing
  PROVE  Moves(s, e, send(e, f, sub), told)
<1>1. PICK r, p, t : r = e.ss /\ p = e.pt /\ t = e.t
  OBVIOUS
<1>2. r \in Sessions /\ t \in Engines
  BY <1>1, EndIs
<1>3. PICK q : q = set_tx_mode(r, "CC")
  OBVIOUS
<1>4. Onward(r, q) /\ q \in Sessions
  <2>1. "CC" \in Modes
    BY DEF Modes
  <2>. QED BY <1>2, <1>3, <2>1, TxMode1 DEF Onward
<1>5. PICK x : x = queue_frame(q, f)
  OBVIOUS
<1>6. /\ x \in Sessions /\ x.st = q.st /\ x.done = q.done /\ x.rx_mode = q.rx_mode
      /\ x.gate = q.gate /\ x.win = q.win
      /\ Says(x) => Says(q) \/ f = "MCF"
  BY <1>4, <1>5, Queues
<1>7. PICK u : u = [t EXCEPT !.sub = sub]
  OBVIOUS
<1>8. u.sub = sub /\ u.missing = t.missing
  BY <1>2, <1>7 DEF Engines
<1>9. s = "A" => (Delivered(t) => Delivered(u)) /\ (f = "MCF" => Delivered(u)) /\ Acked(u)
  BY <1>1, <1>8 DEF Delivered, Acked
<1>10. EngineMoves(s, t, u, told)
  <2>1. s = "A" => /\ Delivered(t) => Delivered([t EXCEPT !.sub = sub])
                   /\ Acked([t EXCEPT !.sub = sub])
    BY <1>7, <1>9
  <2>. QED BY <1>1, <1>2, <1>7, <2>1, SubMoves
<1>11. SessionMoves(s, r, x, u)
  <2>1. s = "C" => r.rx_mode # "PRI" /\ (r.done => r.st \notin Beginning)
    BY <1>1 DEF EndOk
  <2>. QED BY <1>4, <1>6, <1>9, <2>1 DEF SessionMoves, Onward, Beginning
<1>12. e = [ss |-> r, pt |-> p, t |-> t]
  BY <1>1, EndIs
<1>13. send(e, f, sub) = [ss |-> x, pt |-> p, t |-> u]
  <2>1. PICK e1 : e1 = [e EXCEPT !.ss = x]
    OBVIOUS
  <2>2. e1 = [ss |-> x, pt |-> p, t |-> t] /\ e.ss = r
    BY <1>12, <2>1, Put
  <2>3. send(e, f, sub) = to(e1, sub)
    BY <1>3, <1>5, <2>1, <2>2 DEF send
  <2>. QED BY <1>7, <2>2, <2>3, ToIs
<1>. QED BY <1>1, <1>10, <1>11, <1>13, SessionAndEngine

(* The receiver is told what to expect. *)
LEMMA RxMoves ==
  ASSUME NEW s \in Sides, NEW e, NEW told, EndOk(s, e), e.t.sub # "DONE",
         NEW mode \in Modes, s = "C" => mode # "PRI", NEW sub \in SubsOf(s),
         s = "C" => (sub = "C_SEND_DCN" => Confirmed(e.t) \/ told),
         s = "A" => /\ Delivered(e.t) => sub = "A_WAIT_DCN"
                    /\ sub \in {"A_SEND_ECM_MCF", "A_REACK", "A_WAIT_DCN"} => ~e.t.missing
  PROVE  Moves(s, e, rx(e, mode, sub), told)
<1>1. PICK r, p, t : r = e.ss /\ p = e.pt /\ t = e.t
  OBVIOUS
<1>2. r \in Sessions /\ t \in Engines
  BY <1>1, EndIs
<1>3. PICK x : x = set_rx_mode(r, mode)
  OBVIOUS
<1>4. /\ x \in Sessions /\ x.st = r.st /\ x.done = r.done /\ x.rx_mode = mode
      /\ x.frames = r.frames /\ x.saved = r.saved
      /\ x.gate # "" => r.gate # ""
      /\ Range(x.win) \subseteq Range(r.win)
  BY <1>2, <1>3, RxMode1
<1>5. PICK u : u = [t EXCEPT !.sub = sub]
  OBVIOUS
<1>6. u.sub = sub /\ u.missing = t.missing
  BY <1>2, <1>5 DEF Engines
<1>7. s = "A" => (Delivered(t) => Delivered(u)) /\ Acked(u)
  BY <1>1, <1>6 DEF Delivered, Acked
<1>8. EngineMoves(s, t, u, told)
  <2>1. s = "A" => /\ Delivered(t) => Delivered([t EXCEPT !.sub = sub])
                   /\ Acked([t EXCEPT !.sub = sub])
    BY <1>5, <1>7
  <2>. QED BY <1>1, <1>2, <1>5, <2>1, SubMoves
<1>9. SessionMoves(s, r, x, u)
  <2>1. s = "C" => (r.done => r.st \notin Beginning)
    BY <1>1 DEF EndOk
  <2>. QED BY <1>4, <2>1 DEF SessionMoves, Says
<1>10. e = [ss |-> r, pt |-> p, t |-> t]
  BY <1>1, EndIs
<1>11. rx(e, mode, sub) = [ss |-> x, pt |-> p, t |-> u]
  <2>1. PICK e1 : e1 = [e EXCEPT !.ss = x]
    OBVIOUS
  <2>2. e1 = [ss |-> x, pt |-> p, t |-> t] /\ e.ss = r
    BY <1>10, <2>1, Put
  <2>3. rx(e, mode, sub) = to(e1, sub)
    BY <1>3, <2>1, <2>2 DEF rx
  <2>. QED BY <1>5, <2>2, <2>3, ToIs
<1>. QED BY <1>1, <1>8, <1>9, <1>11, SessionAndEngine

LEMMA NewIs ==
  /\ NewSession \in Sessions /\ NewSession.st = "IDLE" /\ NewSession.rx_mode = "NONE"
  /\ NewSession.done = FALSE /\ NewSession.gate = "" /\ ~Says(NewSession)
  /\ Range(NewSession.win) = {}
<1>1. NewSession \in Sessions
  <2>1. /\ "IDLE" \in SessionStates /\ "NONE" \in Modes /\ "OFF" \in CcStates
    BY DEF SessionStates, Modes, CcStates
  <2>2. 0 \in Rates
    BY SMT DEF Rates
  <2>3. ASSUME NEW st \in SessionStates, NEW m \in Modes, NEW c \in CcStates, NEW z \in Rates,
               NEW q \in FrameSeqs, NEW S \in FrameSets, NEW g \in Gates, NEW p \in Pcms
        PROVE  [st |-> st, done |-> FALSE, in_retrain |-> FALSE, retrains |-> 0,
                tx_mode |-> m, rx_mode |-> m,
                frames |-> q, saved |-> q, pri_pending |-> FALSE, pcm |-> p, pcm_rate |-> z,
                ccs_state |-> c, pre_mph |-> FALSE, form_startup |-> FALSE, peer_mph |-> FALSE,
                data_pending |-> FALSE, reneg_pending |-> FALSE, holdoff |-> FALSE,
                cc_established |-> FALSE, last_adv |-> z, remote_max |-> z, rate_cur |-> z,
                floor_hard_fails |-> 0,
                gate |-> g, win_mph |-> z, win |-> q, rx_seen |-> S, burst_seen |-> FALSE,
                pri_skip |-> FALSE] \in Sessions
    BY DEF Sessions
  <2>. QED BY <2>1, <2>2, <2>3, Empty DEF NewSession
<1>2. /\ NewSession.st = "IDLE" /\ NewSession.rx_mode = "NONE" /\ NewSession.done = FALSE
      /\ NewSession.gate = "" /\ NewSession.frames = <<>> /\ NewSession.saved = <<>>
      /\ NewSession.win = <<>>
  BY DEF NewSession
<1>. QED BY <1>1, <1>2, Empty DEF Says

LEMMA FinishMoves ==
  ASSUME NEW s \in Sides, NEW e, NEW told, EndOk(s, e),
         NEW result \in {"OK", "ERR", "HUNG_UP"}, 
         s = "C" => (result = "OK" => Confirmed(e.t) \/ told)
  PROVE  /\ Moves(s, e, finish(e, result), told)
         /\ finish(e, result).t.sub = "DONE" /\ finish(e, result).ss.st = "IDLE"
<1>1. PICK r, p, t : r = e.ss /\ p = e.pt /\ t = e.t
  OBVIOUS
<1>2. r \in Sessions /\ t \in Engines
  BY <1>1, EndIs
<1>3. PICK u : u = [t EXCEPT !.sub = "DONE", !.result = result]
  OBVIOUS
<1>4. u \in Engines /\ u.sub = "DONE" /\ u.missing = t.missing /\ u.result = result
  BY <1>2, <1>3 DEF Engines, Substates
<1>5. EngineMoves(s, t, u, told)
  BY <1>1, <1>4 DEF EngineMoves, Confirmed, Delivered, Acked, SubsOf, CallerSubs, AnswererSubs
<1>6. SessionMoves(s, r, NewSession, u)
  BY <1>4, NewIs DEF SessionMoves
<1>7. e = [ss |-> r, pt |-> p, t |-> t]
  BY <1>1, EndIs
<1>8. PICK b : b = [ss |-> NewSession, pt |-> p, t |-> u]
  OBVIOUS
<1>9. finish(e, result) = b
  <2>1. PICK u1 : u1 = [t EXCEPT !.sub = "DONE"]
    OBVIOUS
  <2>2. PICK e1 : e1 = [e EXCEPT !.t = u1]
    OBVIOUS
  <2>3. e1 = [ss |-> r, pt |-> p, t |-> u1] /\ e.t = t
    BY <1>7, <2>2, Put
  <2>4. PICK e2 : e2 = [e1 EXCEPT !.t = u]
    OBVIOUS
  <2>5. e2 = [ss |-> r, pt |-> p, t |-> u] /\ e1.t = u1
    BY <2>3, <2>4, Put
  <2>6. [e2 EXCEPT !.ss = NewSession] = b
    BY <1>8, <2>5, Put
  <2>7. u = [u1 EXCEPT !.result = result]
    BY <1>3, <2>1
  <2>. QED BY <2>1, <2>2, <2>3, <2>4, <2>5, <2>6, <2>7 DEF finish
<1>10. Moves(s, e, b, told)
  <2>1. EngineMoves(s, e.t, u, told) /\ SessionMoves(s, e.ss, NewSession, u)
    BY <1>1, <1>5, <1>6
  <2>. QED BY <1>1, <1>8, <2>1, SessionAndEngine
<1>11. b.t.sub = "DONE" /\ b.ss.st = "IDLE"
  BY <1>4, <1>8, NewIs
<1>. QED BY <1>9, <1>10, <1>11

(* Fields of the engine that nobody else reads. *)
LEMMA EngineOnly ==
  ASSUME NEW s \in Sides, NEW e, NEW told, EndOk(s, e), NEW u \in Engines,
         u.sub = e.t.sub, u.result = e.t.result, u.missing = e.t.missing
  PROVE  Moves(s, e, [e EXCEPT !.t = u], told)
<1>1. EngineMoves(s, e.t, u, told)
  BY DEF EngineMoves, EndOk, Confirmed, Delivered, Acked
<1>2. SessionMoves(s, e.ss, e.ss, u)
  BY EndIs DEF SessionMoves, EndOk
<1>3. PICK r, p, t : r = e.ss /\ p = e.pt /\ t = e.t
  OBVIOUS
<1>4. e = [ss |-> r, pt |-> p, t |-> t]
  BY <1>3, EndIs
<1>5. [e EXCEPT !.t = u] = [ss |-> r, pt |-> p, t |-> u]
  BY <1>4, Put
<1>6. Moves(s, e, [ss |-> e.ss, pt |-> e.pt, t |-> u], told)
  BY <1>1, <1>2, SessionAndEngine
<1>. QED BY <1>3, <1>5, <1>6, Zenon

LEMMA ListenMoves ==
  ASSUME NEW e, NEW told, EndOk("A", e), e.t.sub # "DONE", ~Delivered(e.t)
  PROVE  Moves("A", e, ecm_rx_listen(e), told)
<1>1. "PRI" \in Modes /\ "A_RECV_ECM" \in SubsOf("A") /\ "A" \in Sides
  BY DEF Modes, SubsOf, AnswererSubs, Sides
<1>. QED BY <1>1, RxMoves DEF ecm_rx_listen

LEMMA PpsMoves ==
  ASSUME NEW e, NEW told, EndOk("C", e), e.t.sub # "DONE"
  PROVE  Moves("C", e, ecm_send_pps(e), told)
<1>1. "PPS" \in ControlFrames /\ "C_SEND_PPS" \in SubsOf("C") /\ "C" \in Sides
  BY DEF ControlFrames, SubsOf, CallerSubs, Sides
<1>. QED BY <1>1, SendMoves DEF ecm_send_pps

LEMMA DisMoves ==
  ASSUME NEW e, NEW told, EndOk("A", e), e.t.sub # "DONE", ~Delivered(e.t)
  PROVE  Moves("A", e, answer_send_dis(e), told)
<1>1. "DIS" \in ControlFrames /\ "A_SEND_DIS" \in SubsOf("A") /\ "A" \in Sides
  BY DEF ControlFrames, SubsOf, AnswererSubs, Sides
<1>. QED BY <1>1, SendMoves DEF answer_send_dis

LEMMA BurstMoves ==
  ASSUME NEW e, NEW told, EndOk("C", e), e.t.sub # "DONE"
  PROVE  Moves("C", e, ecm_start_burst(e), told)
<1>1. PICK r, p, t : r = e.ss /\ p = e.pt /\ t = e.t
  OBVIOUS
<1>2. r \in Sessions /\ t \in Engines /\ "C" \in Sides /\ "PRI" \in Modes
  BY <1>1, EndIs DEF Sides, Modes
<1>3. PICK q : q = set_tx_mode(r, "PRI")
  OBVIOUS
<1>4. Onward(r, q) /\ q \in Sessions
  BY <1>2, <1>3, TxMode1 DEF Onward
<1>5. PICK x : x = begin_stream(q)
  OBVIOUS
<1>6. Alike(q, x)
  BY <1>4, <1>5, Set1 DEF begin_stream
<1>7. Onward(r, x)
  BY <1>4, <1>6, AlikeOnward, OnwardOnward
<1>8. PICK u : u = [t EXCEPT !.post_retries = 0, !.sub = "C_SEND_ECM"]
  OBVIOUS
<1>9. u \in Engines /\ u.sub = "C_SEND_ECM" /\ u.result = t.result
  BY <1>2, <1>8 DEF Engines, Substates
<1>10. EngineMoves("C", t, u, told)
  BY <1>1, <1>9 DEF EngineMoves, Confirmed, SubsOf, CallerSubs
<1>11. SessionMoves("C", r, x, u)
  BY <1>1, <1>7 DEF SessionMoves, EndOk, Onward, Beginning
<1>12. e = [ss |-> r, pt |-> p, t |-> t]
  BY <1>1, EndIs
<1>13. ecm_start_burst(e) = [ss |-> x, pt |-> p, t |-> u]
  <2>1. PICK e1 : e1 = [e EXCEPT !.ss = x]
    OBVIOUS
  <2>2. e1 = [ss |-> x, pt |-> p, t |-> t] /\ e.ss = r
    BY <1>12, <2>1, Put
  <2>3. PICK u1 : u1 = [t EXCEPT !.post_retries = 0]
    OBVIOUS
  <2>4. PICK e2 : e2 = [e1 EXCEPT !.t = u1]
    OBVIOUS
  <2>5. e2 = [ss |-> x, pt |-> p, t |-> u1] /\ e1.t = t
    BY <2>2, <2>4, Put
  <2>6. ecm_start_burst(e) = to(e2, "C_SEND_ECM")
    BY <1>3, <1>5, <2>1, <2>2, <2>3, <2>4, <2>5 DEF ecm_start_burst
  <2>7. u = [u1 EXCEPT !.sub = "C_SEND_ECM"]
    BY <1>8, <2>3
  <2>. QED BY <2>5, <2>6, <2>7, ToIs
<1>. QED BY <1>1, <1>2, <1>10, <1>11, <1>13, SessionAndEngine

LEMMA CallerFrame ==
  ASSUME NEW e, NEW told, EndOk("C", e), NEW f \in ControlFrames, f = "MCF" => told
  PROVE  Moves("C", e, on_frame(e, f), told)
<1>1. /\ "C" \in Sides /\ {"DCS", "DCN"} \subseteq ControlFrames
      /\ {"C_SEND_DCS", "C_SEND_DCN"} \subseteq SubsOf("C")
  BY DEF ControlFrames, SubsOf, CallerSubs, Sides
<1>2. e.t.sub \in CallerSubs
  BY DEF EndOk, SubsOf
<1>3. CASE e.t.sub = "C_WAIT_DIS" /\ f = "DIS"
  <2>1. on_frame(e, f) = send(e, "DCS", "C_SEND_DCS")
    BY <1>3 DEF on_frame
  <2>. QED BY <1>1, <1>3, <2>1, SendMoves
<1>4. CASE e.t.sub = "C_WAIT_CFR" /\ f = "CFR"
  <2>1. on_frame(e, f) = ecm_start_burst(e)
    BY <1>4 DEF on_frame
  <2>. QED BY <1>4, <2>1, BurstMoves
<1>5. CASE e.t.sub = "C_WAIT_PPS_RESP" /\ f = "MCF"
  <2>1. on_frame(e, f) = send(e, "DCN", "C_SEND_DCN")
    BY <1>5 DEF on_frame
  <2>. QED BY <1>1, <1>5, <2>1, SendMoves
<1>6. CASE e.t.sub = "C_WAIT_PPS_RESP" /\ f = "PPR"
  <2>1. on_frame(e, f) = ecm_ppr(e)
    BY <1>6 DEF on_frame
  <2>2. PICK t, u : t = e.t /\ u = [t EXCEPT !.ppr_count = t.ppr_count + 1]
    OBVIOUS
  <2>3. u \in Engines /\ u.sub = e.t.sub /\ u.result = e.t.result /\ u.missing = e.t.missing
    <3>1. t \in Engines
      BY <2>2, EndIs
    <3>2. ASSUME NEW n \in Nat
          PROVE  LET x == [t EXCEPT !.ppr_count = n] IN
                 x \in Engines /\ x.sub = t.sub /\ x.result = t.result /\ x.missing = t.missing
      BY <3>1 DEF Engines
    <3>3. t.ppr_count \in Nat
      BY <3>1 DEF Engines
    <3>4. t.ppr_count + 1 \in Nat
      BY <3>3
    <3>. QED BY <2>2, <3>2, <3>4
  <2>4. PICK e1 : e1 = [e EXCEPT !.t = u]
    OBVIOUS
  <2>5. Moves("C", e, e1, told) /\ EndOk("C", e1)
    BY <1>1, <2>3, <2>4, EngineOnly, MovesOk
  <2>6. e1 = [e EXCEPT !.t.ppr_count = @ + 1] /\ e1.t = u
    <3>1. PICK r, p : e = [ss |-> r, pt |-> p, t |-> t]
      BY <2>2, EndIs
    <3>2. e1 = [ss |-> r, pt |-> p, t |-> u]
      BY <2>4, <3>1, Put
    <3>. QED BY <2>2, <2>4, <3>1, <3>2
  <2>7. Moves("C", e1, finish(e1, "ERR"), told)
    BY <1>1, <2>5, FinishMoves
  <2>8. Moves("C", e1, ecm_start_burst(e1), told)
    BY <1>6, <2>3, <2>5, <2>6, BurstMoves
  <2>9. ecm_ppr(e) = finish(e1, "ERR") \/ ecm_ppr(e) = ecm_start_burst(e1)
    BY <2>6 DEF ecm_ppr
  <2>. QED BY <2>1, <2>5, <2>7, <2>8, <2>9, MovesMoves
<1>7. CASE /\ ~(e.t.sub = "C_WAIT_DIS" /\ f = "DIS") /\ ~(e.t.sub = "C_WAIT_CFR" /\ f = "CFR")
           /\ ~(e.t.sub = "C_WAIT_PPS_RESP" /\ f = "MCF")
           /\ ~(e.t.sub = "C_WAIT_PPS_RESP" /\ f = "PPR")
  <2>1. on_frame(e, f) = e
    BY <1>2, <1>7 DEF on_frame, CallerSubs
  <2>. QED BY <2>1, MovesSelf
<1>. QED BY <1>3, <1>4, <1>5, <1>6, <1>7

LEMMA AnswererFrame ==
  ASSUME NEW e, NEW told, EndOk("A", e), NEW f \in ControlFrames
  PROVE  Moves("A", e, on_frame(e, f), told)
<1>1. /\ "A" \in Sides /\ {"CFR", "PPR", "MCF"} \subseteq ControlFrames
      /\ {"A_SEND_CFR", "A_SEND_PPR", "A_SEND_ECM_MCF", "A_REACK"} \subseteq SubsOf("A")
  BY DEF ControlFrames, SubsOf, AnswererSubs, Sides
<1>2. e.t.sub \in AnswererSubs /\ e.t \in Engines
  BY EndIs DEF EndOk, SubsOf
<1>3. CASE e.t.sub = "A_WAIT_DCS" /\ f = "DCS"
  <2>1. on_frame(e, f) = send(e, "CFR", "A_SEND_CFR")
    BY <1>3 DEF on_frame
  <2>. QED BY <1>1, <1>3, <2>1, SendMoves DEF Delivered
<1>4. CASE e.t.sub \in {"A_RECV_ECM", "A_WAIT_PPS"} /\ f = "PPS"
  <2>1. on_frame(e, f) = ecm_process_pps(e)
    BY <1>4 DEF on_frame
  <2>2. e.t.missing \in BOOLEAN /\ ~Delivered(e.t)
    BY <1>2, <1>4 DEF Engines, Delivered
  <2>3. e.t.missing => Moves("A", e, send(e, "PPR", "A_SEND_PPR"), told)
    BY <1>1, <1>4, <2>2, SendMoves
  <2>4. ~e.t.missing => Moves("A", e, send(e, "MCF", "A_SEND_ECM_MCF"), told)
    BY <1>1, <1>4, <2>2, SendMoves
  <2>. QED BY <2>1, <2>3, <2>4 DEF ecm_process_pps
<1>5. CASE e.t.sub = "A_WAIT_DCN" /\ f = "PPS"
  <2>0. ~e.t.missing
    BY <1>5 DEF EndOk, Acked
  <2>1. on_frame(e, f) = send(e, "MCF", "A_REACK")
    BY <1>5 DEF on_frame
  <2>. QED BY <1>1, <1>5, <2>0, <2>1, SendMoves
<1>6. CASE e.t.sub \in {"A_RECV_ECM", "A_WAIT_PPS", "A_WAIT_DCN"} /\ f = "DCN"
  <2>1. on_frame(e, f) = finish(e, "OK")
    BY <1>6 DEF on_frame
  <2>. QED BY <1>1, <2>1, FinishMoves
<1>7. CASE /\ ~(e.t.sub = "A_WAIT_DCS" /\ f = "DCS")
           /\ ~(e.t.sub \in {"A_RECV_ECM", "A_WAIT_PPS"} /\ f = "PPS")
           /\ ~(e.t.sub = "A_WAIT_DCN" /\ f = "PPS")
           /\ ~(e.t.sub \in {"A_RECV_ECM", "A_WAIT_PPS", "A_WAIT_DCN"} /\ f = "DCN")
  <2>1. on_frame(e, f) = e
    BY <1>2, <1>7 DEF on_frame, AnswererSubs
  <2>. QED BY <2>1, MovesSelf
<1>. QED BY <1>3, <1>4, <1>5, <1>6, <1>7

-----------------------------------------------------------------------------
(* T.30's handlers. *)

LEMMA ModeFacts ==
  /\ "C" \in Sides /\ "A" \in Sides /\ {"CC", "PRI", "STARTUP", "NONE"} = Modes
  /\ \A s \in Sides : s = "C" \/ s = "A"
  /\ SubsOf("C") = CallerSubs /\ SubsOf("A") = AnswererSubs
  /\ {"ERR", "OK"} \subseteq {"", "OK", "ERR", "HUNG_UP"}
BY DEF Sides, Modes, SubsOf

LEMMA CallerComplete ==
  ASSUME NEW e, NEW told, EndOk("C", e)
  PROVE  Moves("C", e, on_complete(e), told)
<1>1. e.t.sub \in CallerSubs
  BY ModeFacts DEF EndOk
<1>2. {"C_WAIT_CFR", "C_WAIT_PPS_RESP"} \subseteq SubsOf("C")
  BY DEF SubsOf, CallerSubs
<1>3. CASE e.t.sub = "C_SEND_DCS"
  <2>1. on_complete(e) = rx(e, "CC", "C_WAIT_CFR")
    BY <1>3 DEF on_complete
  <2>. QED BY <1>2, <1>3, <2>1, ModeFacts, RxMoves
<1>4. CASE e.t.sub = "C_SEND_ECM"
  <2>1. on_complete(e) = ecm_send_pps(e)
    BY <1>4 DEF on_complete
  <2>. QED BY <1>4, <2>1, PpsMoves
<1>5. CASE e.t.sub = "C_SEND_PPS"
  <2>1. on_complete(e) = rx(e, "CC", "C_WAIT_PPS_RESP")
    BY <1>5 DEF on_complete
  <2>. QED BY <1>2, <1>5, <2>1, ModeFacts, RxMoves
<1>6. CASE e.t.sub = "C_SEND_DCN"
  <2>1. on_complete(e) = finish(e, "OK")
    BY <1>6 DEF on_complete
  <2>2. Confirmed(e.t)
    BY <1>6 DEF Confirmed
  <2>. QED BY <2>1, <2>2, ModeFacts, FinishMoves
<1>7. CASE e.t.sub \notin {"C_SEND_DCS", "C_SEND_ECM", "C_SEND_PPS", "C_SEND_DCN"}
  <2>1. on_complete(e) = e
    BY <1>1, <1>7 DEF on_complete, CallerSubs
  <2>. QED BY <2>1, MovesSelf
<1>. QED BY <1>3, <1>4, <1>5, <1>6, <1>7

LEMMA AnswererComplete ==
  ASSUME NEW e, NEW told, EndOk("A", e)
  PROVE  Moves("A", e, on_complete(e), told)
<1>1. e.t.sub \in AnswererSubs
  BY ModeFacts DEF EndOk
<1>2. {"A_WAIT_DCS", "A_WAIT_DCN"} \subseteq SubsOf("A")
  BY DEF SubsOf, AnswererSubs
<1>3. CASE e.t.sub = "A_SEND_DIS"
  <2>1. on_complete(e) = rx(e, "CC", "A_WAIT_DCS")
    BY <1>3 DEF on_complete
  <2>2. ~Delivered(e.t)
    BY <1>3 DEF Delivered
  <2>. QED BY <1>2, <1>3, <2>1, <2>2, ModeFacts, RxMoves
<1>4. CASE e.t.sub = "A_SEND_CFR"
  <2>1. PICK r, p, t : r = e.ss /\ p = e.pt /\ t = e.t
    OBVIOUS
  <2>2. r \in Sessions /\ t \in Engines /\ e = [ss |-> r, pt |-> p, t |-> t] /\ t.sub = "A_SEND_CFR"
    BY <1>4, <2>1, EndIs
  <2>3. PICK u : u = [t EXCEPT !.missing = TRUE]
    OBVIOUS
  <2>4. u \in Engines /\ u.sub = t.sub /\ u.result = t.result
    BY <2>2, <2>3 DEF Engines
  <2>5. EngineMoves("A", t, u, told)
    BY <1>1, <2>1, <2>2, <2>4, ModeFacts DEF EngineMoves, Delivered, Acked
  <2>6. SessionMoves("A", r, r, u)
    BY <2>2 DEF SessionMoves
  <2>7. PICK e1 : e1 = [e EXCEPT !.t = u]
    OBVIOUS
  <2>8. e1 = [ss |-> r, pt |-> p, t |-> u] /\ e.t = t /\ e1.t = u
    BY <2>2, <2>7, Put
  <2>9. Moves("A", e, e1, told)
    BY <2>1, <2>5, <2>6, <2>8, ModeFacts, SessionAndEngine
  <2>10. on_complete(e) = ecm_rx_listen(e1)
    BY <1>4, <2>3, <2>7, <2>8 DEF on_complete
  <2>11. e1.t.sub = "A_SEND_CFR" /\ ~Delivered(e1.t)
    BY <2>2, <2>4, <2>8 DEF Delivered
  <2>12. Moves("A", e1, ecm_rx_listen(e1), told)
    BY <2>9, <2>11, MovesOk, ListenMoves
  <2>. QED BY <2>9, <2>10, <2>12, MovesMoves
<1>5. CASE e.t.sub = "A_SEND_PPR"
  <2>1. on_complete(e) = ecm_rx_listen(e)
    BY <1>5 DEF on_complete
  <2>2. ~Delivered(e.t)
    BY <1>5 DEF Delivered
  <2>. QED BY <1>5, <2>1, <2>2, ListenMoves
<1>6. CASE e.t.sub \in {"A_SEND_ECM_MCF", "A_REACK"}
  <2>1. on_complete(e) = rx(e, "CC", "A_WAIT_DCN")
    BY <1>6 DEF on_complete
  <2>2. ~e.t.missing
    BY <1>6 DEF EndOk, Acked
  <2>. QED BY <1>2, <1>6, <2>1, <2>2, ModeFacts, RxMoves
<1>7. CASE e.t.sub \notin {"A_SEND_DIS", "A_SEND_CFR", "A_SEND_PPR", "A_SEND_ECM_MCF", "A_REACK"}
  <2>1. on_complete(e) = e
    BY <1>1, <1>7 DEF on_complete, AnswererSubs
  <2>. QED BY <2>1, MovesSelf
<1>. QED BY <1>3, <1>4, <1>5, <1>6, <1>7

LEMMA StartupMoves ==
  ASSUME NEW s \in Sides, NEW e, NEW told, EndOk(s, e), NEW ok \in BOOLEAN
  PROVE  Moves(s, e, on_startup(e, ok), told)
<1>1. s = "C" \/ s = "A"
  BY ModeFacts
<1>2. e.t.sub \in SubsOf(s) /\ "C_WAIT_DIS" \in SubsOf("C")
  BY DEF EndOk, SubsOf, CallerSubs
<1>3. CASE ~ok /\ e.t.sub \in {"C_WAIT_V34", "A_WAIT_V34"}
  <2>1. on_startup(e, ok) = finish(e, "ERR")
    BY <1>3 DEF on_startup
  <2>. QED BY <2>1, FinishMoves
<1>4. CASE ok /\ e.t.sub = "C_WAIT_V34"
  <2>1. on_startup(e, ok) = rx(e, "CC", "C_WAIT_DIS")
    BY <1>4 DEF on_startup
  <2>2. s = "C"
    BY <1>1, <1>2, <1>4, ModeFacts DEF AnswererSubs
  <2>. QED BY <1>2, <1>4, <2>1, <2>2, ModeFacts, RxMoves
<1>5. CASE ok /\ e.t.sub = "A_WAIT_V34"
  <2>1. on_startup(e, ok) = answer_send_dis(e)
    BY <1>5 DEF on_startup
  <2>2. s = "A"
    BY <1>1, <1>2, <1>5, ModeFacts DEF CallerSubs
  <2>3. ~Delivered(e.t)
    BY <1>5 DEF Delivered
  <2>. QED BY <1>5, <2>1, <2>2, <2>3, DisMoves
<1>6. CASE e.t.sub \notin {"C_WAIT_V34", "A_WAIT_V34"}
  <2>1. on_startup(e, ok) = e
    BY <1>6 DEF on_startup
  <2>. QED BY <2>1, MovesSelf
<1>. QED BY <1>3, <1>4, <1>5, <1>6

LEMMA CarrierDownMoves ==
  ASSUME NEW s \in Sides, NEW e, NEW told, EndOk(s, e)
  PROVE  Moves(s, e, on_carrier_down(e), told)
<1>1. CASE e.t.sub = "A_RECV_ECM"
  <2>1. on_carrier_down(e) = rx(e, "CC", "A_WAIT_PPS")
    BY <1>1 DEF on_carrier_down
  <2>2. s = "A"
    BY <1>1, ModeFacts DEF EndOk, CallerSubs
  <2>3. ~Delivered(e.t) /\ "A_WAIT_PPS" \in SubsOf("A")
    BY <1>1 DEF Delivered, SubsOf, AnswererSubs
  <2>. QED BY <1>1, <2>1, <2>2, <2>3, ModeFacts, RxMoves
<1>2. CASE e.t.sub # "A_RECV_ECM"
  BY <1>2, MovesSelf DEF on_carrier_down
<1>. QED BY <1>1, <1>2

LEMMA Retried ==
  ASSUME NEW s \in Sides, NEW e, NEW told, EndOk(s, e)
  PROVE  /\ Moves(s, e, [e EXCEPT !.t.post_retries = @ + 1], told)
         /\ [e EXCEPT !.t.post_retries = @ + 1].t.sub = e.t.sub
         /\ Moves(s, e, [e EXCEPT !.t.dis_retries = @ + 1], told)
         /\ [e EXCEPT !.t.dis_retries = @ + 1].t.sub = e.t.sub
<1>1. PICK r, p, t : r = e.ss /\ p = e.pt /\ t = e.t
  OBVIOUS
<1>2. t \in Engines /\ e = [ss |-> r, pt |-> p, t |-> t]
  BY <1>1, EndIs
<1>3. PICK n, m : n = t.post_retries + 1 /\ m = t.dis_retries + 1
  OBVIOUS
<1>4. n \in Nat /\ m \in Nat
  <2>1. t.post_retries \in Nat /\ t.dis_retries \in Nat
    BY <1>2 DEF Engines
  <2>. QED BY <1>3, <2>1
<1>5. PICK u, v : u = [t EXCEPT !.post_retries = n] /\ v = [t EXCEPT !.dis_retries = m]
  OBVIOUS
<1>6. u \in Engines /\ u.sub = t.sub /\ u.result = t.result /\ u.missing = t.missing
  BY <1>2, <1>4, <1>5 DEF Engines
<1>7. v \in Engines /\ v.sub = t.sub /\ v.result = t.result /\ v.missing = t.missing
  BY <1>2, <1>4, <1>5 DEF Engines
<1>8. PICK a, b : a = [e EXCEPT !.t = u] /\ b = [e EXCEPT !.t = v]
  OBVIOUS
<1>9. a = [ss |-> r, pt |-> p, t |-> u] /\ b = [ss |-> r, pt |-> p, t |-> v] /\ e.t = t
  BY <1>2, <1>8, Put
<1>10. Moves(s, e, a, told) /\ Moves(s, e, b, told)
  BY <1>1, <1>6, <1>7, <1>8, EngineOnly
<1>11. a.t.sub = e.t.sub /\ b.t.sub = e.t.sub
  BY <1>6, <1>7, <1>9
<1>12. [e EXCEPT !.t.post_retries = @ + 1] = a /\ [e EXCEPT !.t.dis_retries = @ + 1] = b
  BY <1>3, <1>5, <1>8, <1>9
<1>. QED BY <1>10, <1>11, <1>12

LEMMA TimerMoves ==
  ASSUME NEW s \in Sides, NEW e, NEW told, EndOk(s, e)
  PROVE  Moves(s, e, on_timer(e), told)
<1>1. CASE e.t.sub = "C_WAIT_PPS_RESP" /\ e.t.post_retries < PostRetries
  <2>1. PICK a : a = [e EXCEPT !.t.post_retries = @ + 1]
    OBVIOUS
  <2>2. on_timer(e) = ecm_send_pps(a)
    BY <1>1, <2>1 DEF on_timer
  <2>3. s = "C"
    BY <1>1, ModeFacts DEF EndOk, AnswererSubs
  <2>4. Moves(s, e, a, told) /\ a.t.sub = e.t.sub
    BY <2>1, Retried
  <2>5. Moves("C", a, ecm_send_pps(a), told)
    BY <1>1, <2>3, <2>4, MovesOk, PpsMoves
  <2>. QED BY <2>2, <2>3, <2>4, <2>5, MovesMoves
<1>2. CASE e.t.sub = "A_WAIT_DCS" /\ e.t.dis_retries < DisRetries
  <2>1. PICK a : a = [e EXCEPT !.t.dis_retries = @ + 1]
    OBVIOUS
  <2>2. on_timer(e) = answer_send_dis(a)
    BY <1>2, <2>1 DEF on_timer
  <2>3. s = "A"
    BY <1>2, ModeFacts DEF EndOk, CallerSubs
  <2>4. Moves(s, e, a, told) /\ a.t.sub = e.t.sub
    BY <2>1, Retried
  <2>5. Moves("A", a, answer_send_dis(a), told)
    <3>1. ~Delivered(a.t) /\ a.t.sub # "DONE"
      BY <1>2, <2>4 DEF Delivered
    <3>. QED BY <2>3, <2>4, <3>1, MovesOk, DisMoves
  <2>. QED BY <2>2, <2>3, <2>4, <2>5, MovesMoves
<1>3. CASE /\ ~(e.t.sub = "C_WAIT_PPS_RESP" /\ e.t.post_retries < PostRetries)
           /\ ~(e.t.sub = "A_WAIT_DCS" /\ e.t.dis_retries < DisRetries)
  <2>1. on_timer(e) = finish(e, "ERR")
    BY <1>3 DEF on_timer
  <2>. QED BY <2>1, FinishMoves
<1>. QED BY <1>1, <1>2, <1>3

-----------------------------------------------------------------------------
(* What an end decodes. *)

SetHeard(r, b, n) == [r EXCEPT !.peer_mph = b, !.remote_max = n]

LEMMA SetHeard1 ==
  ASSUME NEW r \in Sessions, NEW b \in BOOLEAN, NEW n \in Rates
  PROVE  Alike(r, SetHeard(r, b, n))
BY DEF Alike, Sessions, SetHeard

LEMMA ProcessCc ==
  ASSUME NEW s \in Sides, NEW e, EndOk(s, e), NEW mph \in Rates, NEW opens \in BOOLEAN
  PROVE  \E x : Alike(e.ss, x) /\ process_cc(e, mph, opens) = [e EXCEPT !.ss = x]
<1>1. PICK r, p : r = e.ss /\ p = e.pt
  OBVIOUS
<1>2. r \in Sessions /\ p \in SafePoints
  BY <1>1, EndIs
<1>3. PICK b : b = (r.reneg_pending \/ (r.cc_established /\ ~r.holdoff /\ (mph > 0 \/ opens)
                                        /\ ~(r.ccs_state # "OFF" /\ r.form_startup)))
  OBVIOUS
<1>4. b \in BOOLEAN
  BY <1>3
<1>5. PICK r1 : r1 = [r EXCEPT !.reneg_pending = b]
  OBVIOUS
<1>6. Alike(r, r1) /\ r1 \in Sessions
  BY <1>2, <1>4, <1>5, Set1 DEF Alike
<1>7. PICK r2 : r2 = SetHeard(r1, r.pre_mph, mph)
  OBVIOUS
<1>8. Alike(r1, r2) /\ r2 \in Sessions
  <2>1. r.pre_mph \in BOOLEAN
    BY <1>2, Fields
  <2>. QED BY <1>6, <1>7, <2>1, SetHeard1 DEF Alike
<1>9. PICK r3 : r3 = pick_rate(r2, p)
  OBVIOUS
<1>10. Alike(r2, r3)
  BY <1>2, <1>8, <1>9, PickRate1
<1>11. Alike(r, r3)
  BY <1>6, <1>8, <1>10, AlikeAlike
<1>12. process_cc(e, mph, opens) = IF mph = 0 THEN [e EXCEPT !.ss = r1] ELSE [e EXCEPT !.ss = r3]
  BY <1>1, <1>3, <1>5, <1>7, <1>9 DEF process_cc, SetHeard
<1>. QED BY <1>1, <1>6, <1>11, <1>12

(* The answerer's session after a burst, or a retrain. *)
Quieter(r, x) ==
  /\ x \in Sessions
  /\ x.st = "IDLE" => r.st = "IDLE"
  /\ Says(x) => Says(r)
  /\ x.gate # "" => r.gate # ""
  /\ Range(x.win) \subseteq Range(r.win)

LEMMA AnswererSession ==
  ASSUME NEW e, NEW told, EndOk("A", e), NEW x, Quieter(e.ss, x)
  PROVE  Moves("A", e, [e EXCEPT !.ss = x], told)
<1>1. PICK b : b = [ss |-> x, pt |-> e.pt, t |-> e.t]
  OBVIOUS
<1>2. EngineMoves("A", e.t, e.t, told)
  BY EndIs DEF EngineMoves, EndOk
<1>3. SessionMoves("A", e.ss, x, e.t)
  BY DEF SessionMoves, Quieter
<1>4. Moves("A", e, b, told)
  <2>1. Moves("A", e, [ss |-> x, pt |-> e.pt, t |-> e.t], told)
    BY <1>2, <1>3, ModeFacts, SessionAndEngine
  <2>. QED BY <1>1, <2>1
<1>5. [e EXCEPT !.ss = x] = b
  BY <1>1, EndIs
<1>. QED BY <1>4, <1>5

(* A new cap on the same symbol rate. *)
LEMMA SessionAndPoint ==
  ASSUME NEW s \in Sides, NEW e, NEW told, EndOk(s, e), NEW x, Onward(e.ss, x),
         NEW p \in SafePoints, p.srate = e.pt.srate
  PROVE  Moves(s, e, [ss |-> x, pt |-> p, t |-> e.t], told)
<1>1. PICK b : b = [ss |-> x, pt |-> p, t |-> e.t]
  OBVIOUS
<1>2. b.ss = x /\ b.pt = p /\ b.t = e.t /\ b = [ss |-> b.ss, pt |-> b.pt, t |-> b.t]
  BY <1>1
<1>3. EngineMoves(s, e.t, e.t, told)
  BY EndIs DEF EngineMoves, EndOk
<1>4. SessionMoves(s, e.ss, x, e.t)
  BY EndIs DEF SessionMoves, EndOk, Onward, Beginning
<1>5. Moves(s, e, b, told)
  BY <1>2, <1>3, <1>4, Zenon DEF Moves
<1>. QED BY <1>1, <1>5

LEMMA FallbackMoves ==
  ASSUME NEW s \in Sides, NEW e, NEW told, EndOk(s, e), NEW n \in fallbacks(e)
  PROVE  Moves(s, e, [rate_fallback(e, n) EXCEPT !.ss.floor_hard_fails = 0], told)
<1>1. PICK r, p, t : r = e.ss /\ p = e.pt /\ t = e.t
  OBVIOUS
<1>2. r \in Sessions /\ p \in SafePoints /\ e = [ss |-> r, pt |-> p, t |-> t]
  BY <1>1, EndIs
<1>3. p.srate \in Srates
  BY <1>2, PointFacts
<1>4. n \in 1..14 /\ n <= top_rate(p.srate)
  BY <1>1, <1>3, RateFacts DEF fallbacks
<1>5. PICK q : q = [p EXCEPT !.local_max = n]
  OBVIOUS
<1>6. q \in SafePoints /\ q.srate = p.srate
  <2>1. q \in SafePoints
    BY <1>2, <1>4, <1>5, PointFacts
  <2>2. q.srate = p.srate
    BY <1>2, <1>5 DEF SafePoints, Points
  <2>. QED BY <2>1, <2>2
<1>7. PICK x : x = pick_rate(r, q)
  OBVIOUS
<1>8. Alike(r, x) /\ x \in Sessions
  BY <1>2, <1>6, <1>7, PickRate1 DEF Alike
<1>9. PICK y : y = [x EXCEPT !.floor_hard_fails = 0]
  OBVIOUS
<1>10. Alike(x, y)
  <2>1. 0 \in Nat
    OBVIOUS
  <2>. QED BY <1>8, <1>9, <2>1, Set1
<1>11. Onward(e.ss, y)
  BY <1>1, <1>8, <1>10, AlikeAlike, AlikeOnward
<1>12. PICK a, b : a = [e EXCEPT !.pt = q] /\ b = [a EXCEPT !.ss = x]
  OBVIOUS
<1>13. a = [ss |-> r, pt |-> q, t |-> t]
  BY <1>2, <1>12, Put
<1>14. b = [ss |-> x, pt |-> q, t |-> t] /\ b.ss = x
  <2>1. b = [a EXCEPT !.ss = x]
    BY <1>12
  <2>2. b = [ss |-> x, pt |-> q, t |-> t]
    BY <1>13, <2>1, Put
  <2>. QED BY <2>2
<1>15. rate_fallback(e, n) = b
  BY <1>1, <1>5, <1>7, <1>12 DEF rate_fallback
<1>16. [b EXCEPT !.ss = y] = [ss |-> y, pt |-> q, t |-> t]
  BY <1>14, Put
<1>17. Moves(s, e, [ss |-> y, pt |-> q, t |-> e.t], told)
  BY <1>1, <1>6, <1>11, SessionAndPoint
<1>. QED BY <1>1, <1>9, <1>14, <1>15, <1>16, <1>17

LEMMA JudgeMoves ==
  ASSUME NEW e, NEW told, EndOk("A", e), NEW hard \in BOOLEAN,
         NEW n \in Nat, n > 0 => n \in fallbacks(e)
  PROVE  Moves("A", e, judge_burst(e, hard, n), told)
<1>1. PICK r : r = e.ss
  OBVIOUS
<1>2. r \in Sessions
  BY <1>1, EndIs
<1>3. PICK m : m = Lower(r.floor_hard_fails + 1, 2)
  OBVIOUS
<1>4. m \in Nat /\ 0 \in Nat
  <2>1. r.floor_hard_fails \in Nat
    BY <1>2, Fields
  <2>. QED BY <1>3, <2>1 DEF Lower
<1>5. PICK x, y : x = [r EXCEPT !.floor_hard_fails = m] /\ y = [r EXCEPT !.floor_hard_fails = 0]
  OBVIOUS
<1>6. Alike(r, x) /\ Alike(r, y) /\ x \in Sessions
  BY <1>2, <1>4, <1>5, Set1 DEF Alike
<1>7. Moves("A", e, [e EXCEPT !.ss = x], told) /\ Moves("A", e, [e EXCEPT !.ss = y], told)
  BY <1>1, <1>6, AlikeOnward, SessionOnly, ModeFacts
<1>8. PICK z : z = retrain(x)
  OBVIOUS
<1>9. Moves("A", e, [e EXCEPT !.ss = z], told)
  <2>1. /\ z \in Sessions /\ (z.st = "IDLE" => x.st = "IDLE")
        /\ Says(z) => Says(x)
        /\ z.gate # "" => x.gate # ""
        /\ Range(z.win) \subseteq Range(x.win)
    BY <1>6, <1>8, Retrain1
  <2>2. (Says(x) => Says(r)) /\ x.gate = r.gate /\ x.win = r.win /\ x.st = r.st
    BY <1>6 DEF Alike, Says
  <2>3. Quieter(e.ss, z)
    BY <1>1, <2>1, <2>2 DEF Quieter
  <2>. QED BY <2>3, AnswererSession
<1>10. CASE n > 0
  <2>1. judge_burst(e, hard, n) = [rate_fallback(e, n) EXCEPT !.ss.floor_hard_fails = 0]
    BY <1>10 DEF judge_burst
  <2>. QED BY <1>10, <2>1, FallbackMoves, ModeFacts
<1>11. CASE ~(n > 0) /\ ~hard
  <2>1. judge_burst(e, hard, n) = [e EXCEPT !.ss = y]
    BY <1>1, <1>5, <1>11 DEF judge_burst
  <2>. QED BY <1>7, <2>1
<1>12. CASE ~(n > 0) /\ hard
  <2>1. judge_burst(e, hard, n) = [e EXCEPT !.ss = z] \/ judge_burst(e, hard, n) = [e EXCEPT !.ss = x]
    BY <1>1, <1>3, <1>5, <1>8, <1>12 DEF judge_burst
  <2>. QED BY <1>7, <1>9, <2>1
<1>. QED BY <1>10, <1>11, <1>12

SetSt(r, st) == [r EXCEPT !.st = st]

LEMMA SetSt1 ==
  ASSUME NEW r \in Sessions, r.st # "IDLE", NEW st \in SessionStates, st \notin Beginning
  PROVE  Onward(r, SetSt(r, st))
<1>1. PICK x : x = SetSt(r, st)
  OBVIOUS
<1>2. x \in Sessions
  BY <1>1 DEF Sessions, SetSt
<1>3. /\ x.st = st /\ x.done = r.done /\ x.rx_mode = r.rx_mode
      /\ x.frames = r.frames /\ x.saved = r.saved /\ x.gate = r.gate /\ x.win = r.win
  BY <1>1 DEF Sessions, SetSt
<1>4. Onward(r, x)
  BY <1>2, <1>3 DEF Onward, Says
<1>. QED BY <1>1, <1>4

LEMMA TrainMoves ==
  ASSUME NEW s \in Sides, NEW e, NEW told, EndOk(s, e), e.ss.st # "IDLE",
         NEW n \in rate_mask[e.pt.srate]
  PROVE  Moves(s, e, train(e, n), told)
<1>1. PICK r, p, t : r = e.ss /\ p = e.pt /\ t = e.t
  OBVIOUS
<1>2. r \in Sessions /\ p \in SafePoints /\ e = [ss |-> r, pt |-> p, t |-> t]
  BY <1>1, EndIs
<1>3. p.srate \in Srates /\ p.local_max \in 1..14 /\ p.local_max <= top_rate(p.srate)
  BY <1>2, PointFacts
<1>4. n \in 1..14 /\ n <= top_rate(p.srate)
  BY <1>1, <1>3, RateFacts
<1>5. PICK m : m = Lower(p.local_max, n)
  OBVIOUS
<1>6. m \in 1..14 /\ m <= top_rate(p.srate)
  BY <1>3, <1>4, <1>5 DEF Lower
<1>7. PICK q : q = [p EXCEPT !.local_max = m]
  OBVIOUS
<1>8. q \in SafePoints /\ q.srate = p.srate
  <2>1. q \in SafePoints
    BY <1>2, <1>6, <1>7, PointFacts
  <2>2. q.srate = p.srate
    BY <1>2, <1>7 DEF SafePoints, Points
  <2>. QED BY <2>1, <2>2
<1>9. PICK x : x = SetSt(r, "A_CC1_Q")
  OBVIOUS
<1>10. Onward(r, x)
  BY <1>1, <1>2, <1>9, SetSt1 DEF SessionStates, Beginning
<1>11. PICK a, b : a = [e EXCEPT !.ss = x] /\ b = [a EXCEPT !.pt = q]
  OBVIOUS
<1>12. a = [ss |-> x, pt |-> p, t |-> t]
  BY <1>2, <1>11, Put
<1>13. b = [ss |-> x, pt |-> q, t |-> t] /\ a.pt = p
  <2>1. b = [a EXCEPT !.pt = q]
    BY <1>11
  <2>2. b = [ss |-> x, pt |-> q, t |-> t]
    BY <1>12, <2>1, Put
  <2>. QED BY <1>12, <2>2
<1>14. train(e, n) = b
  BY <1>1, <1>5, <1>7, <1>9, <1>11, <1>13 DEF train, SetSt
<1>15. Moves(s, e, [ss |-> x, pt |-> q, t |-> e.t], told)
  BY <1>1, <1>8, <1>10, SessionAndPoint
<1>. QED BY <1>1, <1>13, <1>14, <1>15

(* Frames handed up one after the other. *)
LEMMA FramesMove ==
  ASSUME NEW s \in Sides, NEW a, NEW e, NEW told, Moves(s, a, e, told),
         NEW q \in FrameSeqs, SaysMcf(q) => told
  PROVE  Moves(s, a, on_frames(e, q), told)
<1>. DEFINE T == {x \in EndRecords : Moves(s, a, x, told)}
            X == {f \in ControlFrames : f = "MCF" => told}
<1>1. q \in Seq(X)
  <2>1. q \in Seq(ControlFrames)
    BY DEF FrameSeqs
  <2>2. \A i \in 1..Len(q) : q[i] \in X
    BY <2>1 DEF SaysMcf, Range
  <2>3. Len(q) \in Nat /\ q = [i \in 1..Len(q) |-> q[i]]
    BY <2>1
  <2>. QED BY <2>2, <2>3, SeqDef
<1>2. e \in T
  BY MovesOk DEF EndOk
<1>3. ASSUME NEW x \in T, NEW f \in X PROVE on_frame(x, f) \in T
  <2>1. Moves(s, a, x, told) /\ EndOk(s, x)
    BY MovesOk
  <2>2. Moves(s, x, on_frame(x, f), told)
    <3>1. CASE s = "C"
      BY <2>1, <3>1, CallerFrame
    <3>2. CASE s = "A"
      BY <2>1, <3>2, AnswererFrame
    <3>. QED BY <3>1, <3>2, ModeFacts
  <2>3. Moves(s, a, on_frame(x, f), told)
    BY <2>1, <2>2, MovesMoves
  <2>. QED BY <2>3, MovesOk DEF EndOk
<1>. HIDE DEF T, X
<1>4. on_frames(e, q) \in T
  BY <1>1, <1>2, <1>3, TakenIn
<1>. QED BY <1>4 DEF T

(* The stages of a scan. *)
ScanHeard(e, b) == [e EXCEPT !.ss.burst_seen = @ \/ b]
ScanReport(e, est) == [e EXCEPT !.ss = IF est THEN report_v34(@, TRUE) ELSE @]
ScanHandUp(e, got, up) == on_frames([e EXCEPT !.ss = hand_up(@, got)], up)

LEMMA ScanIs ==
  ASSUME NEW s, NEW mph, NEW opens, NEW got
  PROVE  ScanCc(s, mph, opens, got) =
           LET e == End(s)
               heard == RxMode(s) = "PRI" /\ (mph > 0 \/ got # {})
               e1 == ScanHeard(process_cc(e, mph, opens), heard)
               est == CanEstablish(e.ss) /\ mph > 0
               e2 == ScanReport(e1, est)
               e3 == IF est /\ ~e.ss.in_retrain THEN on_startup(e2, TRUE) ELSE e2
           IN  IF e2.ss.done /\ e2.ss.st = "DONE"
                 THEN ScanHandUp(e3, got, Only(e.ss.win, got))
                 ELSE e3
  BY DEF ScanCc, ScanHeard, ScanReport, ScanHandUp

LEMMA ScanMoves ==
  ASSUME NEW s \in Sides, EndsInv, NEW mph \in Rates, NEW opens \in BOOLEAN,
         NEW got \in SUBSET Range(ss[s].win), ss[s].st # "IDLE"
  PROVE  Moves(s, End(s), ScanCc(s, mph, opens, got), SaysMcf(ss[s].win))
<1>1. PICK e, told : e = End(s) /\ told = SaysMcf(ss[s].win)
  OBVIOUS
<1>2. EndOk(s, e) /\ e.ss = ss[s] /\ e.ss \in Sessions
  <2>1. EndOk(s, e)
    BY <1>1 DEF EndsInv
  <2>2. e.ss = ss[s]
    BY <1>1 DEF End
  <2>. QED BY <2>1, <2>2, EndIs
<1>3. got \in FrameSets
  <2>1. e.ss.win \in Seq(ControlFrames)
    BY <1>2, Fields DEF FrameSeqs
  <2>2. Range(e.ss.win) \subseteq ControlFrames
    BY <2>1 DEF Range
  <2>. QED BY <1>2, <2>2 DEF FrameSets
<1>4. PICK e0 : e0 = process_cc(e, mph, opens)
  OBVIOUS
<1>5. PICK x0 : Alike(e.ss, x0) /\ e0 = [e EXCEPT !.ss = x0]
  BY <1>2, <1>4, ProcessCc
<1>6. Moves(s, e, e0, told) /\ EndOk(s, e0) /\ e0.ss = x0
  <2>1. Moves(s, e, e0, told)
    BY <1>2, <1>5, AlikeOnward, SessionOnly
  <2>2. e0.ss = x0
    <3>1. PICK r, p, t : r = e.ss /\ p = e.pt /\ t = e.t
      OBVIOUS
    <3>2. e = [ss |-> r, pt |-> p, t |-> t]
      BY <1>2, <3>1, EndIs
    <3>3. e0 = [ss |-> x0, pt |-> p, t |-> t]
      BY <1>5, <3>2, Put
    <3>. QED BY <3>3
  <2>. QED BY <2>1, <2>2, MovesOk
<1>7. PICK b : b = (e0.ss.burst_seen \/ (RxMode(s) = "PRI" /\ (mph > 0 \/ got # {})))
  OBVIOUS
<1>8. PICK x1 : x1 = [x0 EXCEPT !.burst_seen = b]
  OBVIOUS
<1>9. Alike(x0, x1) /\ x1.st # "IDLE"
  <2>1. x0 \in Sessions /\ x0.st = e.ss.st
    BY <1>5 DEF Alike
  <2>2. Alike(x0, x1)
    BY <1>7, <1>8, <2>1, Set1
  <2>. QED BY <1>2, <2>1, <2>2 DEF Alike
<1>10. PICK e1 : e1 = [e0 EXCEPT !.ss = x1]
  OBVIOUS
<1>11. Moves(s, e, e1, told) /\ EndOk(s, e1) /\ e1.ss = x1
  <2>1. Moves(s, e0, e1, told)
    BY <1>6, <1>9, <1>10, AlikeOnward, SessionOnly
  <2>2. e1.ss = x1
    <3>1. PICK r, p, t : r = e0.ss /\ p = e0.pt /\ t = e0.t
      OBVIOUS
    <3>2. e0 = [ss |-> r, pt |-> p, t |-> t]
      BY <1>6, <3>1, EndIs
    <3>3. e1 = [ss |-> x1, pt |-> p, t |-> t]
      BY <1>10, <3>2, Put
    <3>. QED BY <3>3
  <2>. QED BY <1>6, <2>1, <2>2, MovesMoves, MovesOk
<1>12. PICK est : est = (CanEstablish(e.ss) /\ mph > 0)
  OBVIOUS
<1>13. PICK x2 : x2 = IF est THEN report_v34(x1, TRUE) ELSE x1
  OBVIOUS
<1>14. Onward(x1, x2)
  <2>1. x1 \in Sessions
    BY <1>9 DEF Alike
  <2>2. est => Onward(x1, x2)
    BY <1>9, <1>13, <2>1, Report1
  <2>3. ~est => Onward(x1, x2)
    BY <1>13, <2>1 DEF Onward
  <2>. QED BY <2>2, <2>3
<1>15. PICK e2 : e2 = [e1 EXCEPT !.ss = x2]
  OBVIOUS
<1>16. Moves(s, e, e2, told) /\ EndOk(s, e2)
  <2>1. Moves(s, e1, e2, told)
    BY <1>11, <1>14, <1>15, SessionOnly
  <2>. QED BY <1>11, <2>1, MovesMoves, MovesOk
<1>17. PICK e3 : e3 = IF est /\ ~e.ss.in_retrain THEN on_startup(e2, TRUE) ELSE e2
  OBVIOUS
<1>18. Moves(s, e, e3, told) /\ EndOk(s, e3)
  <2>1. Moves(s, e2, on_startup(e2, TRUE), told)
    BY <1>16, StartupMoves
  <2>. QED BY <1>16, <1>17, <2>1, MovesMoves, MovesOk
<1>19. PICK x4, up : x4 = hand_up(e3.ss, got) /\ up = Only(e.ss.win, got)
  OBVIOUS
<1>20. PICK e4 : e4 = [e3 EXCEPT !.ss = x4]
  OBVIOUS
<1>21. Moves(s, e, e4, told)
  <2>1. Onward(e3.ss, x4)
    BY <1>3, <1>18, <1>19, EndIs, HandUp1
  <2>2. Moves(s, e3, e4, told)
    BY <1>18, <1>20, <2>1, SessionOnly
  <2>. QED BY <1>18, <2>2, MovesMoves
<1>22. up \in FrameSeqs /\ (SaysMcf(up) => told)
  <2>1. up \in FrameSeqs /\ Range(up) \subseteq Range(e.ss.win)
    BY <1>2, <1>19, Fields, OnlyRange
  <2>. QED BY <1>1, <1>2, <2>1 DEF SaysMcf
<1>23. Moves(s, e, on_frames(e4, up), told)
  BY <1>21, <1>22, FramesMove
<1>24. ScanCc(s, mph, opens, got) = on_frames(e4, up) \/ ScanCc(s, mph, opens, got) = e3
  <2>1. PICK h : h = (RxMode(s) = "PRI" /\ (mph > 0 \/ got # {}))
    OBVIOUS
  <2>2. e1 = ScanHeard(e0, h)
    <3>1. x1 = [e0.ss EXCEPT !.burst_seen = e0.ss.burst_seen \/ h]
      BY <1>6, <1>7, <1>8, <2>1
    <3>2. ScanHeard(e0, h) = [e0 EXCEPT !.ss = [e0.ss EXCEPT !.burst_seen = e0.ss.burst_seen \/ h]]
      BY DEF ScanHeard
    <3>. QED BY <1>10, <3>1, <3>2
  <2>3. e2 = ScanReport(e1, est)
    <3>1. x2 = IF est THEN report_v34(e1.ss, TRUE) ELSE e1.ss
      BY <1>11, <1>13
    <3>. QED BY <1>15, <3>1 DEF ScanReport
  <2>4. on_frames(e4, up) = ScanHandUp(e3, got, up)
    <3>1. e4 = [e3 EXCEPT !.ss = hand_up(e3.ss, got)]
      BY <1>19, <1>20
    <3>. QED BY <3>1 DEF ScanHandUp
  <2>5. e1 = ScanHeard(process_cc(End(s), mph, opens),
                       RxMode(s) = "PRI" /\ (mph > 0 \/ got # {}))
    BY <1>1, <1>4, <2>1, <2>2
  <2>6. e2 = ScanReport(e1, CanEstablish(End(s).ss) /\ mph > 0)
    BY <1>1, <1>12, <2>3
  <2>7. e3 = IF (CanEstablish(End(s).ss) /\ mph > 0) /\ ~End(s).ss.in_retrain
               THEN on_startup(e2, TRUE) ELSE e2
    BY <1>1, <1>12, <1>17
  <2>8. on_frames(e4, up) = ScanHandUp(e3, got, Only(End(s).ss.win, got))
    BY <1>1, <1>19, <2>4
  <2>. QED BY <2>5, <2>6, <2>7, <2>8, ScanIs, Zenon
<1>. QED BY <1>1, <1>18, <1>23, <1>24

-----------------------------------------------------------------------------
(* Steps of one end: its own record moves, its peer may hear it. *)

LEMMA PeerFacts ==
  ASSUME NEW s \in Sides
  PROVE  Peer(s) \in Sides /\ Peer(s) # s /\ Sides = {s, Peer(s)} /\ Peer(Peer(s)) = s
  BY DEF Sides, Peer

(* The invariant keeps what concerns the peer only. *)
Changed(s, e, r) ==
  /\ DOMAIN ss' = Sides /\ DOMAIN t30' = Sides /\ DOMAIN point' = Sides
  /\ ss'[s] = e.ss /\ t30'[s] = e.t /\ point'[s] = e.pt
  /\ ss'[Peer(s)] = r /\ t30'[Peer(s)] = t30[Peer(s)] /\ point'[Peer(s)] = point[Peer(s)]

LEMMA BothIs ==
  ASSUME NEW s \in Sides, EndsInv, NEW e, NEW r, Both(s, e, r)
  PROVE  Changed(s, e, r)
<1>. DEFINE p == Peer(s)
<1>1. p \in Sides /\ p # s
  BY PeerFacts
<1>2. DOMAIN ss = Sides /\ DOMAIN t30 = Sides /\ DOMAIN point = Sides
  BY DEF EndsInv
<1>3. ss' = [ss EXCEPT ![s] = e.ss, ![p] = r] /\ t30' = [t30 EXCEPT ![s] = e.t]
      /\ point' = [point EXCEPT ![s] = e.pt]
  BY DEF Both
<1>4. DOMAIN ss' = Sides /\ ss'[s] = e.ss /\ ss'[p] = r
  BY <1>1, <1>2, <1>3
<1>5. DOMAIN t30' = Sides /\ t30'[s] = e.t /\ t30'[p] = t30[p]
  BY <1>1, <1>2, <1>3
<1>6. DOMAIN point' = Sides /\ point'[s] = e.pt /\ point'[p] = point[p]
  BY <1>1, <1>2, <1>3
<1>. QED BY <1>4, <1>5, <1>6 DEF Changed

(* Phase 2 of the peer is left alone; the answerer may begin its own again. *)
P2Left(s) ==
  /\ UNCHANGED p2_roll
  /\ \/ UNCHANGED <<p2_state, p2_info_seen>>
     \/ s = "A" /\ p2_init("A") /\ On("A") /\ ss["A"].gate # ""

Audible(s, r) ==
  /\ Hears(ss[Peer(s)], r, ss[s].saved)
  /\ r.gate # "" => ss[Peer(s)].gate # "" \/ On(s)

Told(s) == SaysMcf(ss[s].win)

LEMMA EndsKeep ==
  ASSUME CallInv, NEW s \in Sides, NEW e, NEW r, Changed(s, e, r), Moves(s, End(s), e, Told(s)),
         Audible(s, r)
  PROVE  EndsInv'
<1>. DEFINE p == Peer(s)
<1>1. p \in Sides /\ p # s /\ Sides = {s, p}
  BY PeerFacts
<1>2. EndOk(s, e) /\ e = [ss |-> e.ss, pt |-> e.pt, t |-> e.t]
  BY MovesOk DEF Moves
<1>3. End(s)' = e
  BY <1>2 DEF Changed, End
<1>4. EndOk(p, End(p))
  BY <1>1 DEF CallInv, TypeInv, EndsInv
<1>5. PICK f : f = [ss |-> r, pt |-> point[p], t |-> t30[p]]
  OBVIOUS
<1>6. End(p)' = f
  BY <1>5 DEF Changed, End
<1>7. EndOk(p, f)
  <2>1. PICK x, y, z : x = ss[p] /\ y = point[p] /\ z = t30[p]
    OBVIOUS
  <2>2. End(p) = [ss |-> x, pt |-> y, t |-> z] /\ f = [ss |-> r, pt |-> y, t |-> z]
    BY <1>5, <2>1 DEF End
  <2>3. x \in Sessions /\ y \in SafePoints /\ z \in Engines /\ z.sub \in SubsOf(p)
        /\ (p = "C" => x.rx_mode # "PRI" /\ (x.done => x.st \notin Beginning))
        /\ (p = "A" => Acked(z))
    BY <1>4, <2>2 DEF EndOk, EndRecords
  <2>4. r \in Sessions /\ r.rx_mode = x.rx_mode /\ r.done = x.done /\ r.st = x.st
    BY <2>1 DEF Audible, Hears
  <2>5. f \in EndRecords /\ f.ss = r /\ f.t = z
    BY <2>2, <2>3, <2>4 DEF EndRecords
  <2>. QED BY <2>3, <2>4, <2>5 DEF EndOk
<1>8. \A q \in Sides : EndOk(q, End(q)')
  BY <1>1, <1>2, <1>3, <1>6, <1>7
<1>. QED BY <1>8 DEF EndsInv, Changed, EndOk, End

LEMMA McfKeep ==
  ASSUME CallInv, NEW s \in Sides, NEW e, NEW r, Changed(s, e, r), Moves(s, End(s), e, Told(s)),
         Audible(s, r)
  PROVE  McfInv'
<1>1. McfInv
  BY DEF CallInv
<1>2. PICK a, t : a = ss[s] /\ t = t30[s]
  OBVIOUS
<1>3. End(s).ss = a /\ End(s).t = t
  BY <1>2 DEF End
<1>4. EngineMoves(s, t, e.t, SaysMcf(a.win)) /\ SessionMoves(s, a, e.ss, e.t)
  BY <1>2, <1>3 DEF Moves, Told
<1>5. PICK b : b = ss[Peer(s)]
  OBVIOUS
<1>6. r.frames = b.frames /\ r.saved = b.saved /\ Range(r.win) \subseteq Range(b.win) \cup Range(a.saved)
  BY <1>2, <1>5 DEF Audible, Hears
<1>7. CASE s = "C"
  <2>1. Peer(s) = "A"
    BY <1>7 DEF Peer
  <2>2. Confirmed(e.t) => Confirmed(t) \/ SaysMcf(a.win)
    BY <1>4, <1>7 DEF EngineMoves
  <2>3. SaysMcf(e.ss.win) => SaysMcf(a.win)
    BY <1>4 DEF SessionMoves, SaysMcf
  <2>4. ss'["C"] = e.ss /\ ss'["A"] = r /\ t30'["C"] = e.t /\ t30'["A"] = t30["A"]
    BY <1>7, <2>1 DEF Changed
  <2>. QED BY <1>1, <1>2, <1>5, <1>6, <1>7, <2>1, <2>2, <2>3, <2>4 DEF McfInv
<1>8. CASE s = "A"
  <2>1. Peer(s) = "C"
    BY <1>8 DEF Peer
  <2>2. Delivered(t) => Delivered(e.t)
    BY <1>4, <1>8 DEF EngineMoves
  <2>3. Says(e.ss) => Says(a) \/ Delivered(e.t)
    BY <1>4, <1>8 DEF SessionMoves
  <2>4. SaysMcf(r.win) => SaysMcf(b.win) \/ SaysMcf(a.saved)
    BY <1>6 DEF SaysMcf
  <2>5. ss'["A"] = e.ss /\ ss'["C"] = r /\ t30'["A"] = e.t /\ t30'["C"] = t30["C"]
    BY <1>8, <2>1 DEF Changed
  <2>. QED BY <1>1, <1>2, <1>5, <1>8, <2>1, <2>2, <2>3, <2>4, <2>5 DEF McfInv, Says
<1>. QED BY <1>7, <1>8 DEF Sides

LEMMA P2Keep ==
  ASSUME CallInv, NEW s \in Sides, NEW e, NEW r, Changed(s, e, r), Moves(s, End(s), e, Told(s)),
         Audible(s, r), P2Left(s)
  PROVE  P2Inv'
<1>1. P2Inv
  BY DEF CallInv, TypeInv
<1>2. ss'["C"].st = "START" => ss["C"].st = "START"
  <2>1. CASE s = "C"
    <3>1. SessionMoves(s, ss["C"], e.ss, e.t) /\ ss'["C"] = e.ss
      BY <2>1 DEF Moves, End, Changed
    <3>. QED BY <2>1, <3>1 DEF SessionMoves
  <2>2. CASE s = "A"
    <3>1. Peer(s) = "C"
      BY <2>2 DEF Peer
    <3>. QED BY <3>1 DEF Audible, Hears, Changed
  <2>. QED BY <2>1, <2>2 DEF Sides
<1>3. CASE UNCHANGED <<p2_state, p2_info_seen>>
  BY <1>1, <1>2, <1>3 DEF P2Inv
<1>4. CASE p2_init("A")
  <2>1. p2_state' = [p2_state EXCEPT !["A"] = "A_SILENCE"]
        /\ p2_info_seen' = [p2_info_seen EXCEPT !["A"] = FALSE]
    BY <1>4 DEF p2_init
  <2>2. "A_SILENCE" \in AnswererP2 /\ "A" \in Sides /\ "C" \in Sides
    BY DEF AnswererP2, Sides
  <2>3. p2_info_seen' \in [Sides -> BOOLEAN]
    BY <1>1, <2>1, <2>2 DEF P2Inv
  <2>4. p2_state' \in [Sides -> CallerP2 \cup AnswererP2] /\ p2_state'["A"] = "A_SILENCE"
        /\ p2_state'["C"] = p2_state["C"]
    BY <1>1, <2>1, <2>2 DEF P2Inv
  <2>. QED BY <1>1, <1>2, <2>2, <2>3, <2>4 DEF P2Inv
<1>. QED BY <1>3, <1>4 DEF P2Left

(* T.30 and the session wait while V.8 runs. *)
V8Waits(s, e) == V8Runs(s) => e.ss.st = "IDLE" /\ e.t.sub \in {t30[s].sub, "DONE"}

LEMMA V8Keep ==
  ASSUME CallInv, NEW s \in Sides, NEW e, NEW r, Changed(s, e, r),
         Audible(s, r), P2Left(s), V8Waits(s, e), UNCHANGED v8Vars
  PROVE  V8Inv'
<1>1. V8Inv
  BY DEF CallInv, TypeInv
<1>2. v8' = v8 /\ v8_status' = v8_status /\ modulations' = modulations
      /\ our_modulations' = our_modulations
  BY DEF v8Vars
<1>3. ASSUME NEW q \in Sides, V8Runs(q)
      PROVE  /\ ss'[q].st = "IDLE" /\ p2_state'[q] = "OFF"
             /\ t30'[q].sub \in {"C_WAIT_V8", "A_SEND_V8", "DONE"}
  <2>1. ss[q].st = "IDLE" /\ p2_state[q] = "OFF"
        /\ t30[q].sub \in {"C_WAIT_V8", "A_SEND_V8", "DONE"}
    BY <1>1, <1>3 DEF V8Inv
  <2>2. p2_state'[q] = "OFF"
    <3>1. CASE UNCHANGED <<p2_state, p2_info_seen>>
      BY <2>1, <3>1
    <3>2. CASE p2_init("A") /\ On("A")
      <4>1. q # "A"
        BY <2>1, <3>2 DEF On
      <4>2. p2_state' = [p2_state EXCEPT !["A"] = "A_SILENCE"]
        BY <3>2 DEF p2_init
      <4>3. p2_state'[q] = p2_state[q]
        BY <4>1, <4>2 DEF CallInv, TypeInv, P2Inv
      <4>. QED BY <2>1, <4>3
    <3>. QED BY <3>1, <3>2 DEF P2Left
  <2>3. CASE q = s
    BY <1>3, <2>1, <2>2, <2>3 DEF V8Waits, Changed
  <2>4. CASE q = Peer(s)
    BY <2>1, <2>2, <2>4 DEF Audible, Hears, Changed
  <2>. QED BY <2>3, <2>4, PeerFacts
<1>4. V8TypeOK'
  BY <1>1, <1>2 DEF V8Inv, V8TypeOK
<1>5. \A q \in Sides : V8Runs(q)' <=> V8Runs(q)
  BY <1>2 DEF V8Runs
<1>6. \A q \in Sides : V8Runs(q) => v8_status[q] = ""
  BY <1>1 DEF V8Inv
<1>7. v8["C"] \in CallerV8 /\ v8["A"] \in AnswererV8
  BY <1>1 DEF V8Inv
<1>. QED BY <1>2, <1>3, <1>4, <1>5, <1>6, <1>7 DEF V8Inv

LEMMA PointKeep ==
  ASSUME CallInv, NEW s \in Sides, NEW e, NEW r, Changed(s, e, r), Moves(s, End(s), e, Told(s)),
         Audible(s, r), P2Left(s), Other
  PROVE  PointInv'
<1>1. PointInv /\ P2Inv
  BY DEF CallInv, TypeInv
<1>2. p2_roll' = p2_roll /\ arriving' = arriving /\ v8' = v8
  BY DEF P2Left, Other, v8Vars
<1>3. p2_state'["C"] = p2_state["C"] /\ p2_state'["A"] \in {p2_state["A"], "A_SILENCE"}
  <2>1. CASE UNCHANGED <<p2_state, p2_info_seen>>
    BY <2>1
  <2>2. CASE p2_init("A")
    <3>1. p2_state' = [p2_state EXCEPT !["A"] = "A_SILENCE"]
      BY <2>2 DEF p2_init
    <3>. QED BY <1>1, <3>1 DEF P2Inv, Sides
  <2>. QED BY <2>1, <2>2 DEF P2Left
<1>4. point'["C"].srate = point["C"].srate /\ point'["A"].srate = point["A"].srate
  <2>1. e.pt.srate = point[s].srate
    BY DEF Moves, End
  <2>2. \A q \in Sides : q = s \/ q = Peer(s)
    BY PeerFacts
  <2>3. \A q \in Sides : point'[q].srate = point[q].srate
    BY <2>1, <2>2 DEF Changed
  <2>. QED BY <2>3 DEF Sides
<1>5. Settled2' => Settled2
  <2>1. CASE s = "C"
    <3>1. SessionMoves(s, ss["C"], e.ss, e.t) /\ ss'["C"] = e.ss /\ t30'["C"] = e.t
          /\ EngineMoves(s, t30["C"], e.t, Told(s))
      BY <2>1 DEF Moves, End, Changed
    <3>2. t30'["C"].sub # "DONE" => t30["C"].sub # "DONE"
      BY <3>1 DEF EngineMoves
    <3>3. ss["C"].st = "IDLE" => ss'["C"].st = "IDLE"
      BY <2>1, <3>1 DEF SessionMoves
    <3>4. ss["C"].st = "START" => p2_state["C"] # "OFF"
      BY <1>1 DEF P2Inv
    <3>. QED BY <1>3, <3>2, <3>3, <3>4 DEF Settled2
  <2>2. CASE s = "A"
    <3>1. ss'["C"].st = ss["C"].st /\ t30'["C"] = t30["C"]
      BY <2>2 DEF Audible, Hears, Changed, Peer
    <3>. QED BY <1>3, <3>1 DEF Settled2
  <2>. QED BY <2>1, <2>2 DEF Sides
<1>6. Past2 => Past2'
  <2>1. CASE s = "C"
    <3>1. SessionMoves(s, ss["C"], e.ss, e.t) /\ ss'["C"] = e.ss /\ t30'["C"] = e.t
          /\ EngineMoves(s, t30["C"], e.t, Told(s))
      BY <2>1 DEF Moves, End, Changed
    <3>2. t30["C"].sub = "DONE" => t30'["C"].sub = "DONE"
      BY <3>1 DEF EngineMoves
    <3>3. ss["C"].st \notin Beginning => ss'["C"].st \notin Beginning \/ t30'["C"].sub = "DONE"
      BY <2>1, <3>1 DEF SessionMoves
    <3>. QED BY <1>3, <3>2, <3>3 DEF Past2, Settled2, Beginning
  <2>2. CASE s = "A"
    <3>1. ss'["C"].st = ss["C"].st /\ t30'["C"] = t30["C"]
      BY <2>2 DEF Audible, Hears, Changed, Peer
    <3>. QED BY <1>3, <3>1 DEF Past2, Settled2
  <2>. QED BY <2>1, <2>2 DEF Sides
<1>7. ss'["A"].gate # "" => Past2
  <2>1. CASE s = "C"
    <3>1. ss'["A"] = r /\ (r.gate # "" => ss["A"].gate # "" \/ On("C"))
      BY <2>1 DEF Audible, Changed, Peer
    <3>2. On("C") => Settled2
      BY DEF On, Settled2
    <3>. QED BY <1>1, <3>1, <3>2 DEF PointInv, Past2
  <2>2. CASE s = "A"
    <3>1. SessionMoves(s, ss["A"], e.ss, e.t) /\ ss'["A"] = e.ss
      BY <2>2 DEF Moves, End, Changed
    <3>. QED BY <1>1, <3>1 DEF PointInv, SessionMoves
  <2>. QED BY <2>1, <2>2 DEF Sides
<1>8. Settled2' =>
        /\ point'["C"].srate = point'["A"].srate /\ arriving'["C"].sig = "SILENCE"
        /\ p2_state'["A"] \in {"OFF", "A_INFOH", "A_SILENCE", "A_INFO0", "A_TONEA"}
  BY <1>1, <1>2, <1>3, <1>4, <1>5 DEF PointInv
<1>9. p2_roll'["C"].sig = "INFOH" /\ ~Past2' =>
        /\ p2_roll'["C"].srate = point'["A"].srate
        /\ p2_state'["A"] \in {"OFF", "A_INFOH"} /\ ~V8Runs("A")'
  <2>1. SUFFICES ASSUME p2_roll["C"].sig = "INFOH", ~Past2
                 PROVE  /\ p2_roll["C"].srate = point["A"].srate
                        /\ p2_state'["A"] \in {"OFF", "A_INFOH"} /\ ~V8Runs("A")
    BY <1>2, <1>4, <1>6 DEF V8Runs
  <2>2. p2_roll["C"].srate = point["A"].srate /\ p2_state["A"] \in {"OFF", "A_INFOH"}
        /\ ~V8Runs("A") /\ ss["A"].gate = ""
    BY <1>1, <2>1 DEF PointInv
  <2>3. p2_state' = p2_state
    BY <2>2 DEF P2Left
  <2>. QED BY <2>2, <2>3
<1>. QED BY <1>6, <1>7, <1>8, <1>9 DEF PointInv

LEMMA ChangedKeeps ==
  ASSUME CallInv, NEW s \in Sides, NEW e, NEW r, Changed(s, e, r), Moves(s, End(s), e, Told(s)),
         Audible(s, r), P2Left(s), Other, V8Waits(s, e)
  PROVE  CallInv'
<1>1. EndsInv' /\ McfInv' /\ P2Inv' /\ PointInv'
  BY EndsKeep, McfKeep, P2Keep, PointKeep
<1>2. V8Inv'
  BY V8Keep DEF Other
<1>3. UNCHANGED arriving /\ UNCHANGED v8Vars /\ UNCHANGED p2_roll
  BY DEF Other, P2Left
<1>4. LineInv'
  BY <1>3 DEF CallInv, TypeInv, LineInv
<1>5. AgreeInv'
  BY <1>3 DEF CallInv, AgreeInv, CommonMods, CallerAgrees, AnswererAgrees, v8Vars
<1>. QED BY <1>1, <1>2, <1>4, <1>5 DEF CallInv, TypeInv

LEMMA BothKeeps ==
  ASSUME CallInv, NEW s \in Sides, NEW e, NEW r, Both(s, e, r), Moves(s, End(s), e, Told(s)),
         Audible(s, r), P2Left(s), Other, V8Waits(s, e)
  PROVE  CallInv'
  BY BothIs, ChangedKeeps DEF CallInv, TypeInv

LEMMA EndFacts ==
  ASSUME CallInv, NEW s \in Sides
  PROVE  /\ EndOk(s, End(s)) /\ End(s).ss = ss[s] /\ End(s).pt = point[s] /\ End(s).t = t30[s]
         /\ ss[s] \in Sessions /\ point[s] \in SafePoints /\ t30[s] \in Engines
<1>1. EndOk(s, End(s))
  BY DEF CallInv, TypeInv, EndsInv
<1>2. End(s).ss = ss[s] /\ End(s).pt = point[s] /\ End(s).t = t30[s]
  BY DEF End
<1>. QED BY <1>1, <1>2, EndIs

LEMMA EndPut ==
  ASSUME NEW s, NEW x
  PROVE  LET e == [End(s) EXCEPT !.ss = x] IN e.ss = x /\ e.pt = point[s] /\ e.t = t30[s]
<1>1. PICK r, p, t : r = ss[s] /\ p = point[s] /\ t = t30[s]
  OBVIOUS
<1>2. [End(s) EXCEPT !.ss = x] = [ss |-> x, pt |-> p, t |-> t]
  BY <1>1 DEF End
<1>. QED BY <1>1, <1>2

LEMMA OnFacts ==
  ASSUME CallInv, NEW s \in Sides, On(s)
  PROVE  ss[s].st # "IDLE" /\ ss[s].st \notin Beginning /\ t30[s].sub # "DONE" /\ ~V8Runs(s)
  BY DEF On, Beginning, CallInv, TypeInv, V8Inv

LEMMA OnBoth ==
  ASSUME CallInv, NEW s \in Sides, On(s), NEW e, NEW r, Both(s, e, r),
         Moves(s, End(s), e, Told(s)), Hears(ss[Peer(s)], r, ss[s].saved), Rest
  PROVE  CallInv'
<1>1. Audible(s, r) /\ P2Left(s) /\ Other /\ V8Waits(s, e)
  BY OnFacts DEF Audible, P2Left, Rest, P2Rest, V8Waits
<1>. QED BY <1>1, BothKeeps

LEMMA SelfHears ==
  ASSUME CallInv, NEW s \in Sides
  PROVE  Hears(ss[Peer(s)], ss[Peer(s)], ss[s].saved)
<1>1. ss[Peer(s)] \in Sessions
  BY PeerFacts, EndFacts
<1>. QED BY <1>1 DEF Hears

LEMMA OnBecomes ==
  ASSUME CallInv, NEW s \in Sides, On(s), NEW e, Becomes(s, e), Moves(s, End(s), e, Told(s)), Rest
  PROVE  CallInv'
  BY SelfHears, OnBoth DEF Becomes

LEMMA AnyBecomes ==
  ASSUME CallInv, NEW s \in Sides, NEW e, Becomes(s, e), Moves(s, End(s), e, Told(s)), Rest,
         V8Waits(s, e)
  PROVE  CallInv'
<1>1. Audible(s, ss[Peer(s)]) /\ P2Left(s) /\ Other
  BY SelfHears DEF Audible, P2Left, Rest, P2Rest
<1>. QED BY <1>1, BothKeeps DEF Becomes

(* A step that changes the session of the end only. *)
LEMMA OnSession ==
  ASSUME CallInv, NEW s \in Sides, On(s), NEW x, Onward(ss[s], x), NEW r,
         Both(s, [End(s) EXCEPT !.ss = x], r), Hears(ss[Peer(s)], r, ss[s].saved), Rest
  PROVE  CallInv'
<1>1. Moves(s, End(s), [End(s) EXCEPT !.ss = x], Told(s))
  BY EndFacts, SessionOnly
<1>. QED BY <1>1, OnBoth

LEMMA OnPeer ==
  ASSUME CallInv, NEW s \in Sides, NEW what \in Gates, NEW mph \in Rates
  PROVE  Hears(ss[Peer(s)], Onto(ss[Peer(s)], what, mph), ss[s].saved)
  BY PeerFacts, EndFacts, Onto1

LEMMA TrnPlayedKeeps ==
  ASSUME CallInv, NEW s \in Sides, TrnPlayed(s)
  PROVE  CallInv'
<1>1. On(s) /\ Rest /\ Becomes(s, [End(s) EXCEPT !.ss.pcm = "", !.ss.st = "C_CC_INIT_Q"])
  BY DEF TrnPlayed
<1>2. PICK y, x : y = [ss[s] EXCEPT !.pcm = ""] /\ x = SetSt(y, "C_CC_INIT_Q")
  OBVIOUS
<1>3. Onward(ss[s], x)
  <2>1. Alike(ss[s], y)
    BY <1>2, EndFacts, Set1 DEF Pcms
  <2>2. y \in Sessions /\ y.st # "IDLE"
    BY <1>1, <2>1, OnFacts DEF Alike
  <2>3. Onward(y, x)
    BY <1>2, <2>2, SetSt1 DEF SessionStates, Beginning
  <2>. QED BY <2>1, <2>3, AlikeOnward, OnwardOnward
<1>4. [End(s) EXCEPT !.ss.pcm = "", !.ss.st = "C_CC_INIT_Q"] = [End(s) EXCEPT !.ss = x]
  BY <1>2 DEF End, SetSt
<1>5. Both(s, [End(s) EXCEPT !.ss = x], ss[Peer(s)])
  BY <1>1, <1>4 DEF Becomes
<1>. QED BY <1>1, <1>3, <1>5, SelfHears, OnSession

LEMMA TickKeeps ==
  ASSUME CallInv, NEW s \in Sides, Tick(s)
  PROVE  CallInv'
<1>1. On(s) /\ Rest
  BY DEF Tick
<1>2. CASE Both(s, [End(s) EXCEPT !.ss.pcm = "TRN", !.ss.st = "C_PHASE3_PLAY"],
                Onto(ss[Peer(s)], "trn", 0))
  <2>1. PICK y, x : y = [ss[s] EXCEPT !.pcm = "TRN"] /\ x = SetSt(y, "C_PHASE3_PLAY")
    OBVIOUS
  <2>2. Onward(ss[s], x)
    <3>1. Alike(ss[s], y)
      BY <2>1, EndFacts, Set1 DEF Pcms
    <3>2. y \in Sessions /\ y.st # "IDLE"
      BY <1>1, <3>1, OnFacts DEF Alike
    <3>3. Onward(y, x)
      BY <2>1, <3>2, SetSt1 DEF SessionStates, Beginning
    <3>. QED BY <3>1, <3>3, AlikeOnward, OnwardOnward
  <2>3. [End(s) EXCEPT !.ss.pcm = "TRN", !.ss.st = "C_PHASE3_PLAY"] = [End(s) EXCEPT !.ss = x]
    BY <2>1 DEF End, SetSt
  <2>4. "trn" \in Gates /\ 0 \in Rates
    BY SMT DEF Gates, Rates
  <2>5. Hears(ss[Peer(s)], Onto(ss[Peer(s)], "trn", 0), ss[s].saved)
    BY <2>4, OnPeer
  <2>. QED BY <1>1, <1>2, <2>2, <2>3, <2>5, OnSession
<1>3. ASSUME NEW st \in {"C_CC_INIT_PLAY", "A_CC1_PLAY"},
             Both(s, [End(s) EXCEPT !.ss = [ccs_begin(@, End(s).pt, TRUE) EXCEPT !.st = st]],
                  Onto(ss[Peer(s)], "cc", End(s).pt.local_max))
      PROVE  CallInv'
  <2>1. PICK y, x : y = ccs_begin(ss[s], point[s], TRUE) /\ x = SetSt(y, st)
    OBVIOUS
  <2>2. Onward(ss[s], x)
    <3>1. Alike(ss[s], y)
      BY <2>1, EndFacts, CcsBegin1
    <3>2. y \in Sessions /\ y.st # "IDLE"
      BY <1>1, <3>1, OnFacts DEF Alike
    <3>3. st \in SessionStates /\ st \notin Beginning
      BY <1>3 DEF SessionStates, Beginning
    <3>4. Onward(y, x)
      BY <2>1, <3>2, <3>3, SetSt1
    <3>. QED BY <3>1, <3>4, AlikeOnward, OnwardOnward
  <2>3. [End(s) EXCEPT !.ss = [ccs_begin(@, End(s).pt, TRUE) EXCEPT !.st = st]]
          = [End(s) EXCEPT !.ss = x]
    BY <2>1, EndFacts DEF SetSt
  <2>4. "cc" \in Gates /\ End(s).pt.local_max \in Rates
    <3>1. End(s).pt.local_max \in 1..14
      BY EndFacts, PointFacts
    <3>. QED BY <3>1, SMT DEF Gates, Rates
  <2>5. Hears(ss[Peer(s)], Onto(ss[Peer(s)], "cc", End(s).pt.local_max), ss[s].saved)
    BY <2>4, OnPeer
  <2>. QED BY <1>1, <1>3, <2>2, <2>3, <2>5, OnSession
<1>4. CASE \E q \in {<<"C_CC_INIT_Q", "C_CC_INIT_PLAY">>, <<"A_CC1_Q", "A_CC1_PLAY">>} :
             Both(s, [End(s) EXCEPT !.ss = [ccs_begin(@, End(s).pt, TRUE) EXCEPT !.st = q[2]]],
                  Onto(ss[Peer(s)], "cc", End(s).pt.local_max))
  <2>1. PICK q \in {<<"C_CC_INIT_Q", "C_CC_INIT_PLAY">>, <<"A_CC1_Q", "A_CC1_PLAY">>} :
             Both(s, [End(s) EXCEPT !.ss = [ccs_begin(@, End(s).pt, TRUE) EXCEPT !.st = q[2]]],
                  Onto(ss[Peer(s)], "cc", End(s).pt.local_max))
    BY <1>4
  <2>2. q[2] \in {"C_CC_INIT_PLAY", "A_CC1_PLAY"}
    OBVIOUS
  <2>. QED BY <1>3, <2>1, <2>2
<1>. QED BY <1>2, <1>4 DEF Tick

LEMMA DeadlineKeeps ==
  ASSUME CallInv, NEW s \in Sides, Deadline(s)
  PROVE  CallInv'
<1>1. PICK e, x : e = [End(s) EXCEPT !.ss = x] /\ x = report_v34(ss[s], FALSE)
  OBVIOUS
<1>2. e = [End(s) EXCEPT !.ss = report_v34(@, FALSE)]
  BY <1>1, EndFacts
<1>3. PICK f : f = IF ss[s].in_retrain THEN e ELSE on_startup(e, FALSE)
  OBVIOUS
<1>4. Becomes(s, f) /\ Rest /\ ss[s].st # "IDLE"
  BY <1>2, <1>3 DEF Deadline
<1>5. Moves(s, End(s), e, Told(s))
  <2>1. Onward(ss[s], x)
    BY <1>1, <1>4, EndFacts, Report1
  <2>. QED BY <1>1, <2>1, EndFacts, SessionOnly
<1>6. Moves(s, End(s), f, Told(s))
  <2>1. Moves(s, e, on_startup(e, FALSE), Told(s))
    BY <1>5, MovesOk, StartupMoves
  <2>. QED BY <1>3, <1>5, <2>1, MovesMoves
<1>7. V8Waits(s, f)
  BY <1>4 DEF V8Waits, CallInv, TypeInv, V8Inv
<1>. QED BY <1>4, <1>6, <1>7, AnyBecomes

LEMMA RaiseStreamKeeps ==
  ASSUME CallInv, NEW s \in Sides, RaiseStream(s)
  PROVE  CallInv'
<1>1. PICK b, y, x, n : /\ b = ss[s].reneg_pending /\ y = ccs_begin(ss[s], point[s], b)
                        /\ x = (IF b THEN y ELSE append_frames(y))
                        /\ n = IF use_sh(ss[s], point[s], b) THEN 0 ELSE y.last_adv
  OBVIOUS
<1>2. On(s) /\ Rest /\ Both(s, [End(s) EXCEPT !.ss = x], Onto(ss[Peer(s)], "cc", n))
  BY <1>1, EndFacts DEF RaiseStream
<1>3. b \in BOOLEAN
  BY <1>1, EndFacts, Fields
<1>4. Alike(ss[s], y)
  BY <1>1, <1>3, EndFacts, CcsBegin1
<1>5. y \in Sessions
  BY <1>4 DEF Alike
<1>6. Onward(ss[s], x)
  BY <1>1, <1>4, <1>5, AlikeOnward, OnwardOnward, AppendFrames1
<1>7. n \in Rates /\ "cc" \in Gates
  <2>1. y.last_adv \in Rates
    BY <1>5, Fields
  <2>2. 0 \in Rates
    BY SMT DEF Rates
  <2>. QED BY <1>1, <2>1, <2>2 DEF Gates
<1>. QED BY <1>2, <1>6, <1>7, OnPeer, OnSession

LEMMA RestartKeeps ==
  ASSUME CallInv, NEW s \in Sides, Restart(s)
  PROVE  CallInv'
<1>1. PICK x : x = restart(ss[s], point[s])
  OBVIOUS
<1>2. PICK peer \in {gate_opens(ss[Peer(s)], "cc", x.last_adv),
                     Onto(ss[Peer(s)], "cc", x.last_adv)} :
        Both(s, [End(s) EXCEPT !.ss = x], peer)
  BY <1>1 DEF Restart
<1>3. On(s) /\ Rest
  BY DEF Restart
<1>4. Onward(ss[s], x)
  BY <1>1, EndFacts, Restart1
<1>5. x.last_adv \in Rates /\ "cc" \in Gates
  BY <1>4, Fields DEF Onward, Gates
<1>6. Hears(ss[Peer(s)], peer, ss[s].saved)
  BY <1>2, <1>5, PeerFacts, EndFacts, Onto1
<1>. QED BY <1>2, <1>3, <1>4, <1>6, OnSession

LEMMA TurnAroundKeeps ==
  ASSUME CallInv, NEW s \in Sides, TurnAround(s)
  PROVE  CallInv'
<1>1. PICK x : x = [ss[s] EXCEPT !.ccs_state = "ONES"]
  OBVIOUS
<1>2. On(s) /\ Rest /\ Both(s, [End(s) EXCEPT !.ss = x], ss[Peer(s)])
  BY <1>1, EndFacts DEF TurnAround, Becomes
<1>3. Onward(ss[s], x)
  BY <1>1, EndFacts, Set1, AlikeOnward DEF CcStates
<1>. QED BY <1>2, <1>3, SelfHears, OnSession

LEMMA AppendFramesKeeps ==
  ASSUME CallInv, NEW s \in Sides, AppendFrames(s)
  PROVE  CallInv'
<1>1. PICK x : x = append_frames(ss[s])
  OBVIOUS
<1>2. On(s) /\ Rest /\ Both(s, [End(s) EXCEPT !.ss = x], ss[Peer(s)])
  BY <1>1, EndFacts DEF AppendFrames, Becomes
<1>3. Onward(ss[s], x)
  BY <1>1, EndFacts, AppendFrames1
<1>. QED BY <1>2, <1>3, SelfHears, OnSession

LEMMA CarrierFallsKeeps ==
  ASSUME CallInv, NEW s \in Sides, CarrierFalls(s)
  PROVE  CallInv'
<1>1. On(s) /\ Rest
  BY DEF CarrierFalls
<1>2. CASE Becomes(s, [End(s) EXCEPT !.ss.ccs_state = "DRAIN"])
  <2>1. PICK x : x = [ss[s] EXCEPT !.ccs_state = "DRAIN"]
    OBVIOUS
  <2>2. Both(s, [End(s) EXCEPT !.ss = x], ss[Peer(s)])
    BY <1>2, <2>1, EndFacts DEF Becomes
  <2>3. Onward(ss[s], x)
    BY <2>1, EndFacts, Set1, AlikeOnward DEF CcStates
  <2>. QED BY <1>1, <2>2, <2>3, SelfHears, OnSession
<1>3. CASE Becomes(s, [End(s) EXCEPT !.ss = ccs_reset(@)])
  <2>1. PICK x : x = ccs_reset(ss[s])
    OBVIOUS
  <2>2. Both(s, [End(s) EXCEPT !.ss = x], ss[Peer(s)])
    BY <1>3, <2>1, EndFacts DEF Becomes
  <2>3. Onward(ss[s], x)
    BY <2>1, EndFacts, CcsReset1, AlikeOnward
  <2>. QED BY <1>1, <2>2, <2>3, SelfHears, OnSession
<1>. QED BY <1>2, <1>3 DEF CarrierFalls

LEMMA InterlockKeeps ==
  ASSUME CallInv, NEW s \in Sides, Interlock(s)
  PROVE  CallInv'
<1>1. PICK x, r : /\ x = interlock(ss[s])
                  /\ r = IF ss[Peer(s)].gate = "cc"
                           THEN [ss[Peer(s)] EXCEPT !.win_mph = ss[s].last_adv] ELSE ss[Peer(s)]
  OBVIOUS
<1>2. On(s) /\ Rest /\ Both(s, [End(s) EXCEPT !.ss = x], r)
  BY <1>1, EndFacts DEF Interlock
<1>3. Onward(ss[s], x)
  BY <1>1, EndFacts, Interlock1, AlikeOnward
<1>4. Hears(ss[Peer(s)], r, ss[s].saved)
  <2>1. PICK b, n : b = ss[Peer(s)] /\ n = ss[s].last_adv
    OBVIOUS
  <2>2. b \in Sessions /\ n \in Rates
    BY <2>1, PeerFacts, EndFacts, Fields
  <2>3. Hears(b, [b EXCEPT !.win_mph = n], ss[s].saved)
    BY <2>2, Set1, AlikeHears
  <2>. QED BY <1>1, <2>1, <2>3, SelfHears
<1>. QED BY <1>2, <1>3, <1>4, OnSession

LEMMA SectionOutKeeps ==
  ASSUME CallInv, NEW s \in Sides, SectionOut(s)
  PROVE  CallInv'
<1>1. PICK x, e, r : /\ x = [ss[s] EXCEPT !.data_pending = FALSE]
                     /\ e = [End(s) EXCEPT !.ss = x]
                     /\ r = IF ss[Peer(s)].gate = "cc" THEN captured(ss[Peer(s)], ss[s].saved)
                            ELSE ss[Peer(s)]
  OBVIOUS
<1>2. On(s) /\ Rest /\ Both(s, on_complete(e), r)
  BY <1>1, EndFacts DEF SectionOut
<1>3. Moves(s, End(s), e, Told(s))
  <2>1. Onward(ss[s], x)
    BY <1>1, EndFacts, Set1, AlikeOnward
  <2>. QED BY <1>1, <2>1, EndFacts, SessionOnly
<1>4. Moves(s, e, on_complete(e), Told(s))
  BY <1>3, MovesOk, CallerComplete, AnswererComplete DEF Sides
<1>5. Hears(ss[Peer(s)], r, ss[s].saved)
  <2>1. ss[s].saved \in FrameSeqs /\ ss[Peer(s)] \in Sessions
    BY PeerFacts, EndFacts, Fields
  <2>. QED BY <1>1, <2>1, Captured1, SelfHears
<1>. QED BY <1>2, <1>3, <1>4, <1>5, MovesMoves, OnBoth

LEMMA RaisePriKeeps ==
  ASSUME CallInv, NEW s \in Sides, RaisePri(s)
  PROVE  CallInv'
<1>1. PICK x1, x2, x : /\ x1 = [ss[s] EXCEPT !.pri_pending = FALSE]
                       /\ x2 = [x1 EXCEPT !.pcm = "PRI"]
                       /\ x = [x2 EXCEPT !.pcm_rate = ss[s].rate_cur]
  OBVIOUS
<1>2. On(s) /\ Rest
      /\ Both(s, [End(s) EXCEPT !.ss.pri_pending = FALSE, !.ss.pcm = "PRI",
                                !.ss.pcm_rate = ss[s].rate_cur], Onto(ss[Peer(s)], "pri", 0))
  BY DEF RaisePri
<1>3. [End(s) EXCEPT !.ss.pri_pending = FALSE, !.ss.pcm = "PRI", !.ss.pcm_rate = ss[s].rate_cur]
        = [End(s) EXCEPT !.ss = x]
  BY <1>1, EndFacts
<1>4. Onward(ss[s], x)
  <2>1. Alike(ss[s], x1)
    BY <1>1, EndFacts, Set1
  <2>2. Alike(x1, x2)
    <3>1. x1 \in Sessions
      BY <2>1 DEF Alike
    <3>. QED BY <1>1, <3>1, Set1 DEF Pcms
  <2>3. Alike(x2, x)
    <3>1. x2 \in Sessions
      BY <2>2 DEF Alike
    <3>2. PICK n : n = ss[s].rate_cur
      OBVIOUS
    <3>3. n \in Rates
      BY <3>2, EndFacts, Fields
    <3>4. x = [x2 EXCEPT !.pcm_rate = n]
      BY <1>1, <3>2
    <3>. QED BY <3>1, <3>3, <3>4 DEF Alike, Sessions
  <2>. QED BY <2>1, <2>2, <2>3, AlikeAlike, AlikeOnward
<1>5. "pri" \in Gates /\ 0 \in Rates
  BY SMT DEF Gates, Rates
<1>. QED BY <1>2, <1>3, <1>4, <1>5, OnPeer, OnSession

LEMMA PriPlayedKeeps ==
  ASSUME CallInv, NEW s \in Sides, PriPlayed(s)
  PROVE  CallInv'
<1>1. PICK x, e : x = [ss[s] EXCEPT !.pcm = ""] /\ e = [End(s) EXCEPT !.ss = x]
  OBVIOUS
<1>2. On(s) /\ Rest /\ Becomes(s, on_complete(e))
  BY <1>1, EndFacts DEF PriPlayed
<1>3. Moves(s, End(s), e, Told(s))
  <2>1. Onward(ss[s], x)
    BY <1>1, EndFacts, Set1, AlikeOnward DEF Pcms
  <2>. QED BY <1>1, <2>1, EndFacts, SessionOnly
<1>4. Moves(s, e, on_complete(e), Told(s))
  BY <1>3, MovesOk, CallerComplete, AnswererComplete DEF Sides
<1>. QED BY <1>2, <1>3, <1>4, MovesMoves, OnBecomes

LEMMA ShutMoves ==
  ASSUME NEW s \in Sides, NEW a, NEW e, NEW told, Moves(s, a, e, told)
  PROVE  Moves(s, a, [e EXCEPT !.ss = gate_shut(@)], told)
<1>1. EndOk(s, e)
  BY MovesOk
<1>2. Onward(e.ss, gate_shut(e.ss))
  BY <1>1, EndIs, GateShut1
<1>3. Moves(s, e, [e EXCEPT !.ss = gate_shut(e.ss)], told)
  BY <1>1, <1>2, SessionOnly
<1>. QED BY <1>3, MovesMoves

LEMMA PassKeeps ==
  ASSUME CallInv, NEW s \in Sides, Listening(s), NEW final, Pass(s, final), Rest
  PROVE  CallInv'
<1>1. On(s)
  BY DEF Listening
<1>2. PICK mph \in {0, VisibleMph(s)}, opens \in BOOLEAN, got \in SUBSET Range(ss[s].win) :
        LET e == ScanCc(s, mph, opens, got) IN
        Becomes(s, IF final THEN [e EXCEPT !.ss = gate_shut(@)] ELSE e)
  BY DEF Pass
<1>3. mph \in Rates
  <2>1. ss[Peer(s)].last_adv \in Rates /\ ss[s].win_mph \in Rates
    BY PeerFacts, EndFacts, Fields
  <2>2. 0 \in Rates
    BY SMT DEF Rates
  <2>. QED BY <2>1, <2>2 DEF VisibleMph
<1>4. PICK e, f : e = ScanCc(s, mph, opens, got) /\ f = [e EXCEPT !.ss = gate_shut(@)]
  OBVIOUS
<1>5. Moves(s, End(s), e, Told(s))
  BY <1>1, <1>3, <1>4, OnFacts, ScanMoves DEF CallInv, TypeInv, Told
<1>6. Moves(s, End(s), f, Told(s))
  BY <1>4, <1>5, ShutMoves
<1>7. Becomes(s, e) \/ Becomes(s, f)
  BY <1>2, <1>4
<1>. QED BY <1>1, <1>5, <1>6, <1>7, OnBecomes

LEMMA CcKeeps ==
  ASSUME CallInv, NEW s \in Sides, CcScan(s) \/ CcDone(s)
  PROVE  CallInv'
  BY PassKeeps DEF CcScan, CcDone

LEMMA TrnDoneKeeps ==
  ASSUME CallInv, NEW s \in Sides, TrnDone(s)
  PROVE  CallInv'
<1>1. PICK e : e = [End(s) EXCEPT !.ss = gate_shut(@)]
  OBVIOUS
<1>2. PICK x, f : x = report_v34(e.ss, FALSE) /\ f = [e EXCEPT !.ss = x]
  OBVIOUS
<1>3. On(s) /\ Rest
  BY DEF TrnDone
<1>4. Moves(s, End(s), e, Told(s))
  BY <1>1, EndFacts, MovesSelf, ShutMoves
<1>5. EndOk(s, e) /\ e.ss.st # "IDLE" /\ e.pt = point[s]
  <2>1. EndOk(s, e)
    BY <1>4, MovesOk
  <2>2. e.ss = gate_shut(ss[s]) /\ e.pt = point[s]
    BY <1>1, EndFacts, EndPut
  <2>3. ss[s].st # "IDLE"
    BY <1>3, OnFacts
  <2>4. e.ss.st # "IDLE"
    <3>1. Onward(ss[s], e.ss)
      BY <2>2, EndFacts, GateShut1
    <3>. QED BY <2>3, <3>1 DEF Onward, Beginning
  <2>. QED BY <2>1, <2>2, <2>4
<1>6. CASE \E n \in rate_mask[point[s].srate] : Becomes(s, train(e, n))
  <2>1. PICK n \in rate_mask[e.pt.srate] : Becomes(s, train(e, n))
    BY <1>5, <1>6
  <2>2. Moves(s, e, train(e, n), Told(s))
    BY <1>5, TrainMoves
  <2>. QED BY <1>3, <1>4, <2>1, <2>2, MovesMoves, OnBecomes
<1>7. CASE Becomes(s, on_startup(f, FALSE))
  <2>1. Onward(e.ss, x)
    BY <1>2, <1>5, EndIs, Report1
  <2>2. Moves(s, e, f, Told(s))
    BY <1>2, <1>5, <2>1, SessionOnly
  <2>3. Moves(s, f, on_startup(f, FALSE), Told(s))
    BY <2>2, MovesOk, StartupMoves
  <2>. QED BY <1>3, <1>4, <1>7, <2>2, <2>3, MovesMoves, OnBecomes
<1>8. CASE Becomes(s, f)
  <2>1. Onward(e.ss, x)
    BY <1>2, <1>5, EndIs, Report1
  <2>2. Moves(s, e, f, Told(s))
    BY <1>2, <1>5, <2>1, SessionOnly
  <2>. QED BY <1>3, <1>4, <1>8, <2>2, MovesMoves, OnBecomes
<1>9. f = [e EXCEPT !.ss = report_v34(@, FALSE)]
  BY <1>2
<1>. QED BY <1>1, <1>6, <1>7, <1>8, <1>9 DEF TrnDone

LEMMA IgnoredKeeps ==
  ASSUME CallInv, NEW s \in Sides, Ignored(s)
  PROVE  CallInv'
<1>1. PICK e : e = [End(s) EXCEPT !.ss = gate_shut(@)]
  OBVIOUS
<1>2. Becomes(s, e) /\ Rest
  BY <1>1 DEF Ignored
<1>3. Moves(s, End(s), e, Told(s))
  BY <1>1, EndFacts, MovesSelf, ShutMoves
<1>4. e.ss = gate_shut(ss[s]) /\ e.t = t30[s]
  BY <1>1, EndFacts, EndPut
<1>5. V8Waits(s, e)
  <2>1. V8Runs(s) => ss[s].st = "IDLE"
    BY DEF CallInv, TypeInv, V8Inv
  <2>2. Onward(ss[s], e.ss)
    BY <1>4, EndFacts, GateShut1
  <2>3. V8Runs(s) => e.ss.st = "IDLE"
    BY <2>1, <2>2 DEF Onward
  <2>. QED BY <1>4, <2>3 DEF V8Waits
<1>. QED BY <1>2, <1>3, <1>5, AnyBecomes

LEMMA HoldoffEndsKeeps ==
  ASSUME CallInv, NEW s \in Sides, HoldoffEnds(s)
  PROVE  CallInv'
<1>1. PICK x, e : x = [ss[s] EXCEPT !.holdoff = FALSE] /\ e = [End(s) EXCEPT !.ss = x]
  OBVIOUS
<1>2. Becomes(s, e) /\ Rest
  BY <1>1, EndFacts DEF HoldoffEnds
<1>3. Alike(ss[s], x)
  BY <1>1, EndFacts, Set1
<1>4. Moves(s, End(s), e, Told(s))
  BY <1>1, <1>3, EndFacts, AlikeOnward, SessionOnly
<1>5. e.ss = x /\ e.t = t30[s]
  BY <1>1, EndPut
<1>6. V8Waits(s, e)
  <2>1. V8Runs(s) => ss[s].st = "IDLE"
    BY DEF CallInv, TypeInv, V8Inv
  <2>. QED BY <1>3, <1>5, <2>1 DEF V8Waits, Alike
<1>. QED BY <1>2, <1>4, <1>6, AnyBecomes

LEMMA T30TimerKeeps ==
  ASSUME CallInv, NEW s \in Sides, T30Timer(s)
  PROVE  CallInv'
<1>1. Becomes(s, on_timer(End(s))) /\ Rest /\ t30[s].sub \in Waiting
  BY DEF T30Timer
<1>2. Moves(s, End(s), on_timer(End(s)), Told(s))
  BY EndFacts, TimerMoves
<1>3. ~V8Runs(s)
  BY <1>1 DEF CallInv, TypeInv, V8Inv, Waiting
<1>. QED BY <1>1, <1>2, <1>3, AnyBecomes DEF V8Waits

LEMMA HangUpKeeps ==
  ASSUME CallInv, NEW s \in Sides, HangUp(s)
  PROVE  CallInv'
<1>1. PICK e : e = finish(End(s), "HUNG_UP")
  OBVIOUS
<1>2. Becomes(s, e) /\ Rest
  BY <1>1 DEF HangUp
<1>3. Moves(s, End(s), e, Told(s)) /\ e.t.sub = "DONE" /\ e.ss.st = "IDLE"
  BY <1>1, EndFacts, FinishMoves
<1>. QED BY <1>2, <1>3, AnyBecomes DEF V8Waits

(* The answerer alone listens to bursts. *)
LEMMA PriListens ==
  ASSUME CallInv, NEW s \in Sides, On(s), RxMode(s) = "PRI"
  PROVE  s = "A"
<1>1. ss[s].rx_mode = "PRI"
  BY DEF RxMode
<1>2. s = "C" => End(s).ss.rx_mode # "PRI"
  BY EndFacts DEF EndOk
<1>. QED BY <1>1, <1>2, EndFacts DEF Sides

LEMMA CleanBurst ==
  ASSUME NEW e, NEW told, EndOk("A", e)
  PROVE  Moves("A", e, [e EXCEPT !.ss.floor_hard_fails = 0, !.t.missing = FALSE], told)
<1>1. PICK r, p, t, x, u : /\ r = e.ss /\ p = e.pt /\ t = e.t
                           /\ x = [r EXCEPT !.floor_hard_fails = 0]
                           /\ u = [t EXCEPT !.missing = FALSE]
  OBVIOUS
<1>2. e = [ss |-> r, pt |-> p, t |-> t]
  BY <1>1, EndIs
<1>3. PICK f : f = [e EXCEPT !.ss.floor_hard_fails = 0, !.t.missing = FALSE]
  OBVIOUS
<1>4. f = [ss |-> x, pt |-> p, t |-> u]
  <2>1. PICK h : h = [e EXCEPT !.ss = x]
    OBVIOUS
  <2>2. h = [ss |-> x, pt |-> p, t |-> t]
    BY <1>2, <2>1
  <2>3. h.t = t
    BY <2>2
  <2>4. [h EXCEPT !.t = u] = [ss |-> x, pt |-> p, t |-> u]
    BY <2>2
  <2>5. h = [e EXCEPT !.ss = [e.ss EXCEPT !.floor_hard_fails = 0]]
    BY <1>1, <2>1
  <2>6. f = [h EXCEPT !.t = [h.t EXCEPT !.missing = FALSE]]
    BY <1>3, <2>5, Zenon
  <2>. QED BY <1>1, <2>3, <2>4, <2>6
<1>5. SessionMoves("A", r, x, u)
  <2>1. Alike(r, x)
    BY <1>1, EndIs, Set1
  <2>. QED BY <2>1 DEF Alike, SessionMoves, Says
<1>6. EngineMoves("A", t, u, told)
  <2>1. t \in Engines /\ t.sub \in SubsOf("A")
    BY <1>1, EndIs DEF EndOk
  <2>2. u \in Engines /\ u.sub = t.sub /\ u.missing = FALSE
    BY <1>1, <2>1 DEF Engines
  <2>. QED BY <2>1, <2>2 DEF EngineMoves, Delivered, Acked
<1>7. Moves("A", e, f, told)
  BY <1>1, <1>4, <1>5, <1>6, ModeFacts, SessionAndEngine
<1>. QED BY <1>3, <1>7

LEMMA PriDoneKeeps ==
  ASSUME CallInv, NEW s \in Sides, PriDone(s)
  PROVE  CallInv'
<1>1. On(s) /\ RxMode(s) = "PRI" /\ Other /\ UNCHANGED p2_roll /\ ss[s].gate # ""
  BY DEF PriDone, CarrierGone
<1>2. s = "A"
  BY <1>1, PriListens
<1>3. PICK x1, x2, e : /\ x1 = gate_shut(ss[s]) /\ x2 = [x1 EXCEPT !.pri_skip = FALSE]
                       /\ e = [End(s) EXCEPT !.ss = x2]
  OBVIOUS
<1>4. e = [End(s) EXCEPT !.ss = [gate_shut(@) EXCEPT !.pri_skip = FALSE]]
  BY <1>3, EndFacts
<1>5. Moves(s, End(s), e, Told(s)) /\ EndOk(s, e)
  <2>1. Onward(ss[s], x1)
    BY <1>3, EndFacts, GateShut1
  <2>2. Onward(x1, x2)
    <3>1. x1 \in Sessions
      BY <2>1 DEF Onward
    <3>. QED BY <1>3, <3>1, Set1, AlikeOnward
  <2>3. Moves(s, End(s), e, Told(s))
    BY <1>3, <2>1, <2>2, OnwardOnward, EndFacts, SessionOnly
  <2>. QED BY <2>3, MovesOk
<1>6. ASSUME NEW f, Becomes(s, f), Moves(s, e, f, Told(s)),
             UNCHANGED <<p2_state, p2_info_seen>> \/ p2_init(s)
      PROVE  CallInv'
  <2>1. P2Left(s) /\ Audible(s, ss[Peer(s)]) /\ V8Waits(s, f)
    BY <1>1, <1>2, <1>6, OnFacts, SelfHears DEF P2Left, Audible, V8Waits
  <2>2. Moves(s, End(s), f, Told(s))
    BY <1>5, <1>6, MovesMoves
  <2>. QED BY <1>1, <1>6, <2>1, <2>2, BothKeeps DEF Becomes
<1>7. CASE Becomes(s, e) /\ UNCHANGED <<p2_state, p2_info_seen>>
  BY <1>5, <1>6, <1>7, MovesSelf
<1>8. ASSUME NEW f, Becomes(s, on_carrier_down(f)), Moves(s, e, f, Told(s)),
             IF f.ss.in_retrain THEN p2_init(s) ELSE UNCHANGED <<p2_state, p2_info_seen>>
      PROVE  CallInv'
  <2>1. Moves(s, f, on_carrier_down(f), Told(s))
    BY <1>8, MovesOk, CarrierDownMoves
  <2>2. Moves(s, e, on_carrier_down(f), Told(s))
    BY <1>8, <2>1, MovesMoves
  <2>. QED BY <1>6, <1>8, <2>2
<1>9. PICK c : c = [e EXCEPT !.ss.floor_hard_fails = 0, !.t.missing = FALSE]
  OBVIOUS
<1>10. Moves(s, e, c, Told(s))
  BY <1>2, <1>5, <1>9, CleanBurst
<1>11. PICK rates : rates = IF fallbacks(e) = {} THEN {0} ELSE fallbacks(e)
  OBVIOUS
<1>12. \A n \in rates : n \in Nat /\ (n > 0 => n \in fallbacks(e))
  <2>1. fallbacks(e) \subseteq 1..14
    BY <1>5, EndIs, PointFacts, RateFacts DEF fallbacks
  <2>2. \A n \in 1..14 : n \in Nat
    BY SMT
  <2>3. \A n \in {0} : n \in Nat /\ ~(n > 0)
    BY SMT
  <2>. QED BY <1>11, <2>1, <2>2, <2>3, Zenon
<1>13. \A n \in rates, hard \in BOOLEAN : Moves(s, e, judge_burst(e, hard, n), Told(s))
  BY <1>2, <1>5, <1>12, JudgeMoves
<1>. DEFINE Goes(f) ==
       /\ Becomes(s, on_carrier_down(f))
       /\ IF f.ss.in_retrain THEN p2_init(s) ELSE UNCHANGED <<p2_state, p2_info_seen>>
<1>14. \/ Becomes(s, e) /\ UNCHANGED <<p2_state, p2_info_seen>>
       \/ Goes(c) \/ \E n \in rates : Goes(judge_burst(e, FALSE, n))
       \/ \E n \in rates : Goes(judge_burst(e, TRUE, n))
  BY <1>4, <1>9, <1>11, Zenon DEF PriDone
<1>15. CASE Goes(c)
  BY <1>8, <1>10, <1>15
<1>16. CASE \E n \in rates : Goes(judge_burst(e, FALSE, n))
  BY <1>8, <1>13, <1>16
<1>17. CASE \E n \in rates : Goes(judge_burst(e, TRUE, n))
  BY <1>8, <1>13, <1>17
<1>. QED BY <1>7, <1>14, <1>15, <1>16, <1>17

-----------------------------------------------------------------------------
(* The classic call, and the line. *)

LEMMA ClassicTurn ==
  ASSUME CallInv, NEW s \in Sides, NEW u, EngineMoves(s, t30[s], u, Told(s)),
         ~V8Runs(s), t30' = [t30 EXCEPT ![s] = u],
         UNCHANGED <<arriving, v8Vars, p2Vars, ss>>
  PROVE  CallInv'
<1>1. PICK e : e = [ss |-> ss[s], pt |-> point[s], t |-> u]
  OBVIOUS
<1>2. e.ss = ss[s] /\ e.pt = point[s] /\ e.t = u
  BY <1>1
<1>3. Moves(s, End(s), e, Told(s))
  <2>1. SessionMoves(s, ss[s], ss[s], u)
    BY EndFacts DEF EndOk, SessionMoves
  <2>. QED BY <1>1, <2>1, EndFacts, SessionAndEngine
<1>4. Changed(s, e, ss[Peer(s)])
  <2>1. DOMAIN ss = Sides /\ DOMAIN t30 = Sides /\ DOMAIN point = Sides
    BY DEF CallInv, TypeInv, EndsInv
  <2>2. t30'[s] = u /\ t30'[Peer(s)] = t30[Peer(s)] /\ DOMAIN t30' = Sides
    BY <2>1, PeerFacts
  <2>3. ss' = ss /\ point' = point
    BY DEF p2Vars
  <2>. QED BY <1>2, <2>1, <2>2, <2>3 DEF Changed
<1>5. Audible(s, ss[Peer(s)])
  BY SelfHears DEF Audible
<1>6. P2Left(s) /\ Other /\ V8Waits(s, e)
  BY DEF P2Left, Other, V8Waits, p2Vars
<1>. QED BY <1>3, <1>4, <1>5, <1>6, ChangedKeeps

LEMMA ClassicStepKeeps ==
  ASSUME CallInv, ClassicStep
  PROVE  CallInv'
<1>1. UNCHANGED <<arriving, v8Vars, p2Vars, ss>>
  BY DEF ClassicStep
<1>2. \A s \in Sides :
        /\ t30[s] \in Engines /\ t30[s].sub \in SubsOf(s)
        /\ V8Runs(s) => t30[s].sub \in {"C_WAIT_V8", "A_SEND_V8", "DONE"}
  BY EndFacts DEF EndOk, CallInv, TypeInv, V8Inv
<1>3. ASSUME t30["A"].sub \in {"A_SEND_CED", "A_CLASSIC_DIS"},
             NEW sub \in {"A_CLASSIC_DIS", "PHASE_B"}, t30' = [t30 EXCEPT !["A"].sub = sub]
      PROVE  CallInv'
  <2>1. EngineMoves("A", t30["A"], [t30["A"] EXCEPT !.sub = sub], Told("A"))
    <3>1. PICK t, u : t = t30["A"] /\ u = [t EXCEPT !.sub = sub]
      OBVIOUS
    <3>2. t \in Engines /\ t.sub \in {"A_SEND_CED", "A_CLASSIC_DIS"}
      BY <1>2, <1>3, <3>1, ModeFacts
    <3>3. sub \in Substates /\ sub \in SubsOf("A")
      BY <1>3 DEF Substates, SubsOf, AnswererSubs
    <3>4. u \in Engines /\ u.sub = sub
      BY <3>1, <3>2, <3>3 DEF Engines
    <3>. QED BY <3>1, <3>2, <3>3, <3>4 DEF EngineMoves, Delivered, Acked
  <2>2. ~V8Runs("A")
    BY <1>2, <1>3, ModeFacts
  <2>. QED BY <1>1, <1>3, <2>1, <2>2, ModeFacts, ClassicTurn
<1>4. ASSUME t30["A"].sub = "A_CLASSIC_DIS",
             t30' = [t30 EXCEPT !["A"].sub = "DONE", !["A"].result = "ERR"]
      PROVE  CallInv'
  <2>1. PICK t, u, w : t = t30["A"] /\ u = [t EXCEPT !.sub = "DONE"]
                       /\ w = [u EXCEPT !.result = "ERR"]
    OBVIOUS
  <2>2. EngineMoves("A", t30["A"], w, Told("A"))
    <3>1. t \in Engines /\ t.sub = "A_CLASSIC_DIS"
      BY <1>2, <1>4, <2>1, ModeFacts
    <3>2. "DONE" \in Substates /\ "DONE" \in SubsOf("A")
      BY DEF Substates, SubsOf, AnswererSubs
    <3>3. u \in Engines /\ u.sub = "DONE"
      BY <2>1, <3>1, <3>2 DEF Engines
    <3>4. w \in Engines /\ w.sub = "DONE"
      BY <2>1, <3>3 DEF Engines
    <3>. QED BY <2>1, <3>1, <3>2, <3>4 DEF EngineMoves, Delivered, Acked
  <2>3. t30' = [t30 EXCEPT !["A"] = w]
    <3>1. DOMAIN t30 = Sides /\ "A" \in Sides
      BY ModeFacts DEF CallInv, TypeInv, EndsInv
    <3>. QED BY <1>4, <2>1, <3>1
  <2>4. ~V8Runs("A")
    BY <1>2, <1>4, ModeFacts
  <2>. QED BY <1>1, <2>2, <2>3, <2>4, ModeFacts, ClassicTurn
<1>5. ASSUME t30["C"].sub = "C_WAIT_DIS", t30' = [t30 EXCEPT !["C"].sub = "PHASE_B"]
      PROVE  CallInv'
  <2>1. EngineMoves("C", t30["C"], [t30["C"] EXCEPT !.sub = "PHASE_B"], Told("C"))
    <3>1. PICK t, u : t = t30["C"] /\ u = [t EXCEPT !.sub = "PHASE_B"]
      OBVIOUS
    <3>2. t \in Engines /\ t.sub = "C_WAIT_DIS"
      BY <1>2, <1>5, <3>1, ModeFacts
    <3>3. "PHASE_B" \in Substates /\ "PHASE_B" \in SubsOf("C")
      BY DEF Substates, SubsOf, CallerSubs
    <3>4. u \in Engines /\ u.sub = "PHASE_B" /\ u.result = t.result
      BY <3>1, <3>2, <3>3 DEF Engines
    <3>. QED BY <3>1, <3>2, <3>3, <3>4 DEF EngineMoves, Confirmed
  <2>2. ~V8Runs("C")
    BY <1>2, <1>5, ModeFacts
  <2>. QED BY <1>1, <1>5, <2>1, <2>2, ModeFacts, ClassicTurn
<1>. QED BY <1>3, <1>4, <1>5 DEF ClassicStep

(* What the octets of a message carry. *)
LEMMA Octets ==
  ASSUME NEW m \in SUBSET UNION Range(Octet)
  PROVE  parse_modulation(build_modulation_octets(m)) = m
<1>. DEFINE used == {1} \cup {i \in 1..3 : m \cap Octet[i] # {}}
            last == CHOOSE i \in used : \A j \in used : j <= i
<1>1. used \in SUBSET {1, 2, 3} /\ 1 \in used
  BY SMT
<1>2. \E i \in used : \A j \in used : j <= i
  <2>1. CASE 3 \in used
    BY <1>1, <2>1, SMT
  <2>2. CASE 3 \notin used /\ 2 \in used
    BY <1>1, <2>2, SMT
  <2>3. CASE 3 \notin used /\ 2 \notin used
    BY <1>1, <2>3, SMT
  <2>. QED BY <2>1, <2>2, <2>3
<1>3. last \in used /\ \A j \in used : j <= last
  BY <1>2
<1>4. PICK n : n = last
  OBVIOUS
<1>5. n \in {1, 2, 3} /\ \A i \in 1..3 : m \cap Octet[i] # {} => i <= n
  <2>1. \A i \in 1..3 : m \cap Octet[i] # {} => i \in used
    OBVIOUS
  <2>. HIDE DEF used, last
  <2>. QED BY <1>1, <1>3, <1>4, <2>1
<1>6. build_modulation_octets(m) = [i \in 1..n |-> m \cap Octet[i]]
  BY <1>4 DEF build_modulation_octets
<1>7. PICK q : q = [i \in 1..n |-> m \cap Octet[i]]
  OBVIOUS
<1>8. Range(q) = {m \cap Octet[i] : i \in 1..n}
  <2>1. DOMAIN q = 1..n /\ \A i \in 1..n : q[i] = m \cap Octet[i]
    BY <1>7
  <2>. QED BY <2>1, Zenon DEF Range
<1>9. UNION Range(q) \subseteq m
  BY <1>8
<1>10. m \subseteq UNION Range(q)
  <2>. SUFFICES ASSUME NEW x \in m PROVE x \in UNION Range(q)
    OBVIOUS
  <2>1. DOMAIN Octet = 1..3
    BY SMT DEF Octet
  <2>2. PICK o \in Range(Octet) : x \in o
    OBVIOUS
  <2>3. PICK i \in 1..3 : o = Octet[i]
    BY <2>1, <2>2, Zenon DEF Range
  <2>4. m \cap Octet[i] # {} /\ x \in m \cap Octet[i]
    BY <2>2, <2>3
  <2>5. i \in 1..n
    BY <1>5, <2>4, SMT
  <2>. QED BY <1>8, <2>4, <2>5
<1>. QED BY <1>6, <1>7, <1>9, <1>10 DEF parse_modulation

LEMMA SignalIs ==
  /\ \A k : Signal(k).sig = k /\ Signal(k).octets = <<>> /\ Signal(k).srate = ""
  /\ \A sr : Info(sr).sig = "INFOH" /\ Info(sr).srate = sr
  /\ Silence.sig = "SILENCE"
  BY DEF Signal, Info, Silence

LEMMA MessageIs ==
  ASSUME NEW k, NEW o
  PROVE  Message(k, o).sig = k /\ Message(k, o).octets = o
  BY DEF Signal, Message

(* What an end emits says where it is. *)
LEMMA EmitsFacts ==
  ASSUME CallInv, NEW s \in Sides
  PROVE  /\ Emits(s).sig = "INFOH" =>
              /\ s = "A" /\ p2_state["A"] = "A_INFOH" /\ ~V8Runs("A")
              /\ Emits(s).srate = point["A"].srate
         /\ Emits(s).sig = "CM" =>
              s = "C" /\ Emits(s).octets = build_modulation_octets(our_modulations["C"])
         /\ Emits(s).sig = "JM" =>
              /\ s = "A" /\ v8["A"] = "JM"
              /\ Emits(s).octets = build_modulation_octets(modulations["A"])
         /\ Emits(s).sig = "CJ" => s = "C" /\ v8["C"] = "CJ"
         /\ s = "C" /\ Settled2 => Emits(s).sig = "SILENCE"
<1>1. t30[s].sub \in SubsOf(s)
  BY EndFacts DEF EndOk
<1>2. p2_state["C"] \in CallerP2 /\ p2_state["A"] \in AnswererP2
  BY DEF CallInv, TypeInv, P2Inv
<1>3. v8["C"] \in CallerV8 /\ v8["A"] \in AnswererV8
  BY DEF CallInv, TypeInv, V8Inv
<1>4. s = "C" \/ s = "A"
  BY ModeFacts
<1>5. CASE t30[s].sub = "DONE"
  <2>1. Emits(s).sig = "SILENCE"
    BY <1>5, SignalIs DEF Emits
  <2>. QED BY <2>1
<1>6. CASE t30[s].sub # "DONE" /\ V8Runs(s)
  <2>1. Emits(s) = nf_v8_tx(s)
    BY <1>6 DEF Emits, V8Runs
  <2>2. Settled2 => s # "C"
    BY <1>6 DEF Settled2, CallInv, TypeInv, V8Inv
  <2>3. CASE s = "C"
    <3>1. v8["C"] = "CI" \/ v8["C"] = "TE" \/ v8["C"] = "CM" \/ v8["C"] = "CJ"
      BY <1>3, <1>6, <2>3 DEF V8Runs, CallerV8
    <3>2. CASE v8["C"] = "CI"
      BY <2>1, <2>2, <2>3, <3>2, SignalIs DEF nf_v8_tx
    <3>3. CASE v8["C"] = "TE"
      BY <2>1, <2>2, <2>3, <3>3, SignalIs DEF nf_v8_tx
    <3>4. CASE v8["C"] = "CM"
      <4>1. Emits(s) = Message("CM", build_modulation_octets(our_modulations["C"]))
        BY <2>1, <2>3, <3>4 DEF nf_v8_tx
      <4>2. Emits(s).sig = "CM"
            /\ Emits(s).octets = build_modulation_octets(our_modulations["C"])
        BY <4>1, MessageIs
      <4>. QED BY <2>2, <2>3, <4>2
    <3>5. CASE v8["C"] = "CJ"
      BY <2>1, <2>2, <2>3, <3>5, SignalIs DEF nf_v8_tx
    <3>. QED BY <3>1, <3>2, <3>3, <3>4, <3>5
  <2>4. CASE s = "A"
    <3>1. v8["A"] = "ANSAM" \/ v8["A"] = "JM"
      BY <1>3, <1>6, <2>4 DEF V8Runs, AnswererV8
    <3>2. CASE v8["A"] = "ANSAM"
      BY <2>1, <2>2, <2>4, <3>2, SignalIs DEF nf_v8_tx
    <3>3. CASE v8["A"] = "JM"
      <4>1. Emits(s) = Message("JM", build_modulation_octets(modulations["A"]))
        BY <2>1, <2>4, <3>3 DEF nf_v8_tx
      <4>2. Emits(s).sig = "JM" /\ Emits(s).octets = build_modulation_octets(modulations["A"])
        BY <4>1, MessageIs
      <4>. QED BY <2>2, <2>4, <3>3, <4>2
    <3>. QED BY <3>1, <3>2, <3>3
  <2>. QED BY <1>4, <2>3, <2>4
<1>7. CASE t30[s].sub # "DONE" /\ ~V8Runs(s)
  <2>1. \/ Emits(s) = Signal("CED") /\ t30[s].sub = "A_SEND_CED"
        \/ Emits(s) = Signal("DIS") /\ s = "A"
        \/ Emits(s) = v34_p2_tx(s)
    BY <1>7 DEF Emits, V8Runs
  <2>2. CASE Emits(s) = Signal("CED") /\ t30[s].sub = "A_SEND_CED"
    <3>1. s # "C"
      BY <1>1, <2>2 DEF SubsOf, CallerSubs
    <3>2. Emits(s).sig = "CED"
      BY <2>2, SignalIs
    <3>. QED BY <3>1, <3>2
  <2>3. CASE Emits(s) = Signal("DIS") /\ s = "A"
    <3>1. Emits(s).sig = "DIS"
      BY <2>3, SignalIs
    <3>. QED BY <2>3, <3>1
  <2>4. CASE Emits(s) = v34_p2_tx(s)
    <3>1. CASE p2_state[s] = "A_INFOH"
      <4>1. s = "A"
        BY <1>2, <1>4, <3>1 DEF CallerP2
      <4>2. Emits(s) = Info(point["A"].srate)
        BY <2>4, <3>1, <4>1 DEF v34_p2_tx
      <4>. QED BY <1>7, <3>1, <4>1, <4>2, SignalIs
    <3>2. CASE p2_state[s] # "A_INFOH"
      <4>1. \/ Emits(s).sig = "SILENCE"
            \/ Emits(s).sig \in {"INFO0", "TONE", "REVERSAL", "PROBE"} /\ p2_state[s] # "OFF"
        BY <2>4, <3>2, SignalIs DEF v34_p2_tx
      <4>. QED BY <4>1 DEF Settled2
    <3>. QED BY <3>1, <3>2
  <2>. QED BY <2>1, <2>2, <2>3, <2>4
<1>. QED BY <1>5, <1>6, <1>7

LEMMA LineCarriesKeeps ==
  ASSUME CallInv, NEW s \in Sides, LineCarries(s)
  PROVE  CallInv'
<1>1. PICK sig : sig = Emits(s)
  OBVIOUS
<1>2. arriving' = [arriving EXCEPT ![s] = sig] /\ Roll(s, sig)
      /\ UNCHANGED <<v8Vars, p2_state, p2_info_seen, point, sessVars>>
  BY <1>1 DEF LineCarries, Carry
<1>3. UNCHANGED <<our_modulations, v8, modulations, v8_status>> /\ UNCHANGED <<ss, t30>>
      /\ UNCHANGED <<p2_state, p2_info_seen, point>>
  BY <1>2 DEF v8Vars, sessVars
<1>4. DOMAIN arriving = Sides /\ DOMAIN p2_roll = Sides
      /\ Peer(s) \in Sides /\ "C" \in Sides /\ "A" \in Sides /\ (s = "C" \/ s = "A")
  BY PeerFacts, ModeFacts DEF CallInv, TypeInv, LineInv
<1>5. p2_roll' = p2_roll \/ (sig.sig \in {"INFO0", "INFOH"} /\ p2_roll' = [p2_roll EXCEPT ![Peer(s)] = sig])
  BY <1>2 DEF Roll
<1>6. p2_roll'["C"] = p2_roll["C"] \/ (s = "A" /\ p2_roll'["C"] = sig)
  BY <1>4, <1>5 DEF Peer
<1>7. (arriving'["C"] = arriving["C"] \/ (s = "C" /\ arriving'["C"] = sig))
      /\ (arriving'["A"] = arriving["A"] \/ (s = "A" /\ arriving'["A"] = sig))
  BY <1>2, <1>4
<1>8. LineInv'
  <2>1. DOMAIN arriving' = Sides
    BY <1>2, <1>4
  <2>2. DOMAIN p2_roll' = Sides /\ \A q \in Sides : Kept(p2_roll'[q].sig)
    <3>1. \A q \in Sides : Kept(p2_roll[q].sig)
      BY DEF CallInv, TypeInv, LineInv
    <3>2. \A q \in Sides : p2_roll'[q] = p2_roll[q] \/ (sig.sig \in {"INFO0", "INFOH"} /\ p2_roll'[q] = sig)
      BY <1>4, <1>5
    <3>3. \A q \in Sides : Kept(p2_roll'[q].sig)
      BY <3>1, <3>2 DEF Kept
    <3>. QED BY <1>4, <1>5, <3>3
  <2>3. p2_roll'["C"].sig = "INFOH" => p2_roll'["C"].srate \in Srates
    <3>1. point["A"].srate \in Srates
      BY EndFacts, PointFacts, ModeFacts
    <3>. QED BY <1>1, <1>6, <3>1, EmitsFacts DEF CallInv, TypeInv, LineInv
  <2>. QED BY <2>1, <2>2, <2>3 DEF LineInv
<1>9. EndsInv'
  BY <1>3 DEF CallInv, TypeInv, EndsInv, End
<1>10. P2Inv'
  BY <1>3 DEF CallInv, TypeInv, P2Inv
<1>11. V8Inv'
  BY <1>3 DEF CallInv, TypeInv, V8Inv, V8TypeOK, V8Runs
<1>12. McfInv'
  BY <1>3 DEF CallInv, McfInv
<1>13. AgreeInv'
  <2>1. our_modulations["C"] \in SUBSET UNION Range(Octet)
        /\ modulations["A"] \in SUBSET UNION Range(Octet)
    <3>1. our_modulations["C"] \in SUBSET Modulations /\ modulations["A"] \in SUBSET Modulations
      BY <1>4 DEF CallInv, TypeInv, V8Inv, V8TypeOK
    <3>. QED BY <3>1, V8Assumption
  <2>2. AgreeInv
    BY DEF CallInv
  <2>3. AnswererAgrees' = AnswererAgrees /\ CallerAgrees' = CallerAgrees /\ CommonMods' = CommonMods
    BY <1>3 DEF AnswererAgrees, CallerAgrees, CommonMods
  <2>4. arriving'["C"].sig = "CM" => parse_modulation(arriving'["C"].octets) = our_modulations["C"]
    BY <1>1, <1>7, <2>1, <2>2, EmitsFacts, Octets DEF AgreeInv
  <2>5. arriving'["A"].sig = "JM" =>
          AnswererAgrees /\ parse_modulation(arriving'["A"].octets) = CommonMods
    <3>1. CASE arriving'["A"] = arriving["A"]
      BY <2>2, <3>1 DEF AgreeInv
    <3>2. CASE s = "A" /\ arriving'["A"] = sig
      <4>1. sig.sig = "JM" => v8["A"] = "JM" /\ sig.octets = build_modulation_octets(modulations["A"])
        BY <1>1, EmitsFacts
      <4>2. v8["A"] = "JM" => AnswererAgrees /\ modulations["A"] = CommonMods
        BY <2>2 DEF AgreeInv, AnswererAgrees
      <4>. QED BY <2>1, <3>2, <4>1, <4>2, Octets
    <3>. QED BY <1>7, <3>1, <3>2
  <2>6. arriving'["C"].sig = "CJ" => CallerAgrees
    BY <1>1, <1>7, <2>2, EmitsFacts DEF AgreeInv, CallerAgrees
  <2>7. /\ v8["A"] = "JM" => AnswererAgrees
        /\ CallerAgrees => modulations["C"] = CommonMods /\ AnswererAgrees
        /\ v8_status["A"] = "V8_CALL" => CallerAgrees
    BY <2>2 DEF AgreeInv
  <2>. QED BY <1>3, <2>3, <2>4, <2>5, <2>6, <2>7 DEF AgreeInv
<1>14. PointInv'
  <2>1. PointInv
    BY DEF CallInv
  <2>2. Settled2' = Settled2 /\ Past2' = Past2 /\ V8Runs("A")' = V8Runs("A")
    BY <1>3 DEF Settled2, Past2, V8Runs
  <2>3. Settled2 => arriving'["C"].sig = "SILENCE"
    <3>1. s = "C" /\ Settled2 => sig.sig = "SILENCE"
      BY <1>1, EmitsFacts
    <3>2. Settled2 => arriving["C"].sig = "SILENCE"
      BY <2>1 DEF PointInv
    <3>. QED BY <1>7, <3>1, <3>2
  <2>4. p2_roll'["C"].sig = "INFOH" /\ ~Past2 =>
          /\ p2_roll'["C"].srate = point["A"].srate
          /\ p2_state["A"] \in {"OFF", "A_INFOH"} /\ ~V8Runs("A")
    BY <1>1, <1>6, <2>1, EmitsFacts DEF PointInv
  <2>. QED BY <1>3, <2>1, <2>2, <2>3, <2>4 DEF PointInv
<1>. QED BY <1>8, <1>9, <1>10, <1>11, <1>12, <1>13, <1>14 DEF CallInv, TypeInv

-----------------------------------------------------------------------------
(* Phase 2. *)

LEMMA Enters ==
  ASSUME P2Inv, NEW s \in Sides, NEW state, enter(s, state),
         s = "C" => state \in CallerP2, s = "A" => state \in AnswererP2
  PROVE  /\ p2_state' \in [Sides -> CallerP2 \cup AnswererP2] /\ p2_state'[s] = state
         /\ p2_state'[Peer(s)] = p2_state[Peer(s)]
<1>1. p2_state' = [p2_state EXCEPT ![s] = state]
  BY DEF enter
<1>2. state \in CallerP2 \cup AnswererP2
  BY ModeFacts
<1>. QED BY <1>1, <1>2, PeerFacts DEF P2Inv

(* A step of Phase 2 at s, whatever it does to the operating point.          *)
P2Steps(s) ==
  /\ p2_state' \in [Sides -> CallerP2 \cup AnswererP2] /\ p2_info_seen' \in [Sides -> BOOLEAN]
  /\ p2_state["C"] \in CallerP2 /\ p2_state'["C"] \in CallerP2
  /\ p2_state["A"] \in AnswererP2 /\ p2_state'["A"] \in AnswererP2
  /\ p2_state[s] # "OFF" /\ p2_state'[Peer(s)] = p2_state[Peer(s)]

LEMMA GoSteps ==
  ASSUME P2Inv, NEW s \in Sides, NEW from, NEW dest, Go(s, from, dest), from # "OFF",
         s = "C" => dest \in CallerP2, s = "A" => dest \in AnswererP2
  PROVE  P2Steps(s) /\ p2_state[s] = from /\ p2_state'[s] = dest /\ UNCHANGED <<p2_roll, point>>
<1>1. enter(s, dest) /\ p2_state[s] = from /\ UNCHANGED <<p2_info_seen, p2_roll, point>>
  BY DEF Go
<1>. QED BY <1>1, Enters, PeerFacts, ModeFacts DEF P2Steps, P2Inv, Peer

LEMMA DecodeSteps ==
  ASSUME P2Inv, NEW s \in Sides, DecodeInfo0(s)
  PROVE  P2Steps(s) /\ p2_state' = p2_state /\ p2_state[s] \in {"C_TONEB", "A_TONEA"}
         /\ UNCHANGED <<p2_roll, point>>
<1>1. p2_info_seen' = [p2_info_seen EXCEPT ![s] = TRUE]
      /\ UNCHANGED <<p2_state, p2_roll, point>> /\ p2_state[s] \in {"C_TONEB", "A_TONEA"}
  BY DEF DecodeInfo0
<1>2. p2_info_seen' \in [Sides -> BOOLEAN]
  BY <1>1 DEF P2Inv
<1>. QED BY <1>1, <1>2 DEF P2Steps, P2Inv

LEMMA FinishSteps ==
  ASSUME P2Inv, NEW s \in Sides, finish_p2(s), p2_state[s] # "OFF"
  PROVE  P2Steps(s) /\ p2_state'[s] = "OFF" /\ p2_roll' = [p2_roll EXCEPT ![s] = Silence]
<1>1. enter(s, "OFF") /\ p2_roll' = [p2_roll EXCEPT ![s] = Silence]
      /\ p2_info_seen' = [p2_info_seen EXCEPT ![s] = FALSE]
  BY DEF finish_p2
<1>2. "OFF" \in CallerP2 /\ "OFF" \in AnswererP2
  BY DEF CallerP2, AnswererP2
<1>3. p2_info_seen' \in [Sides -> BOOLEAN]
  BY <1>1 DEF P2Inv
<1>. QED BY <1>1, <1>2, <1>3, Enters, PeerFacts, ModeFacts DEF P2Steps, P2Inv, Peer

LEMMA CallerPhase2 ==
  ASSUME P2Inv, C_Phase2
  PROVE  /\ P2Steps("C")
         /\ \/ p2_state'["C"] # "OFF" /\ UNCHANGED <<p2_roll, point>>
            \/ p2_state'["C"] = "OFF" /\ AdoptInfoh /\ p2_roll' = [p2_roll EXCEPT !["C"] = Silence]
<1>0. "C" \in Sides
  BY ModeFacts
<1>1. CASE DecodeInfo0("C")
  BY <1>0, <1>1, DecodeSteps
<1>2. CASE AdoptInfoh
  <2>1. finish_p2("C") /\ p2_state["C"] # "OFF"
    BY <1>2 DEF AdoptInfoh
  <2>. QED BY <1>0, <1>2, <2>1, FinishSteps
<1>3. ASSUME NEW from \in CallerP2 \ {"OFF"}, NEW dest \in CallerP2 \ {"OFF"}, Go("C", from, dest)
      PROVE  P2Steps("C") /\ p2_state'["C"] # "OFF" /\ UNCHANGED <<p2_roll, point>>
  BY <1>0, <1>3, GoSteps
<1>4. \/ Go("C", "C_SILENCE", "C_INFO0") \/ Go("C", "C_INFO0", "C_TONEB")
      \/ DecodeInfo0("C") \/ Go("C", "C_TONEB", "C_TB_REV")
      \/ Go("C", "C_TB_REV", "C_L1") \/ Go("C", "C_L1", "C_L2")
      \/ Go("C", "C_L2", "C_TONEB2") \/ AdoptInfoh
  BY DEF C_Phase2, start_info0, HearToneAReversal
<1>5. {"C_SILENCE", "C_INFO0", "C_TONEB", "C_TB_REV", "C_L1", "C_L2", "C_TONEB2"}
        = CallerP2 \ {"OFF"}
  BY DEF CallerP2
<1>6. /\ "C_SILENCE" \in CallerP2 \ {"OFF"} /\ "C_INFO0" \in CallerP2 \ {"OFF"}
      /\ "C_TONEB" \in CallerP2 \ {"OFF"} /\ "C_TB_REV" \in CallerP2 \ {"OFF"}
      /\ "C_L1" \in CallerP2 \ {"OFF"} /\ "C_L2" \in CallerP2 \ {"OFF"}
      /\ "C_TONEB2" \in CallerP2 \ {"OFF"}
  BY <1>5
<1>. QED BY <1>1, <1>2, <1>3, <1>4, <1>6, Zenon

(* While the caller is silent, an answerer at the start does not get past    *)
(* Tone A.                                                                   *)
EarlyP2 == {"A_SILENCE", "A_INFO0", "A_TONEA"}

LEMMA AnswererPhase2 ==
  ASSUME P2Inv, A_Phase2
  PROVE  /\ P2Steps("A")
         /\ \/ /\ p2_state'["A"] # "OFF" /\ p2_state["A"] # "A_INFOH" /\ UNCHANGED p2_roll
               /\ UNCHANGED point \/ (p2_state["A"] = "A_PROBE" /\ analyze_probe)
               /\ p2_state["A"] \in EarlyP2 => p2_state'["A"] \in EarlyP2 \/ PeerSends("A", "TONE")
            \/ /\ p2_state["A"] = "A_INFOH" /\ p2_state'["A"] = "OFF" /\ UNCHANGED point
               /\ p2_roll' = [p2_roll EXCEPT !["A"] = Silence]
<1>0. "A" \in Sides
  BY ModeFacts
<1>1. CASE DecodeInfo0("A")
  <2>1. P2Steps("A") /\ p2_state' = p2_state /\ p2_state["A"] \in {"C_TONEB", "A_TONEA"}
        /\ UNCHANGED <<p2_roll, point>>
    BY <1>0, <1>1, DecodeSteps
  <2>. QED BY <2>1
<1>2. CASE InfohPlayed
  <2>1. finish_p2("A") /\ p2_state["A"] = "A_INFOH" /\ UNCHANGED point
    BY <1>2 DEF InfohPlayed
  <2>. QED BY <1>0, <2>1, FinishSteps
<1>3. CASE ProbeDone
  <2>1. p2_state["A"] = "A_PROBE" /\ enter("A", "A_TONEA2") /\ analyze_probe
        /\ UNCHANGED <<p2_info_seen, p2_roll>>
    BY <1>3 DEF ProbeDone
  <2>2. "A_TONEA2" \in AnswererP2
    BY DEF AnswererP2
  <2>3. p2_state' \in [Sides -> CallerP2 \cup AnswererP2] /\ p2_state'["A"] = "A_TONEA2"
        /\ p2_state'["C"] = p2_state["C"]
    BY <1>0, <2>1, <2>2, Enters DEF Peer
  <2>4. P2Steps("A")
    BY <2>1, <2>2, <2>3 DEF P2Steps, P2Inv, Peer
  <2>. QED BY <2>1, <2>3, <2>4 DEF EarlyP2
<1>4. ASSUME NEW from \in AnswererP2 \ {"OFF", "A_INFOH"}, NEW dest \in AnswererP2 \ {"OFF"},
             Go("A", from, dest), from \in EarlyP2 => dest \in EarlyP2 \/ PeerSends("A", "TONE")
      PROVE  /\ P2Steps("A") /\ p2_state'["A"] # "OFF" /\ p2_state["A"] # "A_INFOH"
             /\ UNCHANGED <<p2_roll, point>>
             /\ p2_state["A"] \in EarlyP2 => p2_state'["A"] \in EarlyP2 \/ PeerSends("A", "TONE")
  BY <1>0, <1>4, GoSteps
<1>5. \/ Go("A", "A_SILENCE", "A_INFO0") \/ Go("A", "A_INFO0", "A_TONEA")
      \/ DecodeInfo0("A") \/ Go("A", "A_TONEA", "A_INFO0")
      \/ PeerSends("A", "TONE") /\ Go("A", "A_TONEA", "A_TA_REV")
      \/ Go("A", "A_TA_REV", "A_SIL2") \/ Go("A", "A_SIL2", "A_PROBE")
      \/ Go("A", "A_SIL2", "A_INFO0") \/ ProbeDone
      \/ Go("A", "A_TONEA2", "A_INFOH") \/ InfohPlayed
  BY DEF A_Phase2, start_info0
<1>6. /\ {"A_SILENCE", "A_INFO0", "A_TONEA", "A_TA_REV", "A_SIL2", "A_TONEA2"}
           \subseteq AnswererP2 \ {"OFF", "A_INFOH"}
      /\ {"A_INFO0", "A_TONEA", "A_TA_REV", "A_SIL2", "A_PROBE", "A_INFOH"}
           \subseteq AnswererP2 \ {"OFF"}
      /\ "A_TA_REV" \notin EarlyP2 /\ "A_SIL2" \notin EarlyP2 /\ "A_TONEA2" \notin EarlyP2
      /\ "A_INFO0" \in EarlyP2 /\ "A_TONEA" \in EarlyP2
  BY DEF AnswererP2, EarlyP2
<1>7. CASE Go("A", "A_SILENCE", "A_INFO0")
  BY <1>4, <1>6, <1>7
<1>8. CASE Go("A", "A_INFO0", "A_TONEA")
  BY <1>4, <1>6, <1>8
<1>9. CASE Go("A", "A_TONEA", "A_INFO0")
  BY <1>4, <1>6, <1>9
<1>10. CASE PeerSends("A", "TONE") /\ Go("A", "A_TONEA", "A_TA_REV")
  BY <1>4, <1>6, <1>10
<1>11. CASE Go("A", "A_TA_REV", "A_SIL2")
  BY <1>4, <1>6, <1>11
<1>12. CASE Go("A", "A_SIL2", "A_PROBE")
  BY <1>4, <1>6, <1>12
<1>13. CASE Go("A", "A_SIL2", "A_INFO0")
  BY <1>4, <1>6, <1>13
<1>14. CASE Go("A", "A_TONEA2", "A_INFOH")
  BY <1>4, <1>6, <1>14
<1>. QED BY <1>1, <1>2, <1>3, <1>5, <1>7, <1>8, <1>9, <1>10, <1>11, <1>12, <1>13, <1>14

LEMMA LowerIs ==
  ASSUME NEW a \in 1..14, NEW b \in 1..14
  PROVE  Lower(a, b) \in 1..14 /\ Lower(a, b) <= a /\ Lower(a, b) <= b
  BY SMT DEF Lower

LEMMA TopRange ==
  ASSUME NEW sr \in Srates
  PROVE  top_rate(sr) \in 1..14
  BY RateFacts

LEMMA AdoptPoint ==
  ASSUME CallInv, AdoptInfoh
  PROVE  /\ DOMAIN point' = Sides /\ point'["C"] \in SafePoints /\ point'["A"] = point["A"]
         /\ point'["C"].srate = p2_roll["C"].srate /\ p2_roll["C"].sig = "INFOH"
<1>1. PICK sr, n : sr = p2_roll["C"].srate /\ n = Lower(point["C"].local_max, top_rate(sr))
  OBVIOUS
<1>2. point' = [point EXCEPT !["C"] = [srate |-> sr, local_max |-> n]] /\ p2_roll["C"].sig = "INFOH"
  BY <1>1 DEF AdoptInfoh
<1>3. sr \in Srates
  BY <1>1, <1>2 DEF CallInv, TypeInv, LineInv
<1>4. point["C"].local_max \in 1..14
  BY EndFacts, PointFacts, ModeFacts
<1>5. n \in 1..14 /\ n <= top_rate(sr)
  BY <1>1, <1>3, <1>4, TopRange, LowerIs
<1>6. [srate |-> sr, local_max |-> n] \in SafePoints
  BY <1>3, <1>5, PointFacts
<1>7. DOMAIN point = Sides
  BY DEF CallInv, TypeInv, EndsInv
<1>8. DOMAIN point' = Sides /\ point'["C"] = [srate |-> sr, local_max |-> n]
      /\ point'["A"] = point["A"]
  BY <1>2, <1>7, ModeFacts
<1>. QED BY <1>1, <1>2, <1>6, <1>8

LEMMA ProbePoint ==
  ASSUME CallInv, analyze_probe
  PROVE  /\ DOMAIN point' = Sides /\ point'["A"] \in SafePoints /\ point'["C"] = point["C"]
         /\ point'["A"].local_max <= point["A"].local_max
<1>1. DOMAIN point = Sides /\ point["A"] \in SafePoints
  BY EndFacts, ModeFacts DEF CallInv, TypeInv, EndsInv
<1>2. CASE UNCHANGED point
  <2>1. PICK cap : cap = point["A"].local_max
    OBVIOUS
  <2>2. cap \in 1..14
    BY <1>1, <2>1, PointFacts
  <2>3. cap <= cap
    BY <2>2, SMT
  <2>. QED BY <1>1, <1>2, <2>1, <2>3
<1>3. ASSUME NEW sr \in Srates, NEW projected \in rate_mask[sr],
             point' = [point EXCEPT !["A"] =
               [srate |-> sr,
                local_max |-> Lower(projected, Lower(point["A"].local_max, top_rate(sr)))]]
      PROVE  /\ DOMAIN point' = Sides /\ point'["A"] \in SafePoints /\ point'["C"] = point["C"]
             /\ point'["A"].local_max <= point["A"].local_max
  <2>1. PICK m, n : m = Lower(point["A"].local_max, top_rate(sr)) /\ n = Lower(projected, m)
    OBVIOUS
  <2>2. point["A"].local_max \in 1..14 /\ projected \in 1..14
    BY <1>1, PointFacts, RateFacts
  <2>3. m \in 1..14 /\ m <= top_rate(sr) /\ m <= point["A"].local_max
    BY <2>1, <2>2, TopRange, LowerIs
  <2>4. n \in 1..14 /\ n <= m
    BY <2>1, <2>2, <2>3, LowerIs
  <2>5. n <= top_rate(sr)
    <3>1. PICK t : t = top_rate(sr)
      OBVIOUS
    <3>2. t \in 1..14
      BY <3>1, TopRange
    <3>. QED BY <2>3, <2>4, <3>1, <3>2, SMT
  <2>6. [srate |-> sr, local_max |-> n] \in SafePoints
    BY <2>4, <2>5, PointFacts
  <2>7. point' = [point EXCEPT !["A"] = [srate |-> sr, local_max |-> n]]
    BY <1>3, <2>1
  <2>8. point'["A"] = [srate |-> sr, local_max |-> n]
    BY <1>1, <2>7, ModeFacts
  <2>9. n <= point["A"].local_max
    <3>1. PICK cap : cap = point["A"].local_max
      OBVIOUS
    <3>. QED BY <2>2, <2>3, <2>4, <3>1, SMT
  <2>. QED BY <1>1, <2>6, <2>7, <2>8, <2>9, ModeFacts
<1>. QED BY <1>2, <1>3 DEF analyze_probe

(* The session that Phase 2 leaves. *)
LEMMA FinishedSession ==
  ASSUME NEW r \in Sessions, NEW st \in {"C_PHASE3_Q", "A_TRN_WAIT"}
  PROVE  LET x == SetSt(regate(r), st) IN
         /\ x \in Sessions /\ x.st = st /\ x.done = r.done /\ x.rx_mode = r.rx_mode
         /\ x.frames = r.frames /\ x.saved = r.saved /\ x.gate = r.gate /\ x.win = <<>>
<1>1. PICK y, x : y = regate(r) /\ x = SetSt(y, st)
  OBVIOUS
<1>2. /\ y \in Sessions /\ y.done = r.done /\ y.rx_mode = r.rx_mode
      /\ y.frames = r.frames /\ y.saved = r.saved /\ y.gate = r.gate /\ y.win = <<>>
  <2>1. PICK g : g = r.gate
    OBVIOUS
  <2>2. g \in Gates /\ 0 \in Rates
    BY <2>1, Fields, SMT DEF Rates
  <2>3. y = gate_opens(r, g, 0)
    BY <1>1, <2>1 DEF regate
  <2>. QED BY <2>1, <2>2, <2>3, GateOpens
<1>3. x \in Sessions /\ x.st = st /\ x.done = y.done /\ x.rx_mode = y.rx_mode
      /\ x.frames = y.frames /\ x.saved = y.saved /\ x.gate = y.gate /\ x.win = y.win
  <2>1. st \in SessionStates
    BY DEF SessionStates
  <2>. QED BY <1>1, <1>2, <2>1 DEF SetSt, Sessions
<1>. QED BY <1>1, <1>2, <1>3

P2Lines == arriving' = [s \in Sides |-> IF Phase2Ends(s) THEN Silence ELSE arriving[s]]
P2Sessions ==
  ss' = [s \in Sides |->
           IF ~Phase2Ends(s) \/ ss[s].done THEN ss[s]
           ELSE [regate(ss[s]) EXCEPT !.st = IF s = "C" THEN "C_PHASE3_Q" ELSE "A_TRN_WAIT"]]

(* What is left of the session of the end that steps. *)
Advanced(r, x) ==
  /\ x \in Sessions /\ x.done = r.done /\ x.rx_mode = r.rx_mode
  /\ x.frames = r.frames /\ x.saved = r.saved /\ x.gate = r.gate
  /\ Range(x.win) \subseteq Range(r.win)
  /\ x.st = r.st \/ x.st \notin Beginning

LEMMA P2SessionsAre ==
  ASSUME CallInv, NEW s \in Sides, P2Steps(s), P2Lines, P2Sessions
  PROVE  /\ DOMAIN ss' = Sides /\ DOMAIN arriving' = Sides
         /\ ss'[Peer(s)] = ss[Peer(s)] /\ arriving'[Peer(s)] = arriving[Peer(s)]
         /\ arriving'[s] = arriving[s] \/ arriving'[s] = Silence
         /\ Advanced(ss[s], ss'[s])
         /\ p2_state'[s] = "OFF" =>
              arriving'[s] = Silence /\ (ss[s].done \/ ss'[s].st \notin Beginning)
<1>1. ~Phase2Ends(Peer(s)) /\ Peer(s) \in Sides
  BY PeerFacts DEF P2Steps, Phase2Ends
<1>2. DOMAIN ss' = Sides /\ DOMAIN arriving' = Sides
  BY DEF P2Lines, P2Sessions
<1>3. ss'[Peer(s)] = ss[Peer(s)] /\ arriving'[Peer(s)] = arriving[Peer(s)]
  BY <1>1 DEF P2Lines, P2Sessions
<1>4. arriving'[s] = arriving[s] \/ arriving'[s] = Silence
  BY DEF P2Lines
<1>5. Phase2Ends(s) => arriving'[s] = Silence
  BY DEF P2Lines
<1>6. p2_state'[s] = "OFF" => Phase2Ends(s)
  BY DEF P2Steps, Phase2Ends
<1>7. PICK st, x : st = (IF s = "C" THEN "C_PHASE3_Q" ELSE "A_TRN_WAIT")
                   /\ x = SetSt(regate(ss[s]), st)
  OBVIOUS
<1>8. ss'[s] = IF ~Phase2Ends(s) \/ ss[s].done THEN ss[s] ELSE x
  BY <1>7 DEF P2Sessions, SetSt
<1>9. Advanced(ss[s], x) /\ x.st \notin Beginning
  <2>1. st \in {"C_PHASE3_Q", "A_TRN_WAIT"}
    BY <1>7
  <2>2. /\ x \in Sessions /\ x.st = st /\ x.done = ss[s].done /\ x.rx_mode = ss[s].rx_mode
        /\ x.frames = ss[s].frames /\ x.saved = ss[s].saved /\ x.gate = ss[s].gate
        /\ x.win = <<>>
    BY <1>7, <2>1, EndFacts, FinishedSession
  <2>3. st \notin Beginning
    BY <2>1 DEF Beginning
  <2>. QED BY <2>2, <2>3, Empty DEF Advanced
<1>10. Advanced(ss[s], ss[s])
  BY EndFacts DEF Advanced
<1>. QED BY <1>2, <1>3, <1>4, <1>5, <1>6, <1>8, <1>9, <1>10

LEMMA P2StepKeeps ==
  ASSUME CallInv, NEW s \in Sides, P2Steps(s), P2Lines, P2Sessions, UNCHANGED <<v8Vars, t30>>,
         DOMAIN point' = Sides, \A q \in Sides : point'[q] \in SafePoints,
         p2_roll' = p2_roll \/ p2_roll' = [p2_roll EXCEPT ![s] = Silence],
         PointInv'
  PROVE  CallInv'
<1>1. /\ DOMAIN ss' = Sides /\ DOMAIN arriving' = Sides
      /\ ss'[Peer(s)] = ss[Peer(s)] /\ arriving'[Peer(s)] = arriving[Peer(s)]
      /\ arriving'[s] = arriving[s] \/ arriving'[s] = Silence
      /\ Advanced(ss[s], ss'[s])
      /\ p2_state'[s] = "OFF" => ss[s].done \/ ss'[s].st \notin Beginning
  BY P2SessionsAre
<1>2. \A q \in Sides : q = s \/ q = Peer(s)
  BY PeerFacts
<1>3. \A q \in Sides : Advanced(ss[q], ss'[q])
  <2>1. Advanced(ss[Peer(s)], ss'[Peer(s)])
    BY <1>1, PeerFacts, EndFacts DEF Advanced
  <2>. QED BY <1>1, <1>2, <2>1
<1>4. \A q \in Sides : arriving'[q] = arriving[q] \/ arriving'[q] = Silence
  BY <1>1, <1>2
<1>5. t30' = t30 /\ v8' = v8 /\ v8_status' = v8_status /\ modulations' = modulations
      /\ our_modulations' = our_modulations
  BY DEF v8Vars
<1>6. LineInv'
  <2>1. DOMAIN p2_roll = Sides /\ (\A q \in Sides : Kept(p2_roll[q].sig))
        /\ (p2_roll["C"].sig = "INFOH" => p2_roll["C"].srate \in Srates)
    BY DEF CallInv, TypeInv, LineInv
  <2>2. \A q \in Sides : p2_roll'[q] = p2_roll[q] \/ p2_roll'[q] = Silence
    BY <2>1
  <2>3. DOMAIN p2_roll' = Sides
    BY <2>1
  <2>4. \A q \in Sides : Kept(p2_roll'[q].sig)
    BY <2>1, <2>2, SignalIs DEF Kept
  <2>5. p2_roll'["C"].sig = "INFOH" => p2_roll'["C"].srate \in Srates
    <3>1. p2_roll'["C"] = p2_roll["C"] \/ p2_roll'["C"].sig = "SILENCE"
      BY <2>2, ModeFacts, SignalIs
    <3>. QED BY <2>1, <3>1
  <2>. QED BY <1>1, <2>3, <2>4, <2>5 DEF LineInv
<1>7. EndsInv'
  <2>1. ASSUME NEW q \in Sides PROVE EndOk(q, End(q)')
    <3>1. PICK x, p, t : x = ss'[q] /\ p = point'[q] /\ t = t30[q]
      OBVIOUS
    <3>2. End(q)' = [ss |-> x, pt |-> p, t |-> t]
      BY <1>5, <3>1 DEF End
    <3>3. /\ ss[q] \in Sessions /\ t \in Engines /\ t.sub \in SubsOf(q)
          /\ q = "C" => ss[q].rx_mode # "PRI" /\ (ss[q].done => ss[q].st \notin Beginning)
          /\ q = "A" => Acked(t)
      BY <3>1, EndFacts DEF EndOk
    <3>4. /\ x \in Sessions /\ x.done = ss[q].done /\ x.rx_mode = ss[q].rx_mode
          /\ x.st = ss[q].st \/ x.st \notin Beginning
      BY <1>3, <3>1 DEF Advanced
    <3>5. PICK f : f = [ss |-> x, pt |-> p, t |-> t]
      OBVIOUS
    <3>6. f \in EndRecords /\ f.ss = x /\ f.t = t
      BY <3>1, <3>3, <3>4, <3>5 DEF EndRecords
    <3>7. EndOk(q, f)
      BY <3>3, <3>4, <3>6 DEF EndOk
    <3>. QED BY <3>2, <3>5, <3>7
  <2>2. DOMAIN t30' = Sides
    BY <1>5 DEF CallInv, TypeInv, EndsInv
  <2>. QED BY <1>1, <2>1, <2>2 DEF EndsInv, EndOk, End
<1>8. P2Inv'
  <2>1. ASSUME ss'["C"].st = "START" PROVE p2_state'["C"] # "OFF"
    <3>1. ss["C"].st = "START" /\ ss'["C"].st \in Beginning
      BY <1>3, <2>1, ModeFacts DEF Advanced, Beginning
    <3>2. p2_state["C"] # "OFF" /\ ~ss["C"].done
      BY <3>1, EndFacts, ModeFacts DEF CallInv, TypeInv, P2Inv, EndOk, Beginning
    <3>3. CASE s = "C"
      BY <1>1, <3>1, <3>2, <3>3
    <3>4. CASE Peer(s) = "C"
      BY <3>2, <3>4 DEF P2Steps
    <3>. QED BY <1>2, <3>3, <3>4, ModeFacts
  <2>. QED BY <2>1 DEF P2Inv, P2Steps
<1>9. V8Inv'
  <2>1. ASSUME NEW q \in Sides, V8Runs(q)
        PROVE  /\ v8_status[q] = "" /\ ss'[q].st = "IDLE" /\ p2_state'[q] = "OFF"
               /\ t30[q].sub \in {"C_WAIT_V8", "A_SEND_V8", "DONE"}
    <3>1. /\ v8_status[q] = "" /\ ss[q].st = "IDLE" /\ p2_state[q] = "OFF"
          /\ t30[q].sub \in {"C_WAIT_V8", "A_SEND_V8", "DONE"}
      BY <2>1 DEF CallInv, TypeInv, V8Inv
    <3>2. q = Peer(s)
      BY <1>2, <3>1 DEF P2Steps
    <3>. QED BY <1>1, <3>1, <3>2 DEF P2Steps
  <2>2. \A q \in Sides : V8Runs(q)' <=> V8Runs(q)
    BY <1>5 DEF V8Runs
  <2>3. V8TypeOK'
    BY <1>5 DEF CallInv, TypeInv, V8Inv, V8TypeOK
  <2>4. v8["C"] \in CallerV8 /\ v8["A"] \in AnswererV8
    BY DEF CallInv, TypeInv, V8Inv
  <2>. QED BY <1>5, <2>1, <2>2, <2>3, <2>4 DEF V8Inv
<1>10. AgreeInv'
  <2>1. \A q \in Sides : arriving'[q] = arriving[q] \/ arriving'[q].sig = "SILENCE"
    BY <1>4, SignalIs
  <2>2. (arriving'["C"] = arriving["C"] \/ arriving'["C"].sig = "SILENCE")
        /\ (arriving'["A"] = arriving["A"] \/ arriving'["A"].sig = "SILENCE")
    BY <2>1, ModeFacts
  <2>3. AgreeInv
    BY DEF CallInv
  <2>. QED BY <1>5, <2>2, <2>3 DEF AgreeInv, AnswererAgrees, CallerAgrees, CommonMods
<1>11. McfInv'
  <2>1. ss'["A"].frames = ss["A"].frames /\ ss'["A"].saved = ss["A"].saved
        /\ Range(ss'["C"].win) \subseteq Range(ss["C"].win)
    BY <1>3, ModeFacts DEF Advanced
  <2>. QED BY <1>5, <2>1 DEF CallInv, McfInv, SaysMcf
<1>. QED BY <1>6, <1>7, <1>8, <1>9, <1>10, <1>11 DEF CallInv, TypeInv

LEMMA Phase2StepKeeps ==
  ASSUME CallInv, Phase2Step
  PROVE  CallInv'
<1>1. P2Lines /\ P2Sessions /\ UNCHANGED <<v8Vars, t30>>
  BY DEF Phase2Step, P2Lines, P2Sessions
<1>2. P2Inv /\ PointInv /\ DOMAIN p2_roll = Sides
  BY DEF CallInv, TypeInv, LineInv
<1>3. v8' = v8 /\ t30' = t30
  BY <1>1 DEF v8Vars
<1>4. \A q \in Sides : point[q] \in SafePoints
  BY EndFacts
<1>5. DOMAIN point = Sides
  BY DEF CallInv, TypeInv, EndsInv
<1>6. CASE t30["C"].sub # "DONE" /\ C_Phase2
  <2>1. P2Steps("C")
    BY <1>2, <1>6, CallerPhase2
  <2>2. ~Past2 /\ ss["A"].gate = ""
    <3>1. ~Past2
      BY <1>6, <2>1 DEF Past2, Settled2, P2Steps
    <3>. QED BY <1>2, <3>1 DEF PointInv
  <2>3. ss'["A"] = ss["A"] /\ p2_state'["A"] = p2_state["A"]
    BY <1>1, <2>1, P2SessionsAre, ModeFacts DEF P2Steps, Peer
  <2>4. CASE p2_state'["C"] # "OFF" /\ UNCHANGED <<p2_roll, point>>
    <3>1. ~Settled2' /\ ~Past2'
      BY <1>3, <1>6, <2>4 DEF Settled2, Past2
    <3>2. V8Runs("A")' = V8Runs("A")
      BY <1>3 DEF V8Runs
    <3>3. PointInv'
      BY <1>2, <2>2, <2>3, <2>4, <3>1, <3>2 DEF PointInv
    <3>. QED BY <1>1, <1>4, <1>5, <2>1, <2>4, <3>3, ModeFacts, P2StepKeeps
  <2>5. CASE p2_state'["C"] = "OFF" /\ AdoptInfoh /\ p2_roll' = [p2_roll EXCEPT !["C"] = Silence]
    <3>1. /\ DOMAIN point' = Sides /\ point'["C"] \in SafePoints /\ point'["A"] = point["A"]
          /\ point'["C"].srate = p2_roll["C"].srate /\ p2_roll["C"].sig = "INFOH"
      BY <2>5, AdoptPoint
    <3>2. p2_roll["C"].srate = point["A"].srate /\ p2_state["A"] \in {"OFF", "A_INFOH"}
      BY <1>2, <2>2, <3>1 DEF PointInv
    <3>3. p2_roll'["C"].sig = "SILENCE"
      BY <1>2, <2>5, ModeFacts, SignalIs
    <3>4. arriving'["C"].sig = "SILENCE"
      <4>1. arriving'["C"] = Silence
        BY <1>1, <2>1, <2>5, P2SessionsAre, ModeFacts
      <4>. QED BY <4>1, SignalIs
    <3>5. PointInv'
      BY <2>2, <2>3, <3>1, <3>2, <3>3, <3>4 DEF PointInv
    <3>6. \A q \in Sides : point'[q] \in SafePoints
      BY <1>4, <3>1, ModeFacts
    <3>. QED BY <1>1, <2>1, <2>5, <3>1, <3>5, <3>6, ModeFacts, P2StepKeeps
  <2>. QED BY <1>2, <1>6, <2>4, <2>5, CallerPhase2
<1>7. CASE t30["A"].sub # "DONE" /\ A_Phase2
  <2>1. P2Steps("A")
    BY <1>2, <1>7, AnswererPhase2
  <2>2. ss'["C"] = ss["C"] /\ p2_state'["C"] = p2_state["C"] /\ arriving'["C"] = arriving["C"]
        /\ ss'["A"].gate = ss["A"].gate
    BY <1>1, <2>1, P2SessionsAre, ModeFacts DEF P2Steps, Peer, Advanced
  <2>3. Settled2' = Settled2 /\ Past2' = Past2 /\ V8Runs("A")' = V8Runs("A")
    BY <1>3, <2>2 DEF Settled2, Past2, V8Runs
  <2>4. CASE /\ p2_state'["A"] # "OFF" /\ p2_state["A"] # "A_INFOH" /\ UNCHANGED p2_roll
             /\ UNCHANGED point \/ (p2_state["A"] = "A_PROBE" /\ analyze_probe)
             /\ p2_state["A"] \in EarlyP2 => p2_state'["A"] \in EarlyP2 \/ PeerSends("A", "TONE")
    <3>1. DOMAIN point' = Sides /\ \A q \in Sides : point'[q] \in SafePoints
      BY <1>4, <1>5, <2>4, ProbePoint, ModeFacts
    <3>2. ASSUME Settled2
          PROVE  /\ point'["C"].srate = point'["A"].srate /\ arriving'["C"].sig = "SILENCE"
                 /\ p2_state'["A"] \in {"OFF", "A_INFOH", "A_SILENCE", "A_INFO0", "A_TONEA"}
      <4>1. point["C"].srate = point["A"].srate /\ arriving["C"].sig = "SILENCE"
            /\ p2_state["A"] \in {"OFF", "A_INFOH", "A_SILENCE", "A_INFO0", "A_TONEA"}
        BY <1>2, <3>2 DEF PointInv
      <4>2. p2_state["A"] \in EarlyP2 /\ p2_state["A"] # "A_PROBE"
        BY <2>1, <2>4, <4>1 DEF EarlyP2, P2Steps
      <4>3. ~PeerSends("A", "TONE")
        BY <4>1 DEF PeerSends, Peer
      <4>4. p2_state'["A"] \in EarlyP2 /\ point' = point
        BY <2>4, <4>2, <4>3
      <4>. QED BY <2>2, <4>1, <4>4 DEF EarlyP2
    <3>3. ~(p2_roll["C"].sig = "INFOH" /\ ~Past2)
      BY <1>2, <2>1, <2>4 DEF PointInv, P2Steps
    <3>4. PointInv'
      BY <1>2, <2>2, <2>3, <2>4, <3>2, <3>3 DEF PointInv
    <3>. QED BY <1>1, <2>1, <2>4, <3>1, <3>4, ModeFacts, P2StepKeeps
  <2>5. CASE /\ p2_state'["A"] = "OFF" /\ UNCHANGED point
             /\ p2_roll' = [p2_roll EXCEPT !["A"] = Silence]
    <3>1. p2_roll'["C"] = p2_roll["C"]
      BY <1>2, <2>5, ModeFacts
    <3>2. PointInv'
      BY <1>2, <2>2, <2>3, <2>5, <3>1 DEF PointInv
    <3>. QED BY <1>1, <1>4, <1>5, <2>1, <2>5, <3>2, ModeFacts, P2StepKeeps
  <2>. QED BY <1>2, <1>7, <2>4, <2>5, AnswererPhase2
<1>. QED BY <1>6, <1>7 DEF Phase2Step

-----------------------------------------------------------------------------
(* V.8. *)

(* A step of the engine at q, which goes on or reports. *)
V8Advances(q) ==
  /\ V8Runs(q) /\ v8'[q] # v8[q] /\ v8_status[q] = ""
  /\ v8'[Peer(q)] = v8[Peer(q)] /\ v8_status'[Peer(q)] = v8_status[Peer(q)]
  /\ \/ v8_status'[q] = ""
     \/ v8_status'[q] # "" /\ v8'[q] = "DONE"

V8Types ==
  V8TypeOK /\ v8["C"] \in CallerV8 /\ v8["A"] \in AnswererV8

LEMMA GotoAdvances ==
  ASSUME V8Inv, NEW q \in Sides, NEW state, goto(q, state), V8Runs(q), v8[q] # state,
         q = "C" => state \in CallerV8, q = "A" => state \in AnswererV8,
         modulations' \in [Sides -> SUBSET Modulations]
  PROVE  V8Advances(q) /\ V8Types' /\ v8'[q] = state /\ v8_status' = v8_status
         /\ our_modulations' = our_modulations
<1>1. v8' = [v8 EXCEPT ![q] = state] /\ UNCHANGED <<our_modulations, v8_status>>
  BY DEF goto
<1>2. /\ v8 \in [Sides -> {"OFF", "CI", "TE", "CM", "CJ", "ANSAM", "JM", "DONE"}]
      /\ v8["C"] \in CallerV8 /\ v8["A"] \in AnswererV8 /\ v8_status[q] = ""
  BY DEF V8Inv, V8TypeOK
<1>3. state \in {"OFF", "CI", "TE", "CM", "CJ", "ANSAM", "JM", "DONE"}
  BY ModeFacts DEF CallerV8, AnswererV8
<1>4. /\ v8' \in [Sides -> {"OFF", "CI", "TE", "CM", "CJ", "ANSAM", "JM", "DONE"}]
      /\ v8'[q] = state /\ v8'[Peer(q)] = v8[Peer(q)]
  BY <1>1, <1>2, <1>3, PeerFacts
<1>5. v8'["C"] \in CallerV8 /\ v8'["A"] \in AnswererV8
  BY <1>2, <1>4, ModeFacts DEF Peer
<1>6. V8TypeOK'
  BY <1>1, <1>4 DEF V8Inv, V8TypeOK
<1>. QED BY <1>1, <1>2, <1>4, <1>5, <1>6 DEF V8Advances, V8Types

LEMMA ReportAdvances ==
  ASSUME V8Inv, NEW q \in Sides, NEW status \in {"V8_CALL", "NON_V8_CALL", "FAILED"},
         report(q, status), V8Runs(q)
  PROVE  V8Advances(q) /\ V8Types' /\ v8'[q] = "DONE" /\ v8_status'[q] = status
         /\ UNCHANGED <<our_modulations, modulations>>
<1>1. /\ v8_status' = [v8_status EXCEPT ![q] = status] /\ v8' = [v8 EXCEPT ![q] = "DONE"]
      /\ UNCHANGED <<our_modulations, modulations>>
  BY DEF report
<1>2. /\ v8 \in [Sides -> {"OFF", "CI", "TE", "CM", "CJ", "ANSAM", "JM", "DONE"}]
      /\ v8_status \in [Sides -> {"", "V8_CALL", "NON_V8_CALL", "FAILED"}]
      /\ v8["C"] \in CallerV8 /\ v8["A"] \in AnswererV8 /\ v8_status[q] = ""
  BY DEF V8Inv, V8TypeOK
<1>3. /\ v8' \in [Sides -> {"OFF", "CI", "TE", "CM", "CJ", "ANSAM", "JM", "DONE"}]
      /\ v8'[q] = "DONE" /\ v8'[Peer(q)] = v8[Peer(q)]
  BY <1>1, <1>2, PeerFacts
<1>4. /\ v8_status' \in [Sides -> {"", "V8_CALL", "NON_V8_CALL", "FAILED"}]
      /\ v8_status'[q] = status /\ v8_status'[Peer(q)] = v8_status[Peer(q)]
  BY <1>1, <1>2, PeerFacts
<1>5. v8'["C"] \in CallerV8 /\ v8'["A"] \in AnswererV8
  BY <1>2, <1>3, ModeFacts DEF Peer, CallerV8, AnswererV8
<1>6. V8TypeOK'
  BY <1>1, <1>3, <1>4 DEF V8Inv, V8TypeOK
<1>. QED BY <1>1, <1>2, <1>3, <1>4, <1>5, <1>6 DEF V8Advances, V8Types, V8Runs

LEMMA CommonIs ==
  ASSUME CallInv, NEW s \in Sides
  PROVE  /\ Common(s) \in SUBSET Modulations
         /\ s = "A" /\ arriving["C"].sig = "CM" => Common(s) = CommonMods
         /\ s = "C" /\ arriving["A"].sig = "JM" => Common(s) = CommonMods
<1>1. our_modulations[s] \in SUBSET Modulations
  BY DEF CallInv, TypeInv, V8Inv, V8TypeOK
<1>2. Common(s) = parse_modulation(arriving[Peer(s)].octets) \cap our_modulations[s]
  BY DEF Common, Heard
<1>3. s = "A" /\ arriving["C"].sig = "CM" => Common(s) = CommonMods
  BY <1>2 DEF CallInv, AgreeInv, CommonMods, Peer
<1>4. s = "C" /\ arriving["A"].sig = "JM" => Common(s) = CommonMods
  BY <1>2 DEF CallInv, AgreeInv, CommonMods, Peer
<1>. QED BY <1>1, <1>2, <1>3, <1>4

(* The engine of the caller. *)
CallerV8Step ==
  \/ goto("C", "TE") /\ UNCHANGED modulations /\ v8["C"] = "CI"
  \/ goto("C", "CM") /\ UNCHANGED modulations /\ v8["C"] = "TE"
  \/ v8["C"] = "CM" /\ HearJM
  \/ \E status \in {"NON_V8_CALL", "FAILED"} : report("C", status) /\ v8["C"] \in {"CI", "CM"}
  \/ report("C", "V8_CALL") /\ v8["C"] = "CJ"

AnswererV8Step ==
  \/ HearCM
  \/ \E status \in {"NON_V8_CALL", "FAILED"} : report("A", status) /\ v8["A"] \in {"ANSAM", "JM"}
  \/ HearCJ

LEMMA V8Cases ==
  ASSUME V8Inv, nf_v8_rx
  PROVE  UNCHANGED arriving /\ (CallerV8Step \/ AnswererV8Step)
<1>1. v8["C"] \in CallerV8 /\ v8["A"] \in AnswererV8
  BY DEF V8Inv
<1>2. UNCHANGED arriving
      /\ \/ HearAnswerTone \/ HearFlags \/ TeElapsed \/ HearJM \/ CjPlayed
         \/ HearCM \/ HearCJ \/ \E s \in Sides : V8Timeout(s)
  BY DEF nf_v8_rx
<1>3. HearAnswerTone => CallerV8Step
  BY DEF HearAnswerTone, CallerV8Step
<1>4. HearFlags \/ TeElapsed \/ CjPlayed => CallerV8Step
  BY DEF HearFlags, TeElapsed, CjPlayed, CallerV8Step
<1>5. HearJM => CallerV8Step
  BY DEF HearJM, CallerV8Step
<1>6. HearCM \/ HearCJ => AnswererV8Step
  BY DEF AnswererV8Step
<1>7. V8Timeout("C") => CallerV8Step
  BY <1>1 DEF V8Timeout, CallerV8Step, CallerV8
<1>8. V8Timeout("A") => AnswererV8Step
  BY <1>1 DEF V8Timeout, AnswererV8Step, AnswererV8
<1>. QED BY <1>2, <1>3, <1>4, <1>5, <1>6, <1>7, <1>8, ModeFacts

LEMMA CallerV8Keeps ==
  ASSUME CallInv, UNCHANGED arriving, CallerV8Step
  PROVE  V8Advances("C") /\ V8Types' /\ AgreeInv'
<1>1. V8Inv /\ AgreeInv /\ "C" \in Sides /\ Peer("C") = "A"
  BY ModeFacts DEF CallInv, TypeInv, Peer
<1>2. modulations \in [Sides -> SUBSET Modulations]
  BY <1>1 DEF V8Inv, V8TypeOK
<1>3. {"TE", "CM", "CJ"} \subseteq CallerV8
  BY DEF CallerV8
<1>4. ASSUME NEW state \in {"TE", "CM"}, goto("C", state), UNCHANGED modulations,
             v8["C"] \in {"CI", "TE"}, v8["C"] # state
      PROVE  V8Advances("C") /\ V8Types' /\ AgreeInv'
  <2>1. V8Runs("C")
    BY <1>4 DEF V8Runs
  <2>2. V8Advances("C") /\ V8Types' /\ v8'["C"] = state /\ v8_status' = v8_status
        /\ our_modulations' = our_modulations
    BY <1>1, <1>2, <1>3, <1>4, <2>1, GotoAdvances
  <2>3. ~CallerAgrees
    BY <1>1, <1>4, <2>1 DEF CallerAgrees, V8Inv
  <2>4. v8'["A"] = v8["A"]
    BY <1>1, <2>2 DEF V8Advances
  <2>5. AgreeInv'
    BY <1>1, <1>4, <2>2, <2>3, <2>4 DEF AgreeInv, CallerAgrees, AnswererAgrees, CommonMods
  <2>. QED BY <2>2, <2>5
<1>5. CASE v8["C"] = "CM" /\ HearJM
  <2>1. arriving["A"].sig = "JM" /\ goto("C", "CJ") /\ V8Runs("C")
        /\ modulations' = [modulations EXCEPT !["C"] = Common("C")]
    BY <1>5 DEF HearJM, V8Runs, Heard, Peer
  <2>2. Common("C") \in SUBSET Modulations /\ Common("C") = CommonMods
    BY <1>1, <2>1, CommonIs
  <2>3. modulations' \in [Sides -> SUBSET Modulations] /\ modulations'["C"] = CommonMods
        /\ modulations'["A"] = modulations["A"]
    BY <1>2, <2>1, <2>2, ModeFacts
  <2>4. V8Advances("C") /\ V8Types' /\ v8'["C"] = "CJ" /\ v8_status' = v8_status
        /\ our_modulations' = our_modulations
    BY <1>1, <1>3, <1>5, <2>1, <2>3, GotoAdvances
  <2>5. AnswererAgrees
    BY <1>1, <2>1 DEF AgreeInv
  <2>6. v8'["A"] = v8["A"]
    BY <1>1, <2>4 DEF V8Advances
  <2>7. AgreeInv'
    BY <1>1, <2>3, <2>4, <2>5, <2>6 DEF AgreeInv, CallerAgrees, AnswererAgrees, CommonMods
  <2>. QED BY <2>4, <2>7
<1>6. ASSUME NEW status \in {"V8_CALL", "NON_V8_CALL", "FAILED"}, report("C", status),
             v8["C"] \in {"CI", "CM", "CJ"}, status = "V8_CALL" <=> v8["C"] = "CJ"
      PROVE  V8Advances("C") /\ V8Types' /\ AgreeInv'
  <2>1. V8Runs("C")
    BY <1>6 DEF V8Runs
  <2>2. V8Advances("C") /\ V8Types' /\ v8'["C"] = "DONE" /\ v8_status'["C"] = status
        /\ UNCHANGED <<our_modulations, modulations>>
    BY <1>1, <1>6, <2>1, ReportAdvances
  <2>3. v8'["A"] = v8["A"] /\ v8_status'["A"] = v8_status["A"]
    BY <1>1, <2>2 DEF V8Advances
  <2>4. v8_status["C"] = ""
    BY <1>1, <2>1 DEF V8Inv
  <2>5. CallerAgrees' <=> CallerAgrees
    BY <1>6, <2>2, <2>4 DEF CallerAgrees
  <2>6. AnswererAgrees' = AnswererAgrees /\ CommonMods' = CommonMods
    BY <2>2, <2>3 DEF AnswererAgrees, CommonMods
  <2>7. AgreeInv'
    BY <1>1, <2>2, <2>3, <2>5, <2>6 DEF AgreeInv
  <2>. QED BY <2>2, <2>7
<1>. QED BY <1>4, <1>5, <1>6 DEF CallerV8Step

LEMMA AnswererV8Keeps ==
  ASSUME CallInv, UNCHANGED arriving, AnswererV8Step
  PROVE  V8Advances("A") /\ V8Types' /\ AgreeInv'
<1>1. V8Inv /\ AgreeInv /\ "A" \in Sides /\ Peer("A") = "C"
  BY ModeFacts DEF CallInv, TypeInv, Peer
<1>2. modulations \in [Sides -> SUBSET Modulations]
  BY <1>1 DEF V8Inv, V8TypeOK
<1>3. CASE HearCM
  <2>1. arriving["C"].sig = "CM" /\ goto("A", "JM") /\ V8Runs("A") /\ v8["A"] = "ANSAM"
        /\ modulations' = [modulations EXCEPT !["A"] = Common("A")]
    BY <1>3 DEF HearCM, V8Runs, Heard, Peer
  <2>2. Common("A") \in SUBSET Modulations /\ Common("A") = CommonMods
    BY <1>1, <2>1, CommonIs
  <2>3. modulations' \in [Sides -> SUBSET Modulations] /\ modulations'["A"] = CommonMods
        /\ modulations'["C"] = modulations["C"]
    BY <1>2, <2>1, <2>2, ModeFacts
  <2>4. "JM" \in AnswererV8
    BY DEF AnswererV8
  <2>5. V8Advances("A") /\ V8Types' /\ v8'["A"] = "JM" /\ v8_status' = v8_status
        /\ our_modulations' = our_modulations
    BY <1>1, <2>1, <2>3, <2>4, GotoAdvances
  <2>6. ~AnswererAgrees /\ ~CallerAgrees
    BY <1>1, <2>1 DEF AgreeInv, AnswererAgrees
  <2>7. v8'["C"] = v8["C"]
    BY <1>1, <2>5 DEF V8Advances
  <2>8. AgreeInv'
    BY <1>1, <2>3, <2>5, <2>6, <2>7 DEF AgreeInv, CallerAgrees, AnswererAgrees, CommonMods
  <2>. QED BY <2>5, <2>8
<1>4. ASSUME NEW status \in {"V8_CALL", "NON_V8_CALL", "FAILED"}, report("A", status),
             v8["A"] \in {"ANSAM", "JM"}, status = "V8_CALL" => arriving["C"].sig = "CJ"
      PROVE  V8Advances("A") /\ V8Types' /\ AgreeInv'
  <2>1. V8Runs("A")
    BY <1>4 DEF V8Runs
  <2>2. V8Advances("A") /\ V8Types' /\ v8'["A"] = "DONE" /\ v8_status'["A"] = status
        /\ UNCHANGED <<our_modulations, modulations>>
    BY <1>1, <1>4, <2>1, ReportAdvances
  <2>3. v8'["C"] = v8["C"] /\ v8_status'["C"] = v8_status["C"]
    BY <1>1, <2>2 DEF V8Advances
  <2>4. CallerAgrees' = CallerAgrees /\ CommonMods' = CommonMods
        /\ (AnswererAgrees => AnswererAgrees')
    BY <2>2, <2>3 DEF CallerAgrees, AnswererAgrees, CommonMods
  <2>5. status = "V8_CALL" => CallerAgrees
    BY <1>1, <1>4 DEF AgreeInv
  <2>6. AgreeInv'
    BY <1>1, <2>2, <2>4, <2>5 DEF AgreeInv
  <2>. QED BY <2>2, <2>6
<1>5. CASE HearCJ
  <2>1. report("A", "V8_CALL") /\ v8["A"] = "JM" /\ arriving["C"].sig = "CJ"
    BY <1>5 DEF HearCJ, Heard, Peer
  <2>. QED BY <1>4, <2>1
<1>. QED BY <1>3, <1>4, <1>5 DEF AnswererV8Step

(* What T.30 makes of the result of V.8. *)
V34Turn(e, sub, r) == [e EXCEPT !.t.sub = sub, !.t.v34 = TRUE, !.ss = r]
V34Begins(r) == [r EXCEPT !.st = "START", !.tx_mode = "STARTUP", !.rx_mode = "STARTUP"]

LEMMA V34BeginsIs ==
  ASSUME NEW r \in Sessions
  PROVE  LET x == V34Begins(r) IN
         /\ x \in Sessions /\ x.st = "START" /\ x.done = r.done /\ x.rx_mode = "STARTUP"
         /\ x.frames = r.frames /\ x.saved = r.saved /\ x.gate = r.gate /\ x.win = r.win
<1>1. "START" \in SessionStates /\ "STARTUP" \in Modes
  BY DEF SessionStates, Modes
<1>. QED BY <1>1 DEF V34Begins, Sessions

V8Turned(s, e, f) ==
  /\ EndOk(s, f) /\ f.pt = e.pt
  /\ f.ss.frames = e.ss.frames /\ f.ss.saved = e.ss.saved /\ f.ss.win = e.ss.win
  /\ f.ss.gate = e.ss.gate /\ f.ss.st \in Beginning
  /\ f.ss.st = "START" => f.t.v34
  /\ f.t.sub \in {"C_WAIT_V34", "A_WAIT_V34", "C_WAIT_DIS", "A_CLASSIC_DIS", "A_SEND_CED"}
  /\ f.t.result = e.t.result

LEMMA OnV8Turns ==
  ASSUME NEW s \in Sides, NEW e, EndOk(s, e), e.ss.st = "IDLE", NEW status, NEW mods
  PROVE  V8Turned(s, e, on_v8(e, s, status, mods))
<1>1. PICK r, p, t : r = e.ss /\ p = e.pt /\ t = e.t
  OBVIOUS
<1>2. e = [ss |-> r, pt |-> p, t |-> t] /\ r \in Sessions /\ p \in SafePoints /\ t \in Engines
  BY <1>1, EndIs
<1>3. r.st = "IDLE" /\ (s = "C" => r.rx_mode # "PRI" /\ (r.done => r.st \notin Beginning))
  BY <1>1 DEF EndOk
<1>4. ASSUME NEW sub \in {"C_WAIT_DIS", "A_CLASSIC_DIS", "A_SEND_CED"}, sub \in SubsOf(s)
      PROVE  V8Turned(s, e, to(e, sub))
  <2>1. PICK u : u = [t EXCEPT !.sub = sub]
    OBVIOUS
  <2>2. to(e, sub) = [ss |-> r, pt |-> p, t |-> u]
    BY <1>2, <2>1, ToIs
  <2>3. sub \in Substates
    BY DEF Substates, Waiting
  <2>4. u \in Engines /\ u.sub = sub /\ u.result = t.result
    BY <1>2, <2>1, <2>3 DEF Engines
  <2>5. PICK f : f = [ss |-> r, pt |-> p, t |-> u]
    OBVIOUS
  <2>6. f.ss = r /\ f.pt = p /\ f.t = u /\ f \in EndRecords
    BY <1>2, <2>4, <2>5 DEF EndRecords
  <2>7. EndOk(s, f)
    BY <1>3, <1>4, <2>4, <2>6 DEF EndOk, Acked
  <2>8. r.st \in Beginning /\ r.st # "START"
    BY <1>3 DEF Beginning
  <2>. QED BY <1>1, <2>2, <2>4, <2>5, <2>6, <2>7, <2>8 DEF V8Turned
<1>5. ASSUME NEW sub \in {"C_WAIT_V34", "A_WAIT_V34"}, sub \in SubsOf(s)
      PROVE  V8Turned(s, e, V34Turn(e, sub, V34Begins(r)))
  <2>1. PICK x, u, w : x = V34Begins(r) /\ u = [t EXCEPT !.sub = sub] /\ w = [u EXCEPT !.v34 = TRUE]
    OBVIOUS
  <2>2. PICK f : f = V34Turn(e, sub, x)
    OBVIOUS
  <2>3. f = [ss |-> x, pt |-> p, t |-> w]
    <3>1. PICK g : g = [e EXCEPT !.t = u]
      OBVIOUS
    <3>2. g = [ss |-> r, pt |-> p, t |-> u] /\ g.t = u
      BY <1>2, <3>1
    <3>3. PICK h : h = [g EXCEPT !.t = w]
      OBVIOUS
    <3>4. h = [ss |-> r, pt |-> p, t |-> w]
      BY <3>2, <3>3
    <3>5. [h EXCEPT !.ss = x] = [ss |-> x, pt |-> p, t |-> w]
      BY <3>4
    <3>6. g = [e EXCEPT !.t = [e.t EXCEPT !.sub = sub]]
      BY <1>1, <2>1, <3>1
    <3>7. h = [g EXCEPT !.t = [g.t EXCEPT !.v34 = TRUE]]
      BY <2>1, <3>2, <3>3
    <3>8. f = [h EXCEPT !.ss = x]
      BY <2>2, <3>6, <3>7, Zenon DEF V34Turn
    <3>. QED BY <3>5, <3>8
  <2>4. sub \in Substates
    BY DEF Substates
  <2>5. u \in Engines /\ u.sub = sub /\ u.result = t.result
    BY <1>2, <2>1, <2>4 DEF Engines
  <2>6. w \in Engines /\ w.sub = sub /\ w.result = t.result /\ w.v34 = TRUE
    BY <2>1, <2>5 DEF Engines
  <2>7. /\ x \in Sessions /\ x.st = "START" /\ x.done = r.done /\ x.rx_mode = "STARTUP"
        /\ x.frames = r.frames /\ x.saved = r.saved /\ x.gate = r.gate /\ x.win = r.win
    BY <1>2, <2>1, V34BeginsIs
  <2>8. f.ss = x /\ f.pt = p /\ f.t = w /\ f \in EndRecords
    BY <1>2, <2>3, <2>6, <2>7 DEF EndRecords
  <2>9. s = "C" => ~r.done
    BY <1>2, <1>3, Fields DEF Beginning
  <2>10. EndOk(s, f)
    BY <1>5, <2>6, <2>7, <2>8, <2>9 DEF EndOk, Acked
  <2>11. x.st \in Beginning
    BY <2>7 DEF Beginning
  <2>12. V8Turned(s, e, f)
    BY <1>1, <2>6, <2>7, <2>8, <2>10, <2>11 DEF V8Turned
  <2>. QED BY <2>1, <2>2, <2>12
<1>6. /\ "C_WAIT_DIS" \in SubsOf("C") /\ "C_WAIT_V34" \in SubsOf("C")
      /\ "A_CLASSIC_DIS" \in SubsOf("A") /\ "A_SEND_CED" \in SubsOf("A")
      /\ "A_WAIT_V34" \in SubsOf("A")
  BY DEF SubsOf, CallerSubs, AnswererSubs
<1>7. CASE status = "V8_CALL" /\ "V34HDX" \in mods
  <2>1. PICK sub : sub = IF s = "C" THEN "C_WAIT_V34" ELSE "A_WAIT_V34"
    OBVIOUS
  <2>2. on_v8(e, s, status, mods) = V34Turn(e, sub, V34Begins(r))
    <3>1. on_v8(e, s, status, mods) =
            [e EXCEPT !.t.sub = (IF s = "C" THEN "C_WAIT_V34" ELSE "A_WAIT_V34"), !.t.v34 = TRUE,
                      !.ss = [@ EXCEPT !.st = "START", !.tx_mode = "STARTUP", !.rx_mode = "STARTUP"]]
      BY <1>7, Zenon DEF on_v8
    <3>. QED BY <1>1, <2>1, <3>1 DEF V34Turn, V34Begins
  <2>3. sub \in {"C_WAIT_V34", "A_WAIT_V34"} /\ sub \in SubsOf(s)
    BY <1>6, <2>1, ModeFacts
  <2>. QED BY <1>5, <2>2, <2>3
<1>8. CASE ~(status = "V8_CALL" /\ "V34HDX" \in mods) /\ s = "C"
  <2>1. on_v8(e, s, status, mods) = to(e, "C_WAIT_DIS")
    BY <1>8, Zenon DEF on_v8
  <2>. QED BY <1>4, <1>6, <1>8, <2>1
<1>9. CASE ~(status = "V8_CALL" /\ "V34HDX" \in mods) /\ s = "A"
  <2>1. PICK sub : sub = IF status = "V8_CALL" THEN "A_CLASSIC_DIS" ELSE "A_SEND_CED"
    OBVIOUS
  <2>2. on_v8(e, s, status, mods) = to(e, sub)
    BY <1>9, <2>1 DEF on_v8
  <2>. QED BY <1>4, <1>6, <1>9, <2>1, <2>2
<1>. QED BY <1>7, <1>8, <1>9, ModeFacts

(* V.8 goes on at q. *)
LEMMA V8GoesOn ==
  ASSUME CallInv, NEW q \in Sides, V8Advances(q), V8Types', AgreeInv', UNCHANGED arriving,
         v8_status'[q] = "",
         UNCHANGED <<ss, t30, p2_state, p2_info_seen, p2_roll, point>>
  PROVE  CallInv'
<1>1. LineInv' /\ EndsInv' /\ P2Inv' /\ McfInv'
  <2>1. LineInv' /\ P2Inv' /\ McfInv'
    BY DEF CallInv, TypeInv, LineInv, P2Inv, McfInv
  <2>2. EndsInv'
    BY DEF CallInv, TypeInv, EndsInv, End
  <2>. QED BY <2>1, <2>2
<1>2. \A s \in Sides : s = q \/ s = Peer(q)
  BY PeerFacts
<1>3. \A s \in Sides : V8Runs(s)' => V8Runs(s) /\ v8_status'[s] = ""
  <2>1. V8Runs(q) /\ (V8Runs(Peer(q))' => V8Runs(Peer(q)))
    BY DEF V8Advances, V8Runs
  <2>2. V8Runs(Peer(q)) => v8_status'[Peer(q)] = ""
    BY PeerFacts DEF V8Advances, CallInv, TypeInv, V8Inv
  <2>. QED BY <1>2, <2>1, <2>2
<1>4. V8Inv'
  <2>1. \A s \in Sides : V8Runs(s) =>
          /\ ss[s].st = "IDLE" /\ p2_state[s] = "OFF"
          /\ t30[s].sub \in {"C_WAIT_V8", "A_SEND_V8", "DONE"}
    BY DEF CallInv, TypeInv, V8Inv
  <2>. QED BY <1>3, <2>1 DEF V8Inv, V8Types
<1>5. PointInv'
  <2>1. V8Runs("A")' => V8Runs("A")
    BY <1>3, ModeFacts
  <2>. QED BY <2>1 DEF CallInv, PointInv, Settled2, Past2
<1>. QED BY <1>1, <1>4, <1>5 DEF CallInv, TypeInv

(* V.8 reports at q, and T.30 goes on. *)
LEMMA V8Reports ==
  ASSUME CallInv, NEW q \in Sides, V8Advances(q), V8Types', AgreeInv', UNCHANGED arriving,
         v8'[q] = "DONE", t30[q].sub # "DONE",
         NEW f, V8Turned(q, End(q), f),
         ss' = [ss EXCEPT ![q] = f.ss], t30' = [t30 EXCEPT ![q] = f.t],
         IF f.t.v34 THEN p2_init(q) ELSE UNCHANGED <<p2_state, p2_info_seen>>,
         UNCHANGED <<p2_roll, point>>
  PROVE  CallInv'
<1>1. LineInv'
  BY DEF CallInv, TypeInv, LineInv
<1>2. \A s \in Sides : s = q \/ s = Peer(q)
  BY PeerFacts
<1>3. DOMAIN ss = Sides /\ DOMAIN t30 = Sides /\ DOMAIN point = Sides
  BY DEF CallInv, TypeInv, EndsInv
<1>4. DOMAIN ss' = Sides /\ ss'[q] = f.ss /\ ss'[Peer(q)] = ss[Peer(q)]
  BY <1>3, PeerFacts
<1>5. DOMAIN t30' = Sides /\ t30'[q] = f.t /\ t30'[Peer(q)] = t30[Peer(q)]
  BY <1>3, PeerFacts
<1>6. /\ V8Runs(q) /\ ss[q].st = "IDLE" /\ p2_state[q] = "OFF"
      /\ t30[q].sub \in {"C_WAIT_V8", "A_SEND_V8"}
  BY DEF V8Advances, CallInv, TypeInv, V8Inv
<1>7. EndsInv'
  <2>1. f = [ss |-> f.ss, pt |-> f.pt, t |-> f.t] /\ EndOk(q, f) /\ f.pt = point[q]
    BY EndFacts, EndIs DEF V8Turned
  <2>2. End(q)' = f
    BY <1>4, <1>5, <2>1 DEF End
  <2>3. End(Peer(q))' = End(Peer(q))
    BY <1>4, <1>5 DEF End
  <2>4. EndOk(Peer(q), End(Peer(q)))
    BY PeerFacts, EndFacts
  <2>5. \A s \in Sides : EndOk(s, End(s)')
    BY <1>2, <2>1, <2>2, <2>3, <2>4
  <2>. QED BY <1>3, <1>4, <1>5, <2>5 DEF EndsInv, EndOk, End
<1>8. /\ p2_state' \in [Sides -> CallerP2 \cup AnswererP2] /\ p2_info_seen' \in [Sides -> BOOLEAN]
      /\ p2_state'["C"] \in CallerP2 /\ p2_state'["A"] \in AnswererP2
      /\ p2_state'[Peer(q)] = p2_state[Peer(q)]
      /\ f.t.v34 => p2_state'[q] # "OFF"
      /\ q = "A" => p2_state'["A"] \in {"OFF", "A_SILENCE"}
  <2>1. P2Inv
    BY DEF CallInv, TypeInv
  <2>2. CASE ~f.t.v34
    BY <1>6, <2>1, <2>2 DEF P2Inv
  <2>3. CASE f.t.v34
    <3>1. PICK c : c = IF q = "C" THEN "C_SILENCE" ELSE "A_SILENCE"
      OBVIOUS
    <3>2. p2_state' = [p2_state EXCEPT ![q] = c] /\ p2_info_seen' = [p2_info_seen EXCEPT ![q] = FALSE]
      BY <2>3, <3>1 DEF p2_init
    <3>3. "C_SILENCE" \in CallerP2 /\ "A_SILENCE" \in AnswererP2
      BY DEF CallerP2, AnswererP2
    <3>4. p2_info_seen' \in [Sides -> BOOLEAN]
      BY <2>1, <3>2 DEF P2Inv
    <3>5. /\ p2_state' \in [Sides -> CallerP2 \cup AnswererP2] /\ p2_state'[q] = c
          /\ p2_state'[Peer(q)] = p2_state[Peer(q)]
      BY <2>1, <3>1, <3>2, <3>3, PeerFacts, ModeFacts DEF P2Inv
    <3>6. p2_state'["C"] \in CallerP2 /\ p2_state'["A"] \in AnswererP2
      BY <2>1, <3>1, <3>3, <3>5, ModeFacts DEF P2Inv, Peer
    <3>. QED BY <3>1, <3>4, <3>5, <3>6
  <2>. QED BY <2>2, <2>3
<1>9. P2Inv'
  <2>1. ss'["C"].st = "START" => p2_state'["C"] # "OFF"
    <3>1. CASE q = "C"
      BY <1>4, <1>8, <3>1 DEF V8Turned
    <3>2. CASE Peer(q) = "C"
      BY <1>4, <1>8, <3>2 DEF CallInv, TypeInv, P2Inv
    <3>. QED BY <1>2, <3>1, <3>2, ModeFacts
  <2>. QED BY <1>8, <2>1 DEF P2Inv
<1>10. \A s \in Sides : V8Runs(s)' => s = Peer(q) /\ V8Runs(s)
  BY <1>2 DEF V8Advances, V8Runs
<1>11. V8Inv'
  <2>1. ASSUME NEW s \in Sides, V8Runs(s)'
        PROVE  /\ v8_status'[s] = "" /\ ss'[s].st = "IDLE" /\ p2_state'[s] = "OFF"
               /\ t30'[s].sub \in {"C_WAIT_V8", "A_SEND_V8", "DONE"}
    <3>1. s = Peer(q) /\ V8Runs(s)
      BY <1>10, <2>1
    <3>2. /\ v8_status[s] = "" /\ ss[s].st = "IDLE" /\ p2_state[s] = "OFF"
          /\ t30[s].sub \in {"C_WAIT_V8", "A_SEND_V8", "DONE"}
      BY <3>1 DEF CallInv, TypeInv, V8Inv
    <3>. QED BY <1>4, <1>5, <1>8, <3>1, <3>2 DEF V8Advances
  <2>. QED BY <2>1 DEF V8Inv, V8Types
<1>12. McfInv'
  <2>1. McfInv
    BY DEF CallInv
  <2>2. CASE q = "C"
    <3>1. Peer(q) = "A"
      BY <2>2 DEF Peer
    <3>2. Confirmed(f.t) => Confirmed(t30["C"])
      BY <2>2, EndFacts, ModeFacts DEF V8Turned, Confirmed
    <3>3. ss'["C"].win = ss["C"].win
      BY <1>4, <2>2, EndFacts, ModeFacts DEF V8Turned
    <3>. QED BY <1>4, <1>5, <2>1, <2>2, <3>1, <3>2, <3>3 DEF McfInv
  <2>3. CASE q = "A"
    <3>1. Peer(q) = "C"
      BY <2>3 DEF Peer
    <3>2. ~Delivered(t30["A"])
      BY <1>6, <2>3 DEF Delivered
    <3>3. ss'["A"].frames = ss["A"].frames /\ ss'["A"].saved = ss["A"].saved
      BY <1>4, <2>3, EndFacts, ModeFacts DEF V8Turned
    <3>. QED BY <1>4, <1>5, <2>1, <2>3, <3>1, <3>2, <3>3 DEF McfInv
  <2>. QED BY <2>2, <2>3, ModeFacts
<1>13. PointInv'
  <2>1. PointInv
    BY DEF CallInv
  <2>2. CASE q = "C"
    <3>1. ~Past2 /\ Peer(q) = "A"
      BY <1>6, <2>2 DEF Past2, Settled2, Peer
    <3>2. ~Settled2' /\ ~Past2'
      BY <1>4, <1>5, <2>2 DEF V8Turned, Past2, Settled2, Beginning
    <3>3. V8Runs("A")' => V8Runs("A")
      BY <1>10, ModeFacts
    <3>. QED BY <1>4, <1>8, <2>1, <3>1, <3>2, <3>3 DEF PointInv
  <2>3. CASE q = "A"
    <3>1. Peer(q) = "C"
      BY <2>3 DEF Peer
    <3>2. Settled2' = Settled2 /\ Past2' = Past2
      BY <1>4, <1>5, <1>8, <3>1 DEF Past2, Settled2
    <3>3. V8Runs("A")
      BY <1>6, <2>3
    <3>4. ss'["A"].gate = ss["A"].gate
      BY <1>4, <2>3, EndFacts, ModeFacts DEF V8Turned
    <3>. QED BY <1>8, <2>1, <2>3, <3>2, <3>3, <3>4 DEF PointInv
  <2>. QED BY <2>2, <2>3, ModeFacts
<1>. QED BY <1>1, <1>7, <1>9, <1>11, <1>12, <1>13 DEF CallInv, TypeInv

LEMMA V8StepKeeps ==
  ASSUME CallInv, V8Step
  PROVE  CallInv'
<1>1. nf_v8_rx /\ (\A s \in Sides : v8'[s] # v8[s] => t30[s].sub # "DONE")
      /\ UNCHANGED <<p2_roll, point>>
  BY DEF V8Step
<1>2. UNCHANGED arriving /\ \E q \in Sides : V8Advances(q) /\ V8Types' /\ AgreeInv'
  <2>1. V8Inv
    BY DEF CallInv, TypeInv
  <2>. QED BY <1>1, <2>1, V8Cases, CallerV8Keeps, AnswererV8Keeps, ModeFacts
<1>3. PICK q \in Sides : V8Advances(q) /\ V8Types' /\ AgreeInv'
  BY <1>2
<1>4. \A s \in Sides : Reports(s) <=> s = q /\ v8_status'[q] # ""
  <2>1. ~Reports(Peer(q))
    BY <1>3 DEF V8Advances, Reports
  <2>2. Reports(q) <=> v8_status'[q] # ""
    BY <1>3 DEF V8Advances, Reports
  <2>. QED BY <2>1, <2>2, PeerFacts
<1>5. PICK s \in Sides :
        IF Reports(s)
          THEN LET e == on_v8(End(s), s, v8_status'[s], modulations[s]) IN
               /\ ss' = [ss EXCEPT ![s] = e.ss] /\ t30' = [t30 EXCEPT ![s] = e.t]
               /\ IF e.t.v34 THEN p2_init(s) ELSE UNCHANGED <<p2_state, p2_info_seen>>
          ELSE ~Reports(Peer(s)) /\ UNCHANGED <<ss, t30, p2_state, p2_info_seen>>
  BY DEF V8Step
<1>6. CASE Reports(s)
  <2>1. s = q /\ v8_status'[q] # ""
    BY <1>4, <1>6
  <2>2. PICK f : f = on_v8(End(q), q, v8_status'[q], modulations[q])
    OBVIOUS
  <2>3. /\ ss' = [ss EXCEPT ![q] = f.ss] /\ t30' = [t30 EXCEPT ![q] = f.t]
        /\ IF f.t.v34 THEN p2_init(q) ELSE UNCHANGED <<p2_state, p2_info_seen>>
    BY <1>5, <1>6, <2>1, <2>2
  <2>4. V8Turned(q, End(q), f)
    <3>1. ss[q].st = "IDLE"
      BY <1>3 DEF V8Advances, CallInv, TypeInv, V8Inv
    <3>. QED BY <2>2, <3>1, EndFacts, OnV8Turns
  <2>5. v8'[q] = "DONE" /\ t30[q].sub # "DONE"
    BY <1>1, <1>3, <2>1 DEF V8Advances
  <2>. QED BY <1>1, <1>2, <1>3, <2>3, <2>4, <2>5, V8Reports
<1>7. CASE ~Reports(s)
  <2>1. ~Reports(Peer(s)) /\ UNCHANGED <<ss, t30, p2_state, p2_info_seen>>
    BY <1>5, <1>7
  <2>2. v8_status'[q] = ""
    BY <1>4, <1>7, <2>1, PeerFacts
  <2>. QED BY <1>1, <1>2, <1>3, <2>1, <2>2, V8GoesOn
<1>. QED BY <1>6, <1>7

-----------------------------------------------------------------------------
(* The call begins. *)

LEMMA StartIs ==
  ASSUME NEW s \in Sides, NEW on \in BOOLEAN
  PROVE  /\ start(s, on) \in Engines /\ start(s, on).sub \in SubsOf(s)
         /\ start(s, on).sub \in {"C_WAIT_V8", "A_SEND_V8", "C_WAIT_DIS", "A_SEND_CED"}
         /\ on => start(s, on).sub \in {"C_WAIT_V8", "A_SEND_V8"}
         /\ start(s, on).result = ""
<1>1. ASSUME NEW sub \in {"C_WAIT_V8", "A_SEND_V8", "C_WAIT_DIS", "A_SEND_CED"}
      PROVE  NewEngine(sub) \in Engines /\ NewEngine(sub).sub = sub /\ NewEngine(sub).result = ""
  <2>1. sub \in Substates
    BY DEF Substates, Waiting
  <2>2. 0 \in Nat
    BY SMT
  <2>. QED BY <2>1, <2>2 DEF NewEngine, Engines
<1>2. PICK sub : sub = IF s = "C" THEN IF on THEN "C_WAIT_V8" ELSE "C_WAIT_DIS"
                                  ELSE IF on THEN "A_SEND_V8" ELSE "A_SEND_CED"
  OBVIOUS
<1>3. start(s, on) = NewEngine(sub)
  BY <1>2 DEF start
<1>4. sub \in {"C_WAIT_V8", "A_SEND_V8", "C_WAIT_DIS", "A_SEND_CED"} /\ sub \in SubsOf(s)
      /\ (on => sub \in {"C_WAIT_V8", "A_SEND_V8"})
  BY <1>2, ModeFacts DEF SubsOf, CallerSubs, AnswererSubs
<1>. QED BY <1>1, <1>3, <1>4

LEMMA InitCallInv ==
  ASSUME Init
  PROVE  CallInv
<1>1. /\ arriving = [s \in Sides |-> Silence] /\ p2_roll = [s \in Sides |-> Silence]
      /\ p2_state = [s \in Sides |-> "OFF"] /\ p2_info_seen = [s \in Sides |-> FALSE]
      /\ ss = [s \in Sides |-> NewSession]
      /\ t30 = [s \in Sides |-> start(s, our_modulations[s] # {})]
      /\ modulations = [s \in Sides |-> {}] /\ v8_status = [s \in Sides |-> ""]
      /\ v8 = [s \in Sides |-> nf_v8_init(s, our_modulations[s]).state]
      /\ our_modulations \in [Sides -> CallerMods \cup AnswererMods \cup {{}}]
  BY DEF Init, LineInit, V8Init, P2Init
<1>2. PICK p : p = [srate |-> Srate0, local_max |-> top_rate(Srate0)]
  OBVIOUS
<1>3. point = [s \in Sides |-> p]
  BY <1>2 DEF Init, P2Init
<1>4. \A s \in Sides : /\ arriving[s].sig = "SILENCE" /\ p2_roll[s].sig = "SILENCE"
                       /\ p2_state[s] = "OFF" /\ ss[s] = NewSession /\ point[s] = p
                       /\ v8_status[s] = "" /\ t30[s] = start(s, our_modulations[s] # {})
  BY <1>1, <1>3, SignalIs
<1>5. \A s \in Sides : v8[s] = IF our_modulations[s] = {} THEN "OFF"
                               ELSE IF s = "C" THEN "CI" ELSE "ANSAM"
  BY <1>1 DEF nf_v8_init
<1>6. LineInv
  <2>1. \A s \in Sides : Kept(p2_roll[s].sig)
    BY <1>4 DEF Kept
  <2>2. p2_roll["C"].sig # "INFOH"
    BY <1>4, ModeFacts
  <2>. QED BY <1>1, <2>1, <2>2 DEF LineInv
<1>7. EndsInv
  <2>1. p \in SafePoints
    <3>1. Srate0 \in Srates
      BY RateAssumption
    <3>2. top_rate(Srate0) \in 1..14 /\ top_rate(Srate0) <= top_rate(Srate0)
      <4>1. PICK n : n = top_rate(Srate0)
        OBVIOUS
      <4>2. n \in 1..14
        BY <3>1, <4>1, TopRange
      <4>3. n <= n
        BY <4>2, SMT
      <4>. QED BY <4>1, <4>2, <4>3
    <3>. QED BY <1>2, <3>1, <3>2, PointFacts
  <2>2. ASSUME NEW s \in Sides PROVE EndOk(s, End(s))
    <3>1. PICK x, t : x = NewSession /\ t = start(s, our_modulations[s] # {})
      OBVIOUS
    <3>2. End(s) = [ss |-> x, pt |-> p, t |-> t]
      BY <1>4, <3>1 DEF End
    <3>3. x \in Sessions /\ x.rx_mode = "NONE" /\ x.done = FALSE
      BY <3>1, NewIs
    <3>4. t \in Engines /\ t.sub \in SubsOf(s)
          /\ t.sub \in {"C_WAIT_V8", "A_SEND_V8", "C_WAIT_DIS", "A_SEND_CED"}
      BY <3>1, StartIs
    <3>5. PICK e : e = [ss |-> x, pt |-> p, t |-> t]
      OBVIOUS
    <3>6. e \in EndRecords /\ e.ss = x /\ e.t = t
      BY <2>1, <3>3, <3>4, <3>5 DEF EndRecords
    <3>7. EndOk(s, e)
      BY <3>3, <3>4, <3>6 DEF EndOk, Acked
    <3>. QED BY <3>2, <3>5, <3>7
  <2>3. DOMAIN ss = Sides /\ DOMAIN t30 = Sides /\ DOMAIN point = Sides
    BY <1>1, <1>3
  <2>. QED BY <2>2, <2>3 DEF EndsInv
<1>8. P2Inv
  <2>1. "OFF" \in CallerP2 /\ "OFF" \in AnswererP2
    BY DEF CallerP2, AnswererP2
  <2>2. ss["C"].st # "START"
    BY <1>4, NewIs, ModeFacts
  <2>. QED BY <1>1, <1>4, <2>1, <2>2, ModeFacts DEF P2Inv
<1>9. V8Inv
  <2>1. V8TypeOK
    <3>1. \A m \in CallerMods \cup AnswererMods \cup {{}} : m \in SUBSET Modulations
      BY DEF Modulations
    <3>2. our_modulations \in [Sides -> SUBSET Modulations]
      BY <1>1, <3>1
    <3>3. v8 \in [Sides -> {"OFF", "CI", "TE", "CM", "CJ", "ANSAM", "JM", "DONE"}]
      BY <1>1, <1>5
    <3>4. modulations \in [Sides -> SUBSET Modulations]
          /\ v8_status \in [Sides -> {"", "V8_CALL", "NON_V8_CALL", "FAILED"}]
      BY <1>1
    <3>. QED BY <3>2, <3>3, <3>4 DEF V8TypeOK
  <2>2. v8["C"] \in CallerV8 /\ v8["A"] \in AnswererV8
    BY <1>5, ModeFacts DEF CallerV8, AnswererV8
  <2>3. ASSUME NEW s \in Sides, V8Runs(s)
        PROVE  /\ v8_status[s] = "" /\ ss[s].st = "IDLE" /\ p2_state[s] = "OFF"
               /\ t30[s].sub \in {"C_WAIT_V8", "A_SEND_V8", "DONE"}
    <3>1. our_modulations[s] # {}
      BY <1>5, <2>3 DEF V8Runs
    <3>2. PICK on \in BOOLEAN : on = (our_modulations[s] # {})
      OBVIOUS
    <3>3. start(s, on).sub \in {"C_WAIT_V8", "A_SEND_V8"}
      BY <3>1, <3>2, StartIs
    <3>4. t30[s] = start(s, on)
      BY <1>4, <3>2
    <3>. QED BY <1>4, <3>3, <3>4, NewIs
  <2>. QED BY <2>1, <2>2, <2>3 DEF V8Inv
<1>10. AgreeInv
  <2>1. arriving["C"].sig = "SILENCE" /\ arriving["A"].sig = "SILENCE"
        /\ v8_status["C"] = "" /\ v8_status["A"] = ""
    BY <1>4, ModeFacts
  <2>2. v8["C"] # "CJ" /\ v8["A"] # "JM"
    BY <1>5, ModeFacts
  <2>. QED BY <2>1, <2>2 DEF AgreeInv, CallerAgrees
<1>11. McfInv
  <2>1. ~Says(ss["A"]) /\ Range(ss["C"].win) = {}
    BY <1>4, NewIs, ModeFacts
  <2>2. ~Confirmed(t30["C"])
    <3>1. PICK on \in BOOLEAN : on = (our_modulations["C"] # {})
      OBVIOUS
    <3>2. t30["C"] = start("C", on)
      BY <1>4, <3>1, ModeFacts
    <3>. QED BY <3>2, StartIs, ModeFacts DEF Confirmed
  <2>. QED BY <2>1, <2>2 DEF McfInv, Says, SaysMcf
<1>12. PointInv
  <2>1. ~Settled2 /\ ss["A"].gate = "" /\ p2_roll["C"].sig # "INFOH"
    BY <1>4, NewIs, ModeFacts DEF Settled2
  <2>. QED BY <2>1 DEF PointInv
<1>. QED BY <1>6, <1>7, <1>8, <1>9, <1>10, <1>11, <1>12 DEF CallInv, TypeInv

-----------------------------------------------------------------------------
(* The theorems. *)

LEMMA NextKeeps ==
  ASSUME CallInv, [Next]_vars
  PROVE  CallInv'
<1>1. CASE V8Step
  BY <1>1, V8StepKeeps
<1>2. CASE ClassicStep
  BY <1>2, ClassicStepKeeps
<1>3. CASE Phase2Step
  BY <1>3, Phase2StepKeeps
<1>4. ASSUME NEW s \in Sides, LineCarries(s) \/ Pump(s) PROVE CallInv'
  BY <1>4, LineCarriesKeeps, RaiseStreamKeeps, RestartKeeps, InterlockKeeps, TurnAroundKeeps,
     AppendFramesKeeps DEF Pump
<1>5. ASSUME NEW s \in Sides, Slow(s) \/ CcScan(s) \/ HoldoffEnds(s) PROVE CallInv'
  <2>1. CASE Sends(s)
    BY <2>1, TickKeeps, TrnPlayedKeeps, CarrierFallsKeeps, SectionOutKeeps, RaisePriKeeps,
       PriPlayedKeeps DEF Sends
  <2>2. CASE Ends(s)
    BY <2>2, CcKeeps, TrnDoneKeeps, PriDoneKeeps, IgnoredKeeps DEF Ends
  <2>3. CASE Timer(s) \/ HangUp(s) \/ CcScan(s) \/ HoldoffEnds(s)
    BY <2>3, DeadlineKeeps, T30TimerKeeps, HangUpKeeps, CcKeeps, HoldoffEndsKeeps DEF Timer
  <2>. QED BY <1>5, <2>1, <2>2, <2>3 DEF Slow
<1>6. CASE UNCHANGED vars
  <2>1. UNCHANGED <<arriving, our_modulations, v8, modulations, v8_status, p2_state,
                    p2_info_seen, p2_roll, point, ss, t30>>
    BY <1>6 DEF vars, v8Vars, p2Vars, sessVars
  <2>2. LineInv' /\ P2Inv' /\ McfInv'
    BY <2>1 DEF CallInv, TypeInv, LineInv, P2Inv, McfInv
  <2>3. EndsInv'
    BY <2>1 DEF CallInv, TypeInv, EndsInv, End
  <2>4. V8Inv'
    BY <2>1 DEF CallInv, TypeInv, V8Inv, V8TypeOK, V8Runs
  <2>5. AgreeInv'
    BY <2>1 DEF CallInv, AgreeInv, CallerAgrees, AnswererAgrees, CommonMods
  <2>6. PointInv'
    BY <2>1 DEF CallInv, PointInv, Past2, Settled2, V8Runs
  <2>. QED BY <2>2, <2>3, <2>4, <2>5, <2>6 DEF CallInv, TypeInv
<1>. QED BY <1>1, <1>2, <1>3, <1>4, <1>5, <1>6 DEF Next

(* What every reachable state of a call satisfies: what is on the line and   *)
(* in the captures fits what each end has done (nf_v8.c, nf_v34.c, nf_t30.c).*)
THEOREM CallSafe == Spec => []CallInv
<1>1. Init => CallInv
  BY InitCallInv
<1>2. CallInv /\ [Next]_vars => CallInv'
  BY NextKeeps
<1>. QED BY <1>1, <1>2, PTL DEF Spec

-----------------------------------------------------------------------------
(* Whatever a step does to the operating points, it does to one end.         *)
OnePoint ==
  \/ UNCHANGED point
  \/ \E s \in Sides : \E v : point' = [point EXCEPT ![s] = v]

LEMMA BothPoint ==
  ASSUME NEW s \in Sides, NEW e, NEW r, Both(s, e, r)
  PROVE  OnePoint
  BY DEF Both, OnePoint

LEMMA BecomesPoint ==
  ASSUME NEW s \in Sides
  PROVE  \A e : Becomes(s, e) => OnePoint
  BY BothPoint DEF Becomes

LEMMA P2Point ==
  ASSUME C_Phase2 \/ A_Phase2
  PROVE  OnePoint
<1>1. ASSUME AdoptInfoh PROVE OnePoint
  BY <1>1 DEF AdoptInfoh, OnePoint, Sides
<1>2. ASSUME analyze_probe PROVE OnePoint
  BY <1>2 DEF analyze_probe, OnePoint, Sides
<1>. QED BY <1>1, <1>2 DEF C_Phase2, A_Phase2, start_info0, Go, DecodeInfo0, HearToneAReversal,
     ProbeDone, InfohPlayed, OnePoint

LEMMA SessionPoint ==
  ASSUME NEW s \in Sides, Pump(s) \/ Slow(s) \/ CcScan(s) \/ HoldoffEnds(s)
  PROVE  OnePoint
<1>1. CASE RaiseStream(s)
  BY <1>1, BothPoint DEF RaiseStream
<1>2. CASE Restart(s)
  BY <1>2, BothPoint DEF Restart
<1>3. CASE Interlock(s)
  BY <1>3, BothPoint DEF Interlock
<1>4. CASE TurnAround(s) \/ AppendFrames(s)
  BY <1>4, BecomesPoint DEF TurnAround, AppendFrames
<1>5. CASE Tick(s)
  BY <1>5, BothPoint DEF Tick
<1>6. CASE TrnPlayed(s) \/ CarrierFalls(s) \/ PriPlayed(s)
  BY <1>6, BecomesPoint DEF TrnPlayed, CarrierFalls, PriPlayed
<1>7. CASE SectionOut(s)
  BY <1>7, BothPoint DEF SectionOut
<1>8. CASE RaisePri(s)
  BY <1>8, BothPoint DEF RaisePri
<1>9. CASE CcDone(s) \/ CcScan(s)
  BY <1>9, BecomesPoint DEF CcDone, CcScan, Pass
<1>10. CASE TrnDone(s)
  BY <1>10, BecomesPoint DEF TrnDone
<1>11. CASE PriDone(s)
  BY <1>11, BecomesPoint DEF PriDone
<1>12. CASE Ignored(s) \/ HoldoffEnds(s)
  BY <1>12, BecomesPoint DEF Ignored, HoldoffEnds
<1>13. CASE Timer(s) \/ HangUp(s)
  BY <1>13, BecomesPoint DEF Timer, Deadline, T30Timer, HangUp
<1>. QED BY <1>1, <1>2, <1>3, <1>4, <1>5, <1>6, <1>7, <1>8, <1>9, <1>10, <1>11, <1>12, <1>13
     DEF Pump, Slow, Sends, Ends

LEMMA NextPoint ==
  ASSUME [Next]_vars
  PROVE  OnePoint
<1>1. CASE V8Step \/ ClassicStep \/ UNCHANGED vars
  BY <1>1 DEF V8Step, ClassicStep, vars, p2Vars, OnePoint
<1>2. CASE Phase2Step
  BY <1>2, P2Point DEF Phase2Step, Sides
<1>3. ASSUME NEW s \in Sides, LineCarries(s) PROVE OnePoint
  BY <1>3 DEF LineCarries, OnePoint
<1>4. ASSUME NEW s \in Sides, Pump(s) \/ Slow(s) \/ CcScan(s) \/ HoldoffEnds(s) PROVE OnePoint
  BY <1>4, SessionPoint
<1>. QED BY <1>1, <1>2, <1>3, <1>4 DEF Next

(* The operating points are a function, and stay within the tables.          *)
PointsInv == point \in [Sides -> SafePoints]

LEMMA PointsHold == Spec => []PointsInv
<1>1. Init => PointsInv
  <2>. SUFFICES ASSUME Init PROVE PointsInv
    OBVIOUS
  <2>1. DOMAIN point = Sides /\ \A s \in Sides : point[s] \in SafePoints
    BY InitCallInv, EndFacts DEF CallInv, TypeInv, EndsInv
  <2>. QED BY <2>1 DEF Init, P2Init, PointsInv
<1>2. CallInv /\ PointsInv /\ [Next]_vars => PointsInv'
  <2>. SUFFICES ASSUME CallInv, PointsInv, [Next]_vars PROVE PointsInv'
    OBVIOUS
  <2>1. CallInv' /\ OnePoint
    BY NextKeeps, NextPoint
  <2>2. \A s \in Sides : point'[s] \in SafePoints
    BY <2>1 DEF CallInv, TypeInv, EndsInv, EndOk, End, EndRecords
  <2>. QED BY <2>1, <2>2 DEF OnePoint, PointsInv
<1>. QED BY <1>1, <1>2, CallSafe, PTL DEF Spec

-----------------------------------------------------------------------------
(* At both ends, the session, the operating point and the T.30 engine stay   *)
(* within what nf_v34.c, nf_v8.c and nf_t30.c declare; no end ever holds a   *)
(* cap above what its symbol rate carries.                                   *)
THEOREM TypesHold == Spec => []TypeOK
<1>1. CallInv /\ PointsInv => TypeOK
  <2>. SUFFICES ASSUME CallInv, PointsInv PROVE TypeOK
    OBVIOUS
  <2>1. V8TypeOK
    BY DEF CallInv, TypeInv, V8Inv
  <2>2. P2TypeOK
    <3>1. p2_info_seen \in [Sides -> BOOLEAN]
      BY DEF CallInv, TypeInv, P2Inv
    <3>2. \A s \in Sides : p2_roll[s].sig \in {"SILENCE", "INFO0", "INFOH"}
      BY DEF CallInv, TypeInv, LineInv, Kept
    <3>3. \A s \in Sides : point[s] \in Points /\ point[s].local_max <= top_rate(point[s].srate)
      BY EndFacts DEF SafePoints
    <3>4. p2_state \in [Sides -> CallerP2 \cup AnswererP2]
      BY DEF CallInv, TypeInv, P2Inv
    <3>5. point \in [Sides -> Points]
      BY DEF PointsInv, SafePoints
    <3>. QED BY <3>1, <3>2, <3>3, <3>4, <3>5 DEF P2TypeOK, CallerP2, AnswererP2
  <2>3. ASSUME NEW s \in Sides
        PROVE  /\ ss[s].st \in SessionStates /\ ss[s].ccs_state \in CcStates
               /\ {ss[s].tx_mode, ss[s].rx_mode} \subseteq Modes
               /\ {ss[s].remote_max, ss[s].rate_cur, ss[s].last_adv} \subseteq 0..14
               /\ t30[s].sub \in Substates
    <3>1. ss[s] \in Sessions /\ t30[s].sub \in Substates
      BY EndFacts DEF Engines
    <3>. QED BY <3>1, Fields DEF Rates
  <2>. QED BY <2>1, <2>2, <2>3 DEF TypeOK
<1>. QED BY <1>1, CallSafe, PointsHold, PTL

(* An answerer whose V.8 reports a V.8 call faces a caller that reports one  *)
(* or is playing the CJ that makes it: both hold the modulations both offer, *)
(* since JM carries what the answerer computed from CM (nf_v8.c).            *)
THEOREM ModulationsAgree == Spec => []V8Agreed
<1>1. CallInv => V8Agreed
  BY DEF CallInv, AgreeInv, CallerAgrees, AnswererAgrees, CommonMods, V8Agreed
<1>. QED BY <1>1, CallSafe, PTL

(* A caller that reports success (MCF heard, so DCN is on its way or sent)   *)
(* faces an answerer that misses no frame of the block: nf_t30.c queues MCF  *)
(* only then, and no frame of an old carrier brings another's MCF.           *)
THEOREM SuccessIsDelivery == Spec => []SuccessMeansDelivered
<1>1. CallInv => SuccessMeansDelivered
  BY DEF CallInv, McfInv, Confirmed, Delivered, SuccessMeansDelivered
<1>. QED BY <1>1, CallSafe, PTL

(* Two ends past their start-ups work at the one symbol rate that INFOh      *)
(* named (v34_p2_finish and the caller's P2C_TONEB2 in nf_v34.c), also after *)
(* a retrain in which the answerer alone went through Phase 2 again.         *)
THEOREM OneSymbolRate == Spec => []SamePoint
<1>1. CallInv => SamePoint
  <2>. SUFFICES ASSUME CallInv, Established PROVE point["C"].srate = point["A"].srate
    BY DEF SamePoint
  <2>1. On("C")
    BY DEF Established, Sides
  <2>2. Settled2
    BY <2>1 DEF On, Settled2
  <2>. QED BY <2>2 DEF CallInv, PointInv
<1>. QED BY <1>1, CallSafe, PTL
====
