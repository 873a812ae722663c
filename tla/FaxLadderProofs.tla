-------------------------- MODULE FaxLadderProofs --------------------------
(* Lemmas about the fallback ladder, proved for every set of modems. *)
EXTENDS FaxLadder, TLAPS

(* A non-empty set of ladder rows has a least one. *)
LEMMA LeastRow ==
  ASSUME NEW S \in SUBSET FbIndex, S # {}
  PROVE  \E j \in S : \A k \in S : j <= k
<1>1. ASSUME NEW j \in S PROVE j \in {0, 1, 2, 3, 4, 5, 6, 7}
  BY <1>1, SMT DEF FbIndex
<1>2. CASE 0 \in S    BY <1>1, <1>2, SMT
<1>3. CASE 0 \notin S /\ 1 \in S    BY <1>1, <1>3, SMT
<1>4. CASE 0 \notin S /\ 1 \notin S /\ 2 \in S    BY <1>1, <1>4, SMT
<1>5. CASE 0 \notin S /\ 1 \notin S /\ 2 \notin S /\ 3 \in S    BY <1>1, <1>5, SMT
<1>6. CASE 0 \notin S /\ 1 \notin S /\ 2 \notin S /\ 3 \notin S /\ 4 \in S
  BY <1>1, <1>6, SMT
<1>7. CASE /\ 0 \notin S /\ 1 \notin S /\ 2 \notin S /\ 3 \notin S /\ 4 \notin S
           /\ 5 \in S
  BY <1>1, <1>7, SMT
<1>8. CASE /\ 0 \notin S /\ 1 \notin S /\ 2 \notin S /\ 3 \notin S /\ 4 \notin S
           /\ 5 \notin S /\ 6 \in S
  BY <1>1, <1>8, SMT
<1>9. CASE /\ 0 \notin S /\ 1 \notin S /\ 2 \notin S /\ 3 \notin S /\ 4 \notin S
           /\ 5 \notin S /\ 6 \notin S
  BY <1>1, <1>9, SMT
<1>. QED BY <1>2, <1>3, <1>4, <1>5, <1>6, <1>7, <1>8, <1>9

(* next_allowed_fb returns an allowed row no faster than the one asked for, *)
(* the first such row, or -1 when there is none.                            *)
THEOREM NextAllowedFbCorrect ==
  ASSUME NEW i \in Int, NEW allowed
  PROVE  LET row == NextAllowedFb(i, allowed) IN
         /\ row \in FbIndex \cup {NoFb}
         /\ row # NoFb => /\ row >= i /\ FB[row].modem \in allowed
                          /\ \A k \in AllowedFrom(i, allowed) : row <= k
         /\ row = NoFb => i < 0 \/ AllowedFrom(i, allowed) = {}
<1>1. CASE i < 0 \/ AllowedFrom(i, allowed) = {}
  BY <1>1 DEF NextAllowedFb, NoFb
<1>2. CASE ~(i < 0 \/ AllowedFrom(i, allowed) = {})
  <2>. DEFINE S == AllowedFrom(i, allowed)
              row == CHOOSE j \in S : \A k \in S : j <= k
  <2>1. S \in SUBSET FbIndex /\ S # {}
    BY <1>2 DEF AllowedFrom
  <2>2. \E j \in S : \A k \in S : j <= k
    BY <2>1, LeastRow
  <2>3. row \in S /\ \A k \in S : row <= k
    BY <2>2
  <2>4. row \in FbIndex /\ row >= i /\ FB[row].modem \in allowed
    BY <2>3 DEF AllowedFrom
  <2>5. row # NoFb
    <3>1. \A r \in FbIndex : r # NoFb
      BY SMT DEF FbIndex, NoFb
    <3>. QED BY <2>4, <3>1
  <2>6. NextAllowedFb(i, allowed) = row
    BY <1>2 DEF NextAllowedFb
  <2>. QED BY <2>3, <2>4, <2>5, <2>6
<1>. QED BY <1>1, <1>2

(* The speed bits of a row are among DIS bits 3, 4 and 6. *)
LEMMA SpeedBits == \A i \in FbIndex : FB[i].dcs \in SUBSET {3, 4, 6}
<1>1. /\ FB[0].dcs = {6}    /\ FB[1].dcs = {6, 4} /\ FB[2].dcs = {6, 3}
      /\ FB[3].dcs = {3}    /\ FB[4].dcs = {6, 4, 3} /\ FB[5].dcs = {4, 3}
      /\ FB[6].dcs = {4}    /\ FB[7].dcs = {}
  BY SMT DEF FB
<1>2. ASSUME NEW i \in FbIndex PROVE i \in {0, 1, 2, 3, 4, 5, 6, 7}
  BY <1>2, SMT DEF FbIndex
<1>. QED BY <1>1, <1>2

(* fb_from_dcs_byte inverts the table: a caller that announces its row in    *)
(* DCS or CTC is understood as that very row, and only as that one.          *)
THEOREM FbFromDcsInvertsFB ==
  \A i \in FbIndex : FbFromDcs(FB[i].dcs) = i
<1>1. \A i, j \in FbIndex : FB[i].dcs = FB[j].dcs => i = j
  <2>1. /\ FB[0].dcs = {6}    /\ FB[1].dcs = {6, 4} /\ FB[2].dcs = {6, 3}
        /\ FB[3].dcs = {3}    /\ FB[4].dcs = {6, 4, 3} /\ FB[5].dcs = {4, 3}
        /\ FB[6].dcs = {4}    /\ FB[7].dcs = {}
    BY SMT DEF FB
  <2>2. ASSUME NEW i \in FbIndex PROVE i \in {0, 1, 2, 3, 4, 5, 6, 7}
    BY <2>2, SMT DEF FbIndex
  <2>3. ASSUME NEW i \in FbIndex, NEW j \in FbIndex, i # j PROVE FB[i].dcs # FB[j].dcs
    BY <2>1, <2>2, <2>3, SMT
  <2>. QED BY <2>3
<1>2. ASSUME NEW i \in FbIndex PROVE FbFromDcs(FB[i].dcs) = i
  BY <1>1 DEF FbFromDcs
<1>. QED BY <1>2

(* Whatever octet arrives, the answer is a row of the table or -1. *)
THEOREM FbFromDcsRow ==
  ASSUME NEW bits PROVE FbFromDcs(bits) \in FbIndex \cup {NoFb}
BY DEF FbFromDcs

(* The table is ordered by rate. *)
LEMMA RatesFall ==
  \A i, j \in FbIndex : i <= j => FB[j].rate <= FB[i].rate
<1>1. /\ FB[0].rate = 14400 /\ FB[1].rate = 12000 /\ FB[2].rate = 9600
      /\ FB[3].rate = 9600  /\ FB[4].rate = 7200  /\ FB[5].rate = 7200
      /\ FB[6].rate = 4800  /\ FB[7].rate = 2400
  BY SMT DEF FB
<1>. QED BY <1>1, SMT DEF FbIndex

(* The ladder is exhausted: a caller that steps down from row to row, as it   *)
(* does on FTT, RTN and the fourth PPR, each time takes the next allowed row  *)
(* and never a faster one, takes seven steps at most, and is at the end just  *)
(* when no later row is allowed. Nothing else counts the FTTs.                *)
THEOREM LadderDescends ==
  ASSUME NEW allowed, NEW n \in Nat, NEW rows \in [0..n -> FbIndex],
         \A k \in 0..(n - 1) : rows[k + 1] = NextAllowedFb(rows[k] + 1, allowed)
  PROVE  /\ \A k \in 0..(n - 1) :
              /\ rows[k] < rows[k + 1] /\ FB[rows[k + 1]].modem \in allowed
              /\ \A j \in FbIndex : rows[k] < j /\ j < rows[k + 1] => FB[j].modem \notin allowed
              /\ FB[rows[k + 1]].rate <= FB[rows[k]].rate
         /\ n <= 7
         /\ NextAllowedFb(rows[n] + 1, allowed) = NoFb
              <=> \A j \in FbIndex : rows[n] < j => FB[j].modem \notin allowed
<1>1. ASSUME NEW k \in 0..(n - 1)
      PROVE  /\ rows[k] \in FbIndex /\ rows[k + 1] \in FbIndex
             /\ rows[k] < rows[k + 1] /\ FB[rows[k + 1]].modem \in allowed
             /\ \A j \in FbIndex : rows[k] < j /\ j < rows[k + 1] => FB[j].modem \notin allowed
  <2>1. k \in 0..n /\ k + 1 \in 0..n
    BY <1>1
  <2>2. rows[k] \in FbIndex /\ rows[k + 1] \in FbIndex
    BY <2>1
  <2>. DEFINE i == rows[k] + 1
  <2>3. rows[k + 1] = NextAllowedFb(i, allowed)
    BY <1>1
  <2>4. i \in Int /\ rows[k] \in Int
    BY <2>2 DEF FbIndex
  <2>5. rows[k + 1] # NoFb
    BY <2>2 DEF FbIndex, NoFb
  <2>. HIDE DEF i
  <2>6. /\ rows[k + 1] >= i /\ FB[rows[k + 1]].modem \in allowed
        /\ \A j \in AllowedFrom(i, allowed) : rows[k + 1] <= j
    BY <2>3, <2>4, <2>5, NextAllowedFbCorrect
  <2>7. ASSUME NEW j \in FbIndex, rows[k] < j, j < rows[k + 1]
        PROVE  FB[j].modem \notin allowed
    <3>1. j \in Int /\ rows[k + 1] \in Int
      BY <2>2 DEF FbIndex
    <3>2. j >= i /\ ~(rows[k + 1] <= j)
      BY <2>4, <2>7, <3>1 DEF i
    <3>3. j \notin AllowedFrom(i, allowed)
      BY <2>6, <3>2
    <3>. QED BY <3>2, <3>3 DEF AllowedFrom
  <2>8. rows[k] < rows[k + 1]
    BY <2>2, <2>4, <2>6 DEF i, FbIndex
  <2>. QED BY <2>2, <2>6, <2>7, <2>8
<1>2. ASSUME NEW k \in 0..(n - 1) PROVE FB[rows[k + 1]].rate <= FB[rows[k]].rate
  <2>1. rows[k] \in FbIndex /\ rows[k + 1] \in FbIndex /\ rows[k] <= rows[k + 1]
    BY <1>1, <1>2 DEF FbIndex
  <2>. QED BY <2>1, RatesFall
<1>3. n <= 7
  <2>1. SUFFICES ASSUME n >= 8 PROVE FALSE
    OBVIOUS
  <2>2. ASSUME NEW k \in 0..7
        PROVE  rows[k] \in FbIndex /\ rows[k + 1] \in FbIndex /\ rows[k] < rows[k + 1]
    <3>1. k \in 0..(n - 1)
      BY <2>1, <2>2
    <3>. QED BY <1>1, <3>1
  <2>3. /\ rows[0] < rows[1] /\ rows[1] < rows[2] /\ rows[2] < rows[3] /\ rows[3] < rows[4]
        /\ rows[4] < rows[5] /\ rows[5] < rows[6] /\ rows[6] < rows[7] /\ rows[7] < rows[8]
    <3>1. /\ rows[0] < rows[0 + 1] /\ rows[1] < rows[1 + 1] /\ rows[2] < rows[2 + 1]
          /\ rows[3] < rows[3 + 1] /\ rows[4] < rows[4 + 1] /\ rows[5] < rows[5 + 1]
          /\ rows[6] < rows[6 + 1] /\ rows[7] < rows[7 + 1]
      BY <2>2
    <3>. QED BY <3>1
  <2>4. \A k \in 0..8 : rows[k] \in FbIndex
    BY <2>1
  <2>5. /\ rows[0] \in 0..7 /\ rows[1] \in 0..7 /\ rows[2] \in 0..7 /\ rows[3] \in 0..7
        /\ rows[4] \in 0..7 /\ rows[5] \in 0..7 /\ rows[6] \in 0..7 /\ rows[7] \in 0..7
        /\ rows[8] \in 0..7
    BY <2>4 DEF FbIndex
  <2>. QED BY <2>3, <2>5
<1>4. NextAllowedFb(rows[n] + 1, allowed) = NoFb
        <=> \A j \in FbIndex : rows[n] < j => FB[j].modem \notin allowed
  <2>. DEFINE i == rows[n] + 1
  <2>1. rows[n] \in FbIndex /\ i \in Int /\ i >= 0
    BY DEF FbIndex
  <2>2. \A j \in FbIndex : rows[n] < j <=> j >= i
    BY <2>1 DEF FbIndex
  <2>. HIDE DEF i
  <2>3. AllowedFrom(i, allowed) = {} <=> \A j \in FbIndex : rows[n] < j => FB[j].modem \notin allowed
    BY <2>2 DEF AllowedFrom
  <2>4. NextAllowedFb(i, allowed) = NoFb => AllowedFrom(i, allowed) = {}
    BY <2>1, NextAllowedFbCorrect
  <2>5. AllowedFrom(i, allowed) = {} => NextAllowedFb(i, allowed) = NoFb
    BY DEF NextAllowedFb
  <2>. QED BY <2>3, <2>4, <2>5 DEF i
<1>. QED BY <1>1, <1>2, <1>3, <1>4
============================================================================
