------------------------------- MODULE V34Map -------------------------------
(***************************************************************************)
(* The coding of a V.34 primary channel burst (nf_v34.c): scrambler,       *)
(* mapping frames, shell mapper, differential and trellis coding on the    *)
(* way out, and their inverses in the page decoder.  The line carries 2D   *)
(* symbols; here a symbol is the decision the receiver's slicer makes, a   *)
(* quarter label and a number of quarter turns.  The precoder coefficients *)
(* are never set, so its contributions p, c and C0 are zero.               *)
(***************************************************************************)
EXTENDS Hdlc, FiniteSets

LOCAL INSTANCE TLC

Xor(a, b) == (a + b) % 2
Ones(n) == [i \in 1..n |-> 1]
FromBits(bits) == LET Weigh(acc, i) == acc + bits[i] * 2^(i - 1)
                  IN Scan(Weigh, 0, Numbers(Len(bits)))
ToBits(v, n) == [i \in 1..n |-> (v \div 2^(i - 1)) % 2]

-----------------------------------------------------------------------------
(* Scrambler, call modem: history of the bits sent, newest first.          *)
NoHistory == [i \in 1..23 |-> 0]
History(bits) == [i \in 1..23 |-> IF i <= Len(bits) THEN bits[Len(bits) + 1 - i] ELSE 0]
Feedback(h) == Xor(h[18], h[23])
Shifted(h, bit) == <<bit>> \o SubSeq(h, 1, 22)

nf_v34_scramble(bits) ==
  LET Next1(s, bit) == LET v == Xor(bit, Feedback(s.h)) IN
                       [h |-> Shifted(s.h, v), out |-> Append(s.out, v)]
  IN Scan(Next1, [h |-> NoHistory, out |-> <<>>], bits).out

nf_v34_descramble(h, bits) ==
  LET Next1(s, bit) == [h |-> Shifted(s.h, bit),
                        out |-> Append(s.out, Xor(bit, Feedback(s.h)))]
  IN Scan(Next1, [h |-> h, out |-> <<>>], bits).out

-----------------------------------------------------------------------------
(* The quarter superconstellation: grid points by energy, the higher first. *)
QuarterGrid == [i \in 1..529 |-> <<4 * ((i - 1) % 23) - 43, 4 * ((i - 1) \div 23) - 43>>]
Energy(p) == p[1] * p[1] + p[2] * p[2]
Precedes(p, q) == Energy(p) < Energy(q) \/ (Energy(p) = Energy(q) /\ p[2] > q[2])
nf_v34_quarter_const == SubSeq(SortSeq(QuarterGrid, Precedes), 1, 416)

rotate_cw(p, steps) ==
  CASE steps % 4 = 0 -> p
    [] steps % 4 = 1 -> <<p[2], -p[1]>>
    [] steps % 4 = 2 -> <<-p[1], -p[2]>>
    [] OTHER -> <<-p[2], p[1]>>

(* Bits 1 and 2 of a coordinate, and the label of one of eight subsets.    *)
Bit1(v) == (v % 4) \div 2
Bit2(v) == (v % 8) \div 4
nf_v34_subset_label(p) ==
  LET x == Xor(Bit1(p[1]), Bit1(p[2])) IN
  4 * Xor(Xor(Bit2(p[1]), Bit2(p[2])), x) + 2 * Bit1(p[1]) + x

nf_v34_table13 ==
  LET top == << <<0, 0, 1, 1, 8, 8, 9, 9>>, <<3, 2, 2, 3, 11, 10, 10, 11>>,
                <<5, 5, 4, 4, 13, 13, 12, 12>>, <<6, 7, 7, 6, 14, 15, 15, 14>> >> IN
  [r \in 1..8 |-> IF r <= 4 THEN top[r]
                  ELSE SubSeq(top[r - 4], 5, 8) \o SubSeq(top[r - 4], 1, 4)]

(* The encoder's delay line <<T1, T2, T3, T4>> after a pair of points.     *)
nf_v34_trellis_step(t, p0, p1) ==
  LET y == nf_v34_table13[nf_v34_subset_label(p0) + 1][nf_v34_subset_label(p1) + 1]
      y1 == y % 2
      y2 == (y \div 2) % 2 IN
  <<Xor(t[2], y1), Xor(t[3], y2), Xor(Xor(t[4], t[1]), y2), t[1]>>

v34_table12 == <<0, 1, 1, 1, 0, 1, 1, 1, 1, 1, 1, 1, 1, 0, 1, 0>>

-----------------------------------------------------------------------------
(* Shell mapper: K bits to the rings of eight points.                      *)
ShellTables(M) ==
  LET g2 == [p \in 0..2 * (M - 1) |-> IF p < M THEN p + 1 ELSE 2 * M - 1 - p]
      Square(g) == LET top == Cardinality(DOMAIN g) - 1 IN
        [p \in 0..2 * top |->
           LET Term(acc, k) == IF k - 1 > top \/ p - k + 1 > top THEN acc
                               ELSE acc + g[k - 1] * g[p - k + 1]
           IN Scan(Term, 0, Numbers(p + 1))]
      g4 == Square(g2)
      g8 == Square(g4)
      Add(acc, p) == acc + g8[p - 1] IN
  [M |-> M, g2 |-> g2, g4 |-> g4,
   z8 |-> <<0>> \o Steps(Add, 0, Numbers(8 * (M - 1) + 1))]

At(g, p) == IF p \in DOMAIN g THEN g[p] ELSE 0
(* Ways to share n between two halves whose first gets less than d.        *)
Below(g, n, d) == LET Term(acc, p) == acc + At(g, p - 1) * At(g, n - p + 1)
                  IN Scan(Term, 0, Numbers(d))
Largest(n, Fits(_)) == CHOOSE d \in 0..n : Fits(d) /\ (d = n \/ ~Fits(d + 1))
Share(g, n, r) == LET Fits(d) == Below(g, n, d) <= r IN Largest(n, Fits)

Pair(M, c, e) == IF c < M THEN <<e, c - e>> ELSE <<c - (M - 1 - e), M - 1 - e>>
Unpair(M, pair) == IF pair[1] + pair[2] < M THEN pair[1] ELSE M - 1 - pair[2]

nf_v34_shell_map(t, R0) ==
  LET Fits(a) == t.z8[a + 1] <= R0
      A == Largest(8 * (t.M - 1), Fits)
      base == R0 - t.z8[A + 1]
      B == Share(t.g4, A, base)
      R1 == base - Below(t.g4, A, B)
      R2 == R1 % t.g4[B]
      R3 == R1 \div t.g4[B]
      C == Share(t.g2, B, R2)
      D == Share(t.g2, A - B, R3)
      R4 == R2 - Below(t.g2, B, C)
      R5 == R3 - Below(t.g2, A - B, D) IN
  <<Pair(t.M, C, R4 % t.g2[C]), Pair(t.M, B - C, R4 \div t.g2[C]),
    Pair(t.M, D, R5 % t.g2[D]), Pair(t.M, A - B - D, R5 \div t.g2[D])>>

nf_v34_shell_unmap(t, rings) ==
  LET c(j) == rings[j][1] + rings[j][2]
      e(j) == Unpair(t.M, rings[j])
      B == c(1) + c(2)
      A == B + c(3) + c(4)
      R2 == e(2) * At(t.g2, c(1)) + e(1) + Below(t.g2, B, c(1))
      R3 == e(4) * At(t.g2, c(3)) + e(3) + Below(t.g2, A - B, c(3)) IN
  R3 * At(t.g4, B) + R2 + t.z8[A + 1] + Below(t.g4, A, B)

-----------------------------------------------------------------------------
(* Mode parameters, derived as nf_v34_modeparams_check derives the tables. *)
nf_v34_srates == << [J |-> 7, P |-> 12], [J |-> 8, P |-> 12], [J |-> 7, P |-> 14],
                    [J |-> 7, P |-> 15], [J |-> 7, P |-> 16], [J |-> 8, P |-> 15] >>

nf_v34_rateparam(sr, rate) ==
  LET P == nf_v34_srates[sr].P
      N == (rate * 28) \div (100 * nf_v34_srates[sr].J)
      b == (N + P - 1) \div P
      r == N - (b - 1) * P
      q == IF b - 12 < 32 THEN 0 ELSE (b - 12 - 32) \div 8 + 1 IN
  [P |-> P, J |-> nf_v34_srates[sr].J, b |-> b, q |-> q,
   K |-> IF b <= 12 THEN 0 ELSE b - 12 - 8 * q,
   high |-> [k \in 0..P - 1 |-> ((k + 1) * r) \div P > (k * r) \div P]]

nf_v34_pcparams_init(sr, rate, M) ==
  nf_v34_rateparam(sr, rate) @@ [shell |-> ShellTables(M)]

(* Mapping frame f: its bits, those of the shell mapper, and the place and *)
(* the presence of I3 in the group of each 4D symbol.                      *)
FrameBits(pp, f) == IF pp.high[f % pp.P] THEN pp.b ELSE pp.b - 1
ShellBits(pp, f) == IF pp.K = 0 THEN 0 ELSE IF pp.high[f % pp.P] THEN pp.K ELSE pp.K - 1
HasI3(pp, f, j) == pp.K > 0 \/ j < FrameBits(pp, f) - 8
GroupBits(pp, f, j) == 2 + (IF HasI3(pp, f, j) THEN 1 ELSE 0) + 2 * pp.q
GroupAt(pp, f, j) ==
  LET Add(acc, i) == acc + GroupBits(pp, f, i - 1) IN
  Scan(Add, ShellBits(pp, f), Numbers(j))
BitsBefore(pp, f) == LET Add(acc, i) == acc + FrameBits(pp, i - 1) IN Scan(Add, 0, Numbers(f))

-----------------------------------------------------------------------------
(* Transmitter: the group of one 4D symbol to two symbols.                 *)
EncodeGroup(pp, f, j, bits, ring, s) ==
  LET at == GroupAt(pp, f, j)
      i3at == IF HasI3(pp, f, j) THEN at + 3 ELSE at + 2
      I1 == bits[at + 1]
      Ival == bits[at + 2] + 2 * (IF HasI3(pp, f, j) THEN bits[at + 3] ELSE 0)
      l0 == FromBits(SubSeq(bits, i3at + 1, i3at + pp.q)) + ring[1] * 2^pp.q
      l1 == FromBits(SubSeq(bits, i3at + pp.q + 1, i3at + 2 * pp.q)) + ring[2] * 2^pp.q
      Z == (s.zprev + Ival) % 4
      slot == s.m4d % (2 * pp.P) = 0
      V0 == IF slot THEN v34_table12[(s.sf_slot % (2 * pp.J)) + 1] ELSE 0
      turn == (Z + 2 * I1 + Xor(s.state[1], V0)) % 4
      p0 == rotate_cw(nf_v34_quarter_const[l0 + 1], Z)
      p1 == rotate_cw(nf_v34_quarter_const[l1 + 1], turn) IN
  [zprev |-> Z, m4d |-> s.m4d + 1, sf_slot |-> IF slot THEN s.sf_slot + 1 ELSE s.sf_slot,
   state |-> nf_v34_trellis_step(s.state, p0, p1),
   out |-> s.out \o <<[lab |-> l0, rot |-> Z], [lab |-> l1, rot |-> turn]>>]

(* nf_v34_pc_encode: whole mapping frames of scrambled bits.               *)
nf_v34_pc_encode(pp, bits, nframes) ==
  LET tx0 == [zprev |-> 0, m4d |-> 0, sf_slot |-> 2 * pp.J - 2, state |-> <<0, 0, 0, 0>>,
              out |-> <<>>]
      Frame1(s, n) ==
        LET f == n - 1
            own == SubSeq(bits, BitsBefore(pp, f) + 1, BitsBefore(pp, n))
            rings == IF pp.K = 0 THEN [j \in 1..4 |-> <<0, 0>>]
                     ELSE nf_v34_shell_map(pp.shell, FromBits(SubSeq(own, 1, ShellBits(pp, f))))
            Group(t, j) == EncodeGroup(pp, f, j - 1, own, rings[j], t) IN
        Scan(Group, s, Numbers(4))
  IN Scan(Frame1, tx0, Numbers(nframes)).out

(* Mapping frames the data takes, padded with ones to fill the last.       *)
DataFrames(pp, nbits) ==
  CHOOSE n \in 0..nbits : /\ BitsBefore(pp, n) >= nbits
                          /\ n = 0 \/ BitsBefore(pp, n - 1) < nbits

(* nf_v34_pc_burst_build: B1, the data, and one frame of ones at turn-off. *)
nf_v34_pc_burst_build(pp, data) ==
  LET n == DataFrames(pp, Len(data))
      total == BitsBefore(pp, pp.P + n + 1)
      before == BitsBefore(pp, pp.P)
      raw == Ones(before) \o data \o Ones(total - before - Len(data)) IN
  nf_v34_pc_encode(pp, nf_v34_scramble(raw), pp.P + n + 1)

-----------------------------------------------------------------------------
(* Receiver: the bits of one mapping frame from its eight symbols.         *)
Dev_ExtractGroup(pp, f, j, sym, zp) ==
  LET Z == sym[1].rot
      Ival == (Z - zp) % 4
      delta == (sym[2].rot - Z) % 4 IN
  <<delta % 2, Ival % 2>> \o (IF HasI3(pp, f, j) THEN <<Ival \div 2>> ELSE <<>>)
    \o ToBits(sym[1].lab, pp.q) \o ToBits(sym[2].lab, pp.q)

ExtractGroup(pp, f, j, sym, zp) ==
  LET Z == sym[1].rot
      Ival == (Z - zp) % 4
      delta == (sym[2].rot - Z) % 4 IN
  <<delta \div 2, Ival % 2>> \o (IF HasI3(pp, f, j) THEN <<Ival \div 2>> ELSE <<>>)
    \o ToBits(sym[1].lab, pp.q) \o ToBits(sym[2].lab, pp.q)

ExtractFrame(pp, f, sym, zp) ==
  LET group(j) == ExtractGroup(pp, f, j, SubSeq(sym, 2 * j + 1, 2 * j + 2),
                               IF j = 0 THEN zp ELSE sym[2 * j - 1].rot)
      rings == [j \in 1..4 |-> <<sym[2 * j - 1].lab \div 2^pp.q, sym[2 * j].lab \div 2^pp.q>>]
      nbK == ShellBits(pp, f)
      R0 == nf_v34_shell_unmap(pp.shell, rings) % 2^nbK IN
  (IF pp.K = 0 THEN <<>> ELSE ToBits(R0, nbK)) \o group(0) \o group(1) \o group(2) \o group(3)

(* v34_page_extract_bits over symbols that start a superframe position.    *)
v34_page_extract_bits(pp, sym, z_prev) ==
  LET Frame1(bits, n) ==
        bits \o ExtractFrame(pp, n - 1, SubSeq(sym, 8 * n - 7, 8 * n),
                             IF n = 1 THEN z_prev ELSE sym[8 * n - 9].rot)
  IN Scan(Frame1, <<>>, Numbers(Len(sym) \div 8))

(* v34_page_b1_known: B1 as scrambled ones.                                *)
v34_page_b1_known(pp) == nf_v34_scramble(Ones(BitsBefore(pp, pp.P)))

(* The tail of nf_v34_page_decode_burst, once the symbols are sliced: B1   *)
(* gives the turn the data starts from and seeds the descrambler.          *)
BurstBits(pp, sym) ==
  LET n == 8 * pp.P IN
  nf_v34_descramble(History(v34_page_b1_known(pp)),
    v34_page_extract_bits(pp, SubSeq(sym, n + 1, Len(sym)), sym[n - 1].rot))
=============================================================================
