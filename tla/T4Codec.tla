------------------------------ MODULE T4Codec ------------------------------
(***************************************************************************)
(* The page codec of nf_t4.c: T.4 one-dimensional (MH) and two-dimensional *)
(* (MR) coding and T.6 (MMR), the encoder and the decoder that conceals    *)
(* damaged rows.  A row is the set of its black pixels, 0 to width - 1.    *)
(* The code is a sequence of bits; a decoder holds the bits and a place.   *)
(***************************************************************************)
EXTENDS Scan, FiniteSets, FiniteSetsExt, SequencesExt

CodeBits(code) == [i \in 1..code[1] |-> (code[2] \div 2^(i - 1)) % 2]

(* Length and code (first bit lowest) of runs 0 to 63, then 64, 128 .. 2560. *)
white_codes == <<
  <<8,172>>, <<6,56>>, <<4,14>>, <<4,1>>, <<4,13>>, <<4,3>>, <<4,7>>,
  <<4,15>>, <<5,25>>, <<5,5>>, <<5,28>>, <<5,2>>, <<6,4>>, <<6,48>>, <<6,11>>,
  <<6,43>>, <<6,21>>, <<6,53>>, <<7,114>>, <<7,24>>, <<7,8>>, <<7,116>>,
  <<7,96>>, <<7,16>>, <<7,10>>, <<7,106>>, <<7,100>>, <<7,18>>, <<7,12>>,
  <<8,64>>, <<8,192>>, <<8,88>>, <<8,216>>, <<8,72>>, <<8,200>>, <<8,40>>,
  <<8,168>>, <<8,104>>, <<8,232>>, <<8,20>>, <<8,148>>, <<8,84>>, <<8,212>>,
  <<8,52>>, <<8,180>>, <<8,32>>, <<8,160>>, <<8,80>>, <<8,208>>, <<8,74>>,
  <<8,202>>, <<8,42>>, <<8,170>>, <<8,36>>, <<8,164>>, <<8,26>>, <<8,154>>,
  <<8,90>>, <<8,218>>, <<8,82>>, <<8,210>>, <<8,76>>, <<8,204>>, <<8,44>>,
  <<5,27>>, <<5,9>>, <<6,58>>, <<7,118>>, <<8,108>>, <<8,236>>, <<8,38>>,
  <<8,166>>, <<8,22>>, <<8,230>>, <<9,102>>, <<9,358>>, <<9,150>>, <<9,406>>,
  <<9,86>>, <<9,342>>, <<9,214>>, <<9,470>>, <<9,54>>, <<9,310>>, <<9,182>>,
  <<9,438>>, <<9,50>>, <<9,306>>, <<9,178>>, <<6,6>>, <<9,434>>, <<11,128>>,
  <<11,384>>, <<11,1408>>, <<12,1152>>, <<12,3200>>, <<12,640>>, <<12,2688>>,
  <<12,1664>>, <<12,3712>>, <<12,896>>, <<12,2944>>, <<12,1920>>,
  <<12,3968>> >>

black_codes == <<
  <<10,944>>, <<3,2>>, <<2,3>>, <<2,1>>, <<3,6>>, <<4,12>>, <<4,4>>, <<5,24>>,
  <<6,40>>, <<6,8>>, <<7,16>>, <<7,80>>, <<7,112>>, <<8,32>>, <<8,224>>,
  <<9,48>>, <<10,928>>, <<10,96>>, <<10,64>>, <<11,1840>>, <<11,176>>,
  <<11,432>>, <<11,1888>>, <<11,160>>, <<11,1856>>, <<11,192>>, <<12,1328>>,
  <<12,3376>>, <<12,816>>, <<12,2864>>, <<12,352>>, <<12,2400>>, <<12,1376>>,
  <<12,3424>>, <<12,1200>>, <<12,3248>>, <<12,688>>, <<12,2736>>, <<12,1712>>,
  <<12,3760>>, <<12,864>>, <<12,2912>>, <<12,1456>>, <<12,3504>>, <<12,672>>,
  <<12,2720>>, <<12,1696>>, <<12,3744>>, <<12,608>>, <<12,2656>>, <<12,1184>>,
  <<12,3232>>, <<12,576>>, <<12,3776>>, <<12,448>>, <<12,3648>>, <<12,320>>,
  <<12,416>>, <<12,2464>>, <<12,3392>>, <<12,832>>, <<12,1440>>, <<12,1632>>,
  <<12,3680>>, <<10,960>>, <<12,304>>, <<12,2352>>, <<12,3488>>, <<12,3264>>,
  <<12,704>>, <<12,2752>>, <<13,1728>>, <<13,5824>>, <<13,2624>>, <<13,6720>>,
  <<13,1600>>, <<13,5696>>, <<13,2496>>, <<13,6592>>, <<13,1472>>,
  <<13,5568>>, <<13,3520>>, <<13,7616>>, <<13,2368>>, <<13,6464>>,
  <<13,1344>>, <<13,5440>>, <<13,2880>>, <<13,6976>>, <<13,1216>>,
  <<13,5312>>, <<11,128>>, <<11,384>>, <<11,1408>>, <<12,1152>>, <<12,3200>>,
  <<12,640>>, <<12,2688>>, <<12,1664>>, <<12,3712>>, <<12,896>>, <<12,2944>>,
  <<12,1920>>, <<12,3968>> >>

RunOf(index) == IF index <= 64 THEN index - 1 ELSE 64 * (index - 64)

code_v == << <<7, 96>>, <<6, 48>>, <<3, 6>>, <<1, 1>>, <<3, 2>>, <<6, 16>>, <<7, 32>> >>
code_horiz == <<3, 4>>
code_pass == <<4, 8>>

(* The changing elements of a row that starts white; the last is the width. *)
row_runs(row, width) ==
  SetToSortSeq({i \in 0..width - 1 : (i \in row) # (i - 1 \in row)}, <) \o <<width>>

(* b1, the changing element of the reference right of a0 that starts a run *)
(* of the other colour (odd places start black), and b2 after it.          *)
find_b(ref, a0, black, width) ==
  LET right == {k \in 1..Len(ref) : ref[k] > a0 /\ (k % 2 = 0) = black} IN
  IF right = {} THEN <<width, width>>
  ELSE LET k == Min(right) IN <<ref[k], IF k < Len(ref) THEN ref[k + 1] ELSE width>>

-----------------------------------------------------------------------------
(* Encoder *)
nf_t4_enc_init(width, comp, k_param, min_row_bits) ==
  [width |-> width, comp |-> comp, k |-> IF k_param > 0 THEN k_param ELSE 2,
   min |-> min_row_bits, row_bits |-> 0, is_2d |-> comp = "T6",
   to_1d |-> (IF k_param > 0 THEN k_param ELSE 2) - 1, ref |-> <<width>>, bits |-> <<>>]

eput(e, bits) == [e EXCEPT !.bits = @ \o bits, !.row_bits = @ + Len(bits)]

put_1d_span(e, span, table) ==
  LET whole == IF span >= 2624 THEN (span - 2624) \div 2560 + 1 ELSE 0
      rest == span - 2560 * whole
      most == [i \in 1..whole |-> CodeBits(table[104])]
      make == IF rest >= 64 THEN CodeBits(table[64 + rest \div 64]) ELSE <<>> IN
  eput(e, FlattenSeq(most) \o make \o CodeBits(table[(rest % 64) + 1]))

encode_eol(e) ==
  LET short == e.min > 0 /\ e.row_bits > 13 /\ e.row_bits < e.min
      fill == [i \in 1..(IF short THEN e.min - e.row_bits ELSE 0) |-> 0]
      tag == IF e.comp = "2D" THEN <<IF e.is_2d THEN 0 ELSE 1>> ELSE <<>> IN
  [eput(e, fill \o CodeBits(<<12, 2048>>) \o tag) EXCEPT !.row_bits = 0]

encode_1d_row(e, row) ==
  LET runs == row_runs(row, e.width)
      Span(t, i) == put_1d_span(t, runs[i] - (IF i = 1 THEN 0 ELSE runs[i - 1]),
                                IF i % 2 = 0 THEN black_codes ELSE white_codes) IN
  [Scan(Span, e, Numbers(Len(runs))) EXCEPT !.ref = runs]

(* From a0 on: the mode, and where it leaves a0 and the next element.      *)
encode_2d_row(e, row) ==
  LET cur == row_runs(row, e.width)
      Cur(i) == IF i <= Len(cur) THEN cur[i] ELSE e.width
      RECURSIVE From(_, _, _)
      From(t, a0, at) ==
        LET black == a0 >= 0 /\ a0 \in row
            a1 == Cur(at)
            a2 == Cur(at + 1)
            b == find_b(e.ref, a0, black, e.width)
            start == IF a0 < 0 THEN 0 ELSE a0
            Colour(other) == IF black # other THEN black_codes ELSE white_codes IN
        IF a0 >= e.width THEN t
        ELSE IF b[2] < a1 THEN From(eput(t, CodeBits(code_pass)), b[2], at)
        ELSE IF b[1] - a1 \in -3..3
          THEN From(eput(t, CodeBits(code_v[b[1] - a1 + 4])), a1, at + 1)
        ELSE From(put_1d_span(put_1d_span(eput(t, CodeBits(code_horiz)), a1 - start,
                                          Colour(FALSE)), a2 - a1, Colour(TRUE)),
                  a2, at + 2)
  IN [From(e, -1, 1) EXCEPT !.ref = cur]

nf_t4_enc_row(e, row) ==
  LET t == encode_eol(e)
      u == IF t.is_2d THEN [encode_2d_row(t, row) EXCEPT !.to_1d = @ - 1]
                      ELSE [encode_1d_row(t, row) EXCEPT !.is_2d = TRUE] IN
  CASE e.comp = "T6" -> encode_2d_row(e, row)
    [] e.comp = "2D" -> IF u.to_1d > 0 THEN u
                        ELSE [u EXCEPT !.is_2d = FALSE, !.to_1d = e.k - 1]
    [] OTHER -> encode_1d_row(t, row)

(* RTC or EOFB, and ones to the end of the last octet. *)
nf_t4_enc_end_page(e) ==
  LET t == IF e.comp = "T6" THEN e ELSE [e EXCEPT !.is_2d = FALSE]
      Eol(u, i) == encode_eol(u)
      u == Scan(Eol, t, Numbers(IF e.comp = "T6" THEN 2 ELSE 6)) IN
  u.bits \o [i \in 1..(8 - (Len(u.bits) % 8)) % 8 |-> 1]

EncodePage(width, comp, min_row_bits, rows) ==
  nf_t4_enc_end_page(Scan(nf_t4_enc_row, nf_t4_enc_init(width, comp, 0, min_row_bits), rows))

-----------------------------------------------------------------------------
(* Decoder.  A code is looked up by its bits behind a leading one.          *)
CodeTable(table, runs(_)) ==
  LET Key(acc, bit) == 2 * acc + bit
      Enter(f, i) == [f EXCEPT ![Scan(Key, 1, CodeBits(table[i]))] = runs(i)] IN
  Scan(Enter, [key \in 1..2^14 - 1 |-> -1], Numbers(Len(table)))

WhiteRuns == CodeTable(white_codes, RunOf)
BlackRuns == CodeTable(black_codes, RunOf)

bits_left(d) == Len(d.bits) + 1 - d.pos

(* read_code: the bits of a bad code are consumed all the same. *)
read_code(d, table) ==
  LET RECURSIVE Try(_, _, _)
      Try(key, pos, n) ==
        LET key2 == 2 * key + d.bits[pos] IN
        IF n = 14 \/ pos > Len(d.bits) THEN [d EXCEPT !.pos = pos, !.run = -1]
        ELSE IF n = 13 THEN Try(key, pos + 1, 14)
        ELSE IF table[key2] < 0 THEN Try(key2, pos + 1, n + 1)
        ELSE [d EXCEPT !.pos = pos + 1, !.run = table[key2]]
  IN Try(1, d.pos, 0)

read_run(d, black) ==
  LET table == IF black THEN BlackRuns ELSE WhiteRuns
      RECURSIVE More(_, _)
      More(t, total) ==
        LET u == read_code(t, table) IN
        IF u.run < 0 THEN u
        ELSE IF u.run >= 64 THEN More(u, total + u.run)
        ELSE [u EXCEPT !.run = total + u.run]
  IN More(d, 0)

(* The end of line at pos, if there is one: the place after it, and whether *)
(* its tag says that the next row is one-dimensional.                       *)
consume_eol_tag(d, pos) ==
  LET one == Min({i \in pos + 11..Len(d.bits) : d.bits[i] = 1})
      tagged == d.comp = "2D" /\ one < Len(d.bits) IN
  IF pos + 11 > Len(d.bits) \/ (\E i \in pos..pos + 10 : d.bits[i] = 1) THEN {}
  ELSE IF \A i \in pos + 11..Len(d.bits) : d.bits[i] = 0 THEN {}
  ELSE {[pos |-> IF tagged THEN one + 2 ELSE one + 1,
         tag_1d |-> tagged /\ d.bits[one + 1] = 1]}

(* Black from a to b, if that is the colour. *)
Painted(row, black, a, b) == IF black THEN row \cup a..b - 1 ELSE row
Within(d, a) == IF a < 0 THEN 0 ELSE IF a > d.width THEN d.width ELSE a

decode_1d_row(d) ==
  LET RECURSIVE From(_, _, _)
      From(t, a, black) ==
        LET u == read_run(t, black)
            a1 == Within(d, a + u.run) IN
        IF a >= d.width \/ u.run < 0 THEN [t EXCEPT !.ok = a >= d.width,
                                           !.pos = IF a >= d.width THEN @ ELSE u.pos]
        ELSE From([u EXCEPT !.row = Painted(@, black, a, a1)], a1, ~black)
  IN From([d EXCEPT !.row = {}], 0, FALSE)

(* The two-dimensional modes by their bits behind a leading one. *)
Modes == CodeTable(code_v \o <<code_horiz, code_pass>>, LAMBDA i : i)
read_mode(d) ==
  LET Fit(n) == n <= bits_left(d) /\
        LET Key(acc, i) == 2 * acc + d.bits[d.pos + i - 1]
        IN Modes[Scan(Key, 1, Numbers(n))] > 0
      fits == {n \in 1..7 : Fit(n)}
      Key(acc, i) == 2 * acc + d.bits[d.pos + i - 1] IN
  IF fits = {} THEN [d EXCEPT !.pos = @ + Min({7, bits_left(d)}), !.run = 0]
  ELSE [d EXCEPT !.pos = @ + Min(fits), !.run = Modes[Scan(Key, 1, Numbers(Min(fits)))]]

decode_2d_row(d) ==
  LET RECURSIVE From(_, _, _)
      From(t, a0, black) ==
        LET b == find_b(d.ref, a0, black, d.width)
            start == IF a0 < 0 THEN 0 ELSE a0
            m == read_mode(t)
            v == Within(d, b[1] - (m.run - 4))
            r1 == read_run(m, black)
            r2 == read_run(r1, ~black)
            a1 == Within(d, start + r1.run)
            a2 == Within(d, a1 + r2.run)
            Stroke(u, first, next) == [u EXCEPT !.row = Painted(@, TRUE, first, next)] IN
        CASE a0 >= d.width -> [t EXCEPT !.ok = TRUE]
          [] a0 < d.width /\ m.run = 0 -> [m EXCEPT !.ok = FALSE]
          [] a0 < d.width /\ m.run = 9 ->
               From([m EXCEPT !.row = Painted(@, black, start, b[2])], b[2], black)
          [] a0 < d.width /\ m.run \in 1..7 ->
               From([m EXCEPT !.row = Painted(@, black, start, v)], v, ~black)
          [] OTHER -> IF r1.run < 0 \/ r2.run < 0 THEN [r2 EXCEPT !.ok = FALSE]
                      ELSE IF black THEN From(Stroke(r2, start, a1), a2, black)
                      ELSE From(Stroke(r2, a1, a2), a2, black)
  IN From([d EXCEPT !.row = {}], -1, FALSE)

-----------------------------------------------------------------------------
nf_t4_dec_init(width, comp, bits) ==
  [width |-> width, comp |-> comp, bits |-> bits, pos |-> 1, run |-> 0, ok |-> TRUE,
   row |-> {}, ref |-> <<width>>, good |-> {}, rows |-> <<>>, bad |-> 0,
   ended |-> FALSE]

emit_row(d) == [d EXCEPT !.rows = Append(@, d.row), !.ref = row_runs(d.row, d.width)]

(* A damaged row is given as the last good one; the search for the next    *)
(* end of line goes on from where the bad code was left.                   *)
Dev_Conceal(d) ==
  LET next == {e.pos : e \in UNION {consume_eol_tag(d, p) : p \in d.pos..Len(d.bits) - 11}} IN
  [emit_row([d EXCEPT !.row = d.good])
     EXCEPT !.bad = @ + 1, !.ok = TRUE,
            !.pos = IF next = {} THEN Len(d.bits) + 1 ELSE Min(next)]
Conceal(d) ==
  LET here == {p \in d.pos..Len(d.bits) - 11 : consume_eol_tag(d, p) # {}} IN
  [emit_row([d EXCEPT !.row = d.good])
     EXCEPT !.bad = @ + 1, !.ok = TRUE,
            !.pos = IF here = {} THEN Len(d.bits) + 1 ELSE Min(here)]

(* One turn of the loop of nf_t4_dec_put: the ends of line in front of a    *)
(* row, six of them at most, and the row.                                   *)
EolsBefore(d) ==
  LET Eol(e, i) == LET next == consume_eol_tag(d, e.pos) IN
        IF e.n # i - 1 \/ next = {} THEN e
        ELSE LET at == CHOOSE x \in next : TRUE
             IN [pos |-> at.pos, tag_1d |-> at.tag_1d, n |-> i]
  IN Scan(Eol, [pos |-> d.pos, tag_1d |-> FALSE, n |-> 0], Numbers(6))

PutT6Row(d) ==
  LET u == decode_2d_row(d) IN
  IF bits_left(d) < 8 \/ consume_eol_tag(d, d.pos) # {} \/ ~u.ok THEN [d EXCEPT !.ended = TRUE]
  ELSE emit_row(u)

PutRow(d) ==
  LET eols == EolsBefore(d)
      t == [d EXCEPT !.pos = eols.pos]
      row_1d == d.comp = "1D" \/ eols.tag_1d \/ (d.rows = <<>> /\ eols.n = 0)
      u == IF row_1d THEN decode_1d_row(t) ELSE decode_2d_row(t) IN
  IF eols.n = 6 \/ bits_left(t) < 8 THEN [t EXCEPT !.ended = TRUE]
  ELSE IF u.ok THEN emit_row([u EXCEPT !.good = u.row])
  ELSE Conceal(u)

nf_t4_dec_put(d) ==
  LET Put(t, i) == IF t.ended THEN t ELSE IF t.comp = "T6" THEN PutT6Row(t) ELSE PutRow(t)
  IN Scan(Put, d, Numbers(Len(d.bits)))

DecodePage(width, comp, bits) == nf_t4_dec_put(nf_t4_dec_init(width, comp, bits))
=============================================================================
