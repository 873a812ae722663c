------------------------------ MODULE PageLine ------------------------------
(***************************************************************************)
(* What T30Call takes a page carrier to bring, against the codec that      *)
(* brings it.  T30Call carries a page as its number and lets the receiver  *)
(* find its copy bad or not; here each page on its way is coded, one bit   *)
(* of it is inverted, and it is decoded.                                   *)
(***************************************************************************)
EXTENDS T30Call, T4Codec

CONSTANTS
  Documents,    \* of each page: its width, its rows, and whether it is hit
  MinRowBits    \* the least bits a row may take, those of its FILL included

ASSUME PageLineAssumption ==
  /\ DOMAIN Documents = 0..(PAGES - 1) /\ MinRowBits \subseteq Nat
  /\ \A n \in 0..(PAGES - 1) :
       \A i \in 1..Len(Documents[n].rows) : Documents[n].rows[i] \subseteq 0..(Documents[n].width - 1)

(* encode_current_page: with error correction a row is not padded.         *)
encode_current_page(page, comp, min) ==
  EncodePage(page.width, comp, IF comp = "T6" THEN 0 ELSE min, page.rows)

Received(page, comp, bits) == DecodePage(page.width, comp, bits)

(* The row that bit i is part of, an end of line going with the row behind *)
(* it; one more than the rows for the end of the page.                     *)
LastBits(page, comp, min) ==
  LET Row(acc, row) == LET e == nf_t4_enc_row(acc.e, row)
                       IN [e |-> e, last |-> Append(acc.last, Len(e.bits))]
      none == [e |-> nf_t4_enc_init(page.width, comp, 0, min), last |-> <<>>]
  IN Scan(Row, none, page.rows).last
RowAt(last, i) == 1 + Cardinality({k \in 1..Len(last) : last[k] < i})

HitBit(bits, i) == [bits EXCEPT ![i] = 1 - @]
From(rows, k) == SubSeq(rows, k, Len(rows))

(* A bad code may have taken the next end of line with it, so its row and  *)
(* the next are lost; two-dimensional rows pass the damage on until one    *)
(* coded on its own, every other one, is found.                            *)
RowsHit(comp) == IF comp = "1D" THEN 2 ELSE 5

Contained(page, comp, min) ==
  LET bits == encode_current_page(page, comp, min)
      last == LastBits(page, comp, min)
      rows == page.rows
      Hit(i) == LET d == Received(page, comp, HitBit(bits, i))
                    k == RowAt(last, i) IN
        /\ IsPrefix(SubSeq(rows, 1, k - 1), d.rows)
        /\ IsSuffix(From(rows, k + RowsHit(comp)), d.rows)
  IN \A i \in 1..Len(bits) : Hit(i)

Exact(page, comp, min) ==
  LET d == Received(page, comp, encode_current_page(page, comp, min))
  IN d.rows = page.rows /\ d.bad = 0

PageArrives(page) == \A min \in MinRowBits :
  /\ \A comp \in {"1D", "2D", "T6"} : Exact(page, comp, min)
  /\ page.hit => \A comp \in {"1D", "2D"} : Contained(page, comp, min)
Arriving == {n \in 0..(PAGES - 1) : PageArrives(Documents[n])}

(* A page whose carrier is undamaged is written row for row, none of them   *)
(* counted bad, in each of the three codings; one inverted bit costs the    *)
(* row it falls in and those it is shown to reach, none before and none     *)
(* behind them, though the decoder resynchronises by the ends of line it    *)
(* may itself have read past.                                               *)
RowsSurvive ==
  [][\A i \in 1..Len(to'[Receiver]) :
       to'[Receiver][i].m = "PAGE" => to'[Receiver][i].page \in Arriving]_vars
=============================================================================
