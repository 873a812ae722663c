----------------------------- MODULE MCPageLine -----------------------------
(* The instance of T30Call over its coded pages for TLC. *)
EXTENDS MCT30Call, PageLine

(* Page 0: sixteen pixels, rows like the one above and unlike it, one all   *)
(* white, one all black.  Page 1: rows of one or two thousand pixels in one *)
(* run, for the make-up codes.                                              *)
MCDocuments ==
  [n \in 0..1 |->
     IF n = 0
     THEN [width |-> 16, hit |-> TRUE,
           rows |-> <<{3, 4, 5, 6, 15}, {3, 4, 5, 6, 7, 15}, {0, 1, 2, 14, 15},
                      {2, 3, 10, 11}, {}, 0..15, 1..8>>]
     ELSE [width |-> 3100, hit |-> FALSE,
           rows |-> <<0..2700, 2650..3000, (5..2600) \cup {2990}, 100..1000>>]]
MCMinRowBits == {0, 40}
=============================================================================
