------------------------------ MODULE MCT30Ecm ------------------------------
(* Instances of T30Ecm for TLC. *)
EXTENDS T30Ecm

(* Three pages.  The first has three blocks, the first of them two frames:  *)
(* its block numbers, and the page numbers, wrap when OCTET = 2.            *)
MCDoc == << <<2, 1, 1>>, <<1>>, <<1>> >>

(* One page of two blocks of one frame, and one page of a single block. *)
MCTwoBlocks == << <<1, 1>> >>
MCOne == << <<2>> >>

(* The V.27ter rows only: 4800 and 2400 bit/s. *)
MCV27 == {"V27TER"}
MCV27Start == 6

MCLinks == LinkKinds
MCT38 == {"T38"}
=============================================================================
