---------------------------- MODULE PageTransfer ----------------------------
(***************************************************************************)
(* What a fax call promises about a document, whatever modem, transport or *)
(* error correction carries it: the receiver writes the pages of the       *)
(* sender's document, whole and in order, each once; the sender counts a   *)
(* page as sent only after the receiver has written it; and no page is     *)
(* written before the one ahead of it has been confirmed.  Either end may  *)
(* give up at any time, so the specification has no liveness.              *)
(***************************************************************************)
EXTENDS Naturals, Sequences

CONSTANT Pages          \* the document: a sequence of pages

VARIABLES
  written,              \* the pages in the receiver's output file
  confirmed             \* the number of pages the sender believes delivered

ptvars == <<written, confirmed>>

PTInit ==
  /\ written = <<>>
  /\ confirmed = 0

(* The receiver writes the next page of the document. *)
Write ==
  /\ confirmed = Len(written)
  /\ Len(written) < Len(Pages)
  /\ written' = Append(written, Pages[Len(written) + 1])
  /\ UNCHANGED confirmed

(* The sender learns that the last page written was accepted. *)
Confirm ==
  /\ confirmed < Len(written)
  /\ confirmed' = confirmed + 1
  /\ UNCHANGED written

PTNext == Write \/ Confirm

PTSpec == PTInit /\ [][PTNext]_ptvars
=============================================================================
