------------------------- MODULE MCOutputStream -------------------------
(***************************************************************************)
(* A client and a poster; a ring of two lines, so that the client falls      *)
(* behind it, and up to three restored ones; one terminal in the ring, so    *)
(* that it is trimmed too.                                                  *)
(***************************************************************************)
EXTENDS OutputStream
=============================================================================
