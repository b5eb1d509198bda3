------------------------------ MODULE MCFraming ------------------------------
(***************************************************************************)
(* Messages for TLC.  Numbers are two binary digits, so sizes run from 0   *)
(* to 3; the size 2 has a first digit of zero, as the sizes that are       *)
(* multiples of 256 have in the code.                                      *)
(***************************************************************************)
EXTENDS Framing

\* Frames of every size, the empty frame first, last and alone.
AllMessages == { << <<>> >>, << <<>>, <<1>> >>, << <<1, 0>>, <<>> >>, << <<0, 1, 1>> >> }
=============================================================================
