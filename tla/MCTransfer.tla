----------------------------- MODULE MCTransfer -----------------------------
(* Messages for TLC: an int of three bits, so that 3 is the largest length *)
(* a call takes, and a size_t of six.                                      *)
EXTENDS Transfer

MCMessages == {<<0, 3, 2>>, <<2, 0>>, <<3, 3>>, <<1, 1, 1>>, <<2, 5>>,
               <<8, 1>>, <<10>>, <<1, 19>>}
=============================================================================
