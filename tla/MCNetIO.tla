------------------------------ MODULE MCNetIO ------------------------------
(* Sessions for TLC: one repetition with dealt data of no and of several   *)
(* messages and an empty level, outputs that fit a connection, do not fit, *)
(* or do not exist, and two repetitions with a level of three messages.    *)
EXTENDS Session

MCSessions ==
  [to1 : {3}, to2 : {0, 3}, levels : {<<0, 3>>}, outs : {1}, reps : {1}, syncs : BOOLEAN]
  \cup [to1 : {3}, to2 : {0}, levels : {<<3>>}, outs : {6}, reps : {1}, syncs : BOOLEAN]
  \cup [to1 : {0}, to2 : {3}, levels : {<<3>>}, outs : {0}, reps : {1}, syncs : {TRUE}]
  \cup [to1 : {3}, to2 : {0}, levels : {<<5>>}, outs : {2}, reps : {2}, syncs : BOOLEAN]
MCPrograms == {Program(s) : s \in MCSessions}
=============================================================================
