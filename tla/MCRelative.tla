----------------------------- MODULE MCRelative -----------------------------
(* Rings of three parties for TLC: both directions, distances beyond the   *)
(* number of parties, oneself, nobody, and boolean vectors.                *)
EXTENDS Relative

R(offset, len, bool, flushed) ==
  [offset |-> offset, len |-> len, bool |-> bool, flushed |-> flushed]
RingProgram(r) ==
  [p \in Party |-> SendRelative(p, r) \o (IF r.flushed THEN <<FlushEnds>> ELSE <<>>)
                   \o RecvRelative(p, r) \o <<Close>>]
MCRings == {R(0, 1, FALSE, FALSE), R(-1, 0, TRUE, FALSE), R(4, 1, FALSE, FALSE),
            R(4, 3, TRUE, TRUE), R(-1, 3, FALSE, FALSE), R(-1, 1, FALSE, TRUE)}
ToNobodyAtAll == [p \in Party |-> <<Send(-1, 1), Recv(-1, 1), Close>>]
MCPrograms == {ToNobodyAtAll} \cup {RingProgram(r) : r \in MCRings}
=============================================================================
