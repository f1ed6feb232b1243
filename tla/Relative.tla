------------------------------ MODULE Relative ------------------------------
(***************************************************************************)
(* The relative and bit-packed variants of NetIOMP: sendRelative,          *)
(* sendBoolRelative and the two recvRelative name a party by its distance, *)
(* and boolean vectors travel in words of 64 values, one call of send and  *)
(* recv for each.  The parties form a ring: everybody sends to the party   *)
(* at one distance, flushes or does not, and receives from the party at    *)
(* the opposite distance.                                                  *)
(***************************************************************************)
EXTENDS NetIO

CONSTANT WordBits    \* values per word of a boolean vector, 64 in the code

(* The remainder of C++ has the sign of the dividend.                      *)
Rem(a, n) == IF a >= 0 THEN a % n ELSE -((-a) % n)
(* Mutant: a negative remainder loses its sign instead.                    *)
AtDistanceAbs(p, offset) ==
  IF Rem(p + offset, NP) < 0 THEN -Rem(p + offset, NP) ELSE Rem(p + offset, NP)
AtDistance(p, offset) ==
  IF Rem(p + offset, NP) < 0 THEN Rem(p + offset, NP) + NP ELSE Rem(p + offset, NP)

SendBool(q, n) == [i \in 1 .. ((n + WordBits - 1) \div WordBits) |-> Send(q, 1)]
RecvBool(q, n) == [i \in 1 .. ((n + WordBits - 1) \div WordBits) |-> Recv(q, 1)]

SendRelative(p, r) ==
  LET q == AtDistance(p, r.offset)
  IN  IF r.bool THEN SendBool(q, r.len) ELSE <<Send(q, r.len)>>
RecvRelative(p, r) ==
  LET q == AtDistance(p, -r.offset)
  IN  IF r.bool THEN RecvBool(q, r.len) ELSE <<Recv(q, r.len)>>
-----------------------------------------------------------------------------
(* Which programs end, read off the calls a party has still to make at the *)
(* start.                                                                  *)
Calls(p, op)  == SelectSeq(todo[p], LAMBDA c : c.op = op)
Volume(p)     == FoldLeft(LAMBDA n, c : n + c.len, 0, Calls(p, "send"))
Fits          == \A p \in Party : Volume(p) <= Capacity
SendsTo(p)    == {Calls(p, "send")[i].with : i \in DOMAIN Calls(p, "send")}
ToNobody      == \A p \in Party : SendsTo(p) \subseteq {-1, p}
Flushes       == \A p \in Party : Calls(p, "flushEnds") # <<>>
Nothing       == \A p \in Party : Volume(p) = 0
Ends ==
  IF ToNobody THEN build = "gcc" \/ \A p \in Party : p \notin SendsTo(p)
  ELSE Nothing \/ (Fits /\ (build = "clang" \/ Flushes))

(* A ring in which everybody flushes before it receives ends, if what is   *)
(* sent fits a connection, since send itself flushes only with clang       *)
(* (netmp.h:116); so does one that sends to nobody, and with gcc one that  *)
(* sends to itself.                                                        *)
RingEnds == Ends => <>AllFinished

Awaits(p, q) == /\ todo[p] # <<>> /\ Now(p).op = "read" /\ Now(p).end = RecvEnd(p, q)
                /\ buf[SendEnd(q, p)] # <<>>
Blocked(p, q) == due[SendEnd(p, q)] > 0 /\ Len(wire[SendEnd(p, q)]) = Capacity
(* recv flushes only towards the party it receives from (netmp.h:162),     *)
(* which in a ring is not the party one sends to.  If no party can go on,  *)
(* one of them has crashed, or each waits for data that the other end      *)
(* keeps in its buffer, or to hand over data to one that waits to do the   *)
(* same.                                                                   *)
StuckInARing ==
  (\A p \in Party : Finished(p) \/ Stuck(p)) /\ ~AllFinished =>
    \/ \E p \in Party : todo[p] # <<>> /\ Now(p) = Crash
    \/ build = "gcc" /\ \A p \in Party : \E q \in Party \ {p} : Awaits(p, q)
    \/ \A p \in Party : \E q \in Party \ {p} : Blocked(p, q)
=============================================================================
