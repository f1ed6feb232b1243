------------------------------ MODULE Session ------------------------------
(***************************************************************************)
(* What the three processes of a test or benchmark ask of the network, in  *)
(* the order of the code: OfflineEvaluator::setWireMasks,                  *)
(* OnlineEvaluator::evaluateGatesAtDepth and getOutputs, and the drivers   *)
(* that repeat them (src/benchmark).  A session is described by the number *)
(* of units dealt to parties 1 and 2, the units parties 1 and 2 exchange   *)
(* at each level, the units of output, the number of repetitions, and      *)
(* whether the driver syncs around each repetition, as pi_3_test.cpp does  *)
(* and test.cpp does not.                                                  *)
(***************************************************************************)
EXTENDS NetIO

CONSTANTS ChunkSize,  \* units per message of dealt data, 100000000 in the code
          Segment,    \* units per message of an exchange, 100000 in the code
          Sessions    \* the sessions that are run

Online == {1, 2}

(* num_comm messages of the full size and then the rest, possibly empty.   *)
Pieces(n, size) == [i \in 1 .. (n \div size) |-> size] \o <<n % size>>
SendPieces(q, n) ==
  [i \in 1 .. (1 + n \div ChunkSize) |-> Send(q, Pieces(n, ChunkSize)[i])]
RecvPieces(q, n) ==
  [i \in 1 .. (1 + n \div ChunkSize) |-> Recv(q, Pieces(n, ChunkSize)[i])]

(* Mutant: the last, shorter message is not received.                      *)
DealFullOnly(p, s) ==
  CASE p = 0 -> <<Send(2, 1), Send(1, 1)>>
                \o SendPieces(2, s.to2) \o SendPieces(1, s.to1) \o <<Send(2, 0)>>
    [] p = 1 -> <<Recv(0, 1)>> \o [i \in 1 .. (s.to1 \div ChunkSize) |-> Recv(0, ChunkSize)]
    [] p = 2 -> <<Recv(0, 1)>> \o [i \in 1 .. (s.to2 \div ChunkSize) |-> Recv(0, ChunkSize)]
Deal(p, s) ==
  CASE p = 0 -> <<Send(2, 1), Send(1, 1)>>
                \o SendPieces(2, s.to2) \o SendPieces(1, s.to1) \o <<Send(2, 0)>>
    [] p = 1 -> <<Recv(0, 1)>> \o RecvPieces(0, s.to1)
    [] p = 2 -> <<Recv(0, 1)>> \o RecvPieces(0, s.to2) \o <<Recv(0, 0)>>

Both(p, n) == <<Send(3 - p, n), Recv(3 - p, n)>>
(* Mutant: a level is exchanged in a single message.                       *)
ExchangeWhole(p, n) == Both(p, n)
Exchange(p, n) ==
  FlattenSeq([i \in 1 .. (1 + n \div Segment) |-> Both(p, Pieces(n, Segment)[i])])

Outputs(p, n) == IF n = 0 THEN <<>> ELSE Both(p, n)

Evaluate(p, s) ==
  IF p \in Online
  THEN FlattenSeq([i \in 1 .. Len(s.levels) |-> Exchange(p, s.levels[i])])
       \o Outputs(p, s.outs)
  ELSE <<>>

Repetition(p, s) ==
  Deal(p, s) \o <<Sync>> \o Evaluate(p, s) \o (IF s.syncs THEN <<Sync>> ELSE <<>>)

Program(s) ==
  [p \in Party |-> (IF s.syncs THEN <<Sync>> ELSE <<>>)
                   \o FlattenSeq([r \in 1 .. s.reps |-> Repetition(p, s)])
                   \o <<Close>>]

SessionType == [to1 : Nat, to2 : Nat, levels : Seq(Nat), outs : Nat, reps : Nat, syncs : BOOLEAN]

ASSUME SessionAssumption ==
  /\ Party = {0, 1, 2} /\ ChunkSize \in Nat \ {0} /\ Segment \in Nat \ {0}
  /\ \A s \in Sessions : s \in SessionType
  /\ Programs = {Program(s) : s \in Sessions}
-----------------------------------------------------------------------------
(* The last message that parties 1 and 2 send each other fits a            *)
(* connection.                                                             *)
OutputsFit ==
  \A p \in Online :
    LET sends == SelectSeq(todo[p], LAMBDA c : c.op = "send")
    IN  sends # <<>> => Last(sends).len <= Capacity

(* Every party finishes: setting up, dealing, exchanging and syncing never *)
(* leave two parties waiting for one another, however large the levels, as *)
(* long as the outputs, which parties 1 and 2 exchange in one message, fit *)
(* a connection.                                                           *)
EveryoneFinishes == OutputsFit => <>AllFinished
=============================================================================
