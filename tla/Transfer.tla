------------------------------ MODULE Transfer ------------------------------
(***************************************************************************)
(* The loops of send_data_internal and recv_data_internal of TLSNetIO, for *)
(* a sequence of messages in one direction of a connection.  Each loop     *)
(* calls BIO_write or BIO_read until as many bytes have been moved as the  *)
(* message has.  The loops count in a size_t, the calls take and return an *)
(* int: a call may move only a part, and returns 0 when the connection is  *)
(* closed and -1 when it fails; the loop takes 0 as the reason to end the  *)
(* process.  Byte i of message m is the pair <<m, i>>.                     *)
(***************************************************************************)
EXTENDS Integers, SequencesExt

CONSTANTS SizeMod,     \* number of values of size_t, 2^64 in the code
          IntMod,      \* number of values of int, 2^32 in the code
          Messages,    \* the possible sequences of lengths
          MaxFailures  \* bound for TLC: failing calls at each end

ASSUME TransferAssumption ==
  /\ SizeMod \in Nat \ {0} /\ IntMod \in Nat \ {0, 1} /\ MaxFailures \in Nat
  /\ Messages \subseteq Seq(0 .. (SizeMod - 2))

Side == {"send", "recv"}
None == <<0, 0>>

VARIABLES lens,    \* lengths of the messages
          msg,     \* the message each side is at
          pos,     \* `sent' of the loop each side is in
          state,   \* "runs", "exited", by error(), or "finished"
          pipe,    \* bytes under way
          buffer,  \* what the receiver has in memory for each message
          failed   \* history: failing calls at each side, per message

transferVars == <<lens, msg, pos, state, pipe, buffer, failed>>

(* A size_t passed as an int.                                              *)
(* Mutant: the length of the call has the width of the loop's.             *)
AsIntWide(x) == x
AsInt(x) == LET y == x % IntMod IN IF y >= IntMod \div 2 THEN y - IntMod ELSE y
(* sent += res, with res converted to a size_t.                            *)
Advance(x, res) == (x + res) % SizeMod

Rest(s)   == lens[msg[s]] - pos[s]
Asked(s)  == AsInt(Rest(s))
InLoop(s) == /\ state[s] = "runs" /\ msg[s] <= Len(lens)
             /\ pos[s] < lens[msg[s]]
Gone(s)   == state[s] # "runs"
Failures(s) == FoldLeft(LAMBDA n, k : n + k, 0, failed[s])

(* Mutant: the pointer stays at the start of the data.                     *)
BytesFromStart(m, from, n) == [i \in 1 .. n |-> <<m, i>>]
BytesFrom(m, from, n) == [i \in 1 .. n |-> <<m, from + i>>]
-----------------------------------------------------------------------------
TransferInit ==
  /\ lens \in Messages
  /\ msg = [s \in Side |-> 1] /\ pos = [s \in Side |-> 0]
  /\ state = [s \in Side |-> "runs"]
  /\ pipe = <<>>
  /\ buffer = [m \in 1 .. Len(lens) |-> [i \in 1 .. lens[m] |-> None]]
  /\ failed = [s \in Side |-> [m \in 1 .. Len(lens) |-> 0]]

(* BIO_write takes some of the bytes.                                      *)
WriteSome ==
  /\ InLoop("send") /\ Asked("send") > 0 /\ ~Gone("recv")
  /\ \E n \in 1 .. Asked("send") :
       /\ pipe' = pipe \o BytesFrom(msg["send"], pos["send"], n)
       /\ pos' = [pos EXCEPT !["send"] = Advance(@, n)]
  /\ UNCHANGED <<lens, msg, state, buffer, failed>>

(* BIO_read returns what has arrived, up to the length asked for.          *)
ReadSome ==
  /\ InLoop("recv") /\ Asked("recv") > 0 /\ pipe # <<>>
  /\ \E n \in 1 .. Asked("recv") :
       /\ n <= Len(pipe)
       /\ buffer' = [buffer EXCEPT ![msg["recv"]] =
            [i \in DOMAIN @ |-> IF i \in pos["recv"] + 1 .. pos["recv"] + n
                                THEN pipe[i - pos["recv"]] ELSE @[i]]]
       /\ pipe' = SubSeq(pipe, n + 1, Len(pipe))
       /\ pos' = [pos EXCEPT !["recv"] = Advance(@, n)]
  /\ UNCHANGED <<lens, msg, state, failed>>

(* A call fails; -1 is positive as a size_t.                               *)
Fail(s) ==
  /\ InLoop(s) /\ Asked(s) > 0
  /\ Failures(s) < MaxFailures
  /\ pos' = [pos EXCEPT ![s] = Advance(@, -1)]
  /\ failed' = [failed EXCEPT ![s][msg[s]] = @ + 1]
  /\ UNCHANGED <<lens, msg, state, pipe, buffer>>

(* A call that is asked for no bytes or finds the connection closed moves  *)
(* nothing.                                                                *)
ReturnsZero(s) ==
  \/ Asked(s) <= 0
  \/ s = "send" /\ Gone("recv")
  \/ s = "recv" /\ Gone("send") /\ pipe = <<>>
(* Mutant: zero is no reason to end.                                       *)
ErrorIgnored(s) ==
  /\ InLoop(s) /\ ReturnsZero(s)
  /\ pos' = [pos EXCEPT ![s] = Advance(@, 0)]
  /\ UNCHANGED <<lens, msg, state, pipe, buffer, failed>>
Error(s) ==
  /\ InLoop(s) /\ ReturnsZero(s)
  /\ state' = [state EXCEPT ![s] = "exited"]
  /\ UNCHANGED <<lens, msg, pos, pipe, buffer, failed>>

(* The loop is left, and the next call of send or recv begins its own.     *)
Return(s) ==
  /\ state[s] = "runs" /\ msg[s] <= Len(lens) /\ ~InLoop(s)
  /\ msg' = [msg EXCEPT ![s] = @ + 1]
  /\ pos' = [pos EXCEPT ![s] = 0]
  /\ UNCHANGED <<lens, state, pipe, buffer, failed>>

Finish(s) ==
  /\ state[s] = "runs" /\ msg[s] > Len(lens)
  /\ state' = [state EXCEPT ![s] = "finished"]
  /\ UNCHANGED <<lens, msg, pos, pipe, buffer, failed>>

LoopStep(s) == \/ s = "send" /\ WriteSome
               \/ s = "recv" /\ ReadSome
               \/ Fail(s) \/ Error(s) \/ Return(s) \/ Finish(s)
TransferNext == \E s \in Side : LoopStep(s)
TransferSpec == TransferInit /\ [][TransferNext]_transferVars
FairTransfer == TransferSpec /\ \A s \in Side : WF_transferVars(LoopStep(s))
-----------------------------------------------------------------------------
Returned(s) == 1 .. (msg[s] - 1)
NoFailure(s, m) == \A k \in 1 .. m : failed[s][k] = 0

(* However the calls cut the messages, a message of which both ends have   *)
(* returned is in the receiver's memory byte by byte, unless a call failed *)
(* at either end on the way to it.                                         *)
CompleteUnlessFailed ==
  \A m \in Returned("recv") : NoFailure("send", m) /\ NoFailure("recv", m) =>
    \A i \in 1 .. lens[m] : buffer[m][i] = <<m, i>>

(* A message longer than the largest int is not sent in parts: the process *)
(* ends, after at most the bytes above a multiple of 2^32.                 *)
TooLongEndsProcess ==
  \A m \in Returned("send") : lens[m] >= IntMod \div 2 => failed["send"][m] > 0

(* Neither end loops or waits for ever when the other has gone, nor after  *)
(* calls that failed.                                                      *)
BothEnd == <>(\A s \in Side : Gone(s))
=============================================================================
