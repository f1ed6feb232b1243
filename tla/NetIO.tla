------------------------------- MODULE NetIO -------------------------------
(***************************************************************************)
(* The network layer (NetIOMP, src/src/io/netmp.h, over TLSNetIO,          *)
(* src/src/io/tls_net_io_channel.h).  Every pair of parties i < j shares   *)
(* two TLS connections: `ios', on which i is the client and sends its data *)
(* to j, and `ios2', on which j is the client and sends its data to i.     *)
(* The opposite directions carry nothing but the bytes of sync.  A party   *)
(* writes into a buffer of its end of a connection, which is handed to the *)
(* connection when it overflows, when the party reads from that same end   *)
(* and when it is flushed; a connection holds only so much in flight, and  *)
(* the single thread of a party waits until it has handed over what it     *)
(* must and until what it reads has come.                                  *)
(*                                                                         *)
(* Connections that are set up stay up; module Transfer has the loops that *)
(* meet an error.  One unit stands for any amount of data; the n-th unit a *)
(* party sends to another is the number n, and the byte of sync is 0.      *)
(***************************************************************************)
EXTENDS Integers, SequencesExt

CONSTANTS NP,        \* number of parties, 3 in all programs
          BufSize,   \* units a BIO buffer holds (NETWORK_BUFFER_SIZE)
          Capacity,  \* units a connection holds in flight in one direction
          Programs,  \* the calls each party makes, one function per program
          Builds,    \* which compilers build the parties: "gcc", "clang"
          MaxSend    \* units of the longest message of a program

Party == 0 .. (NP - 1)
Pair  == {d \in Party \X Party : d[1] # d[2]}     \* <<sender, receiver>>

(* <<p, q, "ios">> is party p's ios[q], <<p, q, "ios2">> its ios2[q].      *)
End       == {<<d[1], d[2], k>> : d \in Pair, k \in {"ios", "ios2"}}
EndsOf(p) == {e \in End : e[1] = p}
Peer(e)   == <<e[2], e[1], e[3]>>

IsServer(e) == IF e[3] = "ios" THEN e[1] > e[2] ELSE e[1] < e[2]

SendEnd(p, q) == <<p, q, IF p < q THEN "ios" ELSE "ios2">>
RecvEnd(p, q) == <<p, q, IF q < p THEN "ios" ELSE "ios2">>
PairOf(e)     == <<e[1], e[2]>>

(* The calls of a program, and the steps that they come down to.           *)
Send(q, n) == [op |-> "send", with |-> q, len |-> n]
Recv(q, n) == [op |-> "recv", with |-> q, len |-> n]
Sync       == [op |-> "sync"]
Close      == [op |-> "close"]
FlushEnds  == [op |-> "flushEnds"]
Call(p)    == {Sync, Close, FlushEnds}
              \cup [op : {"send", "recv"}, with : {-1} \cup Party, len : Nat]

Step(op, e)    == [op |-> op, end |-> e]
Read(op, e, n) == [op |-> op, end |-> e, len |-> n]
Leave          == [op |-> "leave"]
Crash          == [op |-> "crash"]
StepsOf(p)     == {Leave, Crash}
                  \cup [op : {"open", "flush", "sendSync"}, end : EndsOf(p)]
                  \cup [op : {"recvData", "recvSync", "read", "readSync"},
                        end : EndsOf(p), len : Nat]

SyncByte == 0

ASSUME NetAssumption ==
  /\ NP \in Nat \ {0} /\ BufSize \in Nat \ {0} /\ Capacity \in Nat \ {0}
  /\ Builds \subseteq {"gcc", "clang"} /\ MaxSend \in Nat
  /\ \A f \in Programs : f = [p \in Party |-> f[p]]
  /\ \A f \in Programs, p \in Party :
       /\ f[p] \in Seq(Call(p))
       /\ \A i \in 1 .. Len(f[p]) : f[p][i].op = "send" => f[p][i].len <= MaxSend

VARIABLES build,    \* the compiler all parties are built with
          todo,     \* what each party still has to do, its next step first
          status,   \* per end, how far the connection is set up
          buf,      \* per end, units written and not yet handed over
          due,      \* per end, units to hand over before the party goes on
          wire,     \* per end, units in flight from this end to its peer
          hasSent,  \* has_sent of each end
          sent,     \* NetIOMP::sent, per pair
          wrote,    \* history: number of units sent, per pair
          got,      \* history: units received, per pair
          entered,  \* history: number of syncs each party has entered
          left      \* history: number of syncs each party has left

vars == <<build, todo, status, buf, due, wire, hasSent, sent,
          wrote, got, entered, left>>
history == <<wrote, got, entered, left>>
-----------------------------------------------------------------------------
(* The loops over i < j of the constructor and of sync come, for one       *)
(* party, down to its partners in ascending order.                         *)
Partners(p) == [k \in 1 .. (NP - 1) |-> IF k <= p THEN k - 1 ELSE k]

OpenPair(p, q) == <<Step("open", <<p, q, "ios">>), Step("open", <<p, q, "ios2">>)>>
OpenAll(p) == FlattenSeq([k \in 1 .. (NP - 1) |-> OpenPair(p, Partners(p)[k])])

(* TLSNetIO::sync.  Mutant: the client's answer stays in its buffer.       *)
SyncEndNoFlush(e) ==
  IF IsServer(e)
  THEN <<Step("sendSync", e), Read("recvSync", e, 1)>>
  ELSE <<Read("recvSync", e, 1), Step("sendSync", e)>>
SyncEnd(e) ==
  IF IsServer(e)
  THEN <<Step("sendSync", e), Read("recvSync", e, 1)>>
  ELSE <<Read("recvSync", e, 1), Step("sendSync", e), Step("flush", e)>>

SyncPair(p, q) == SyncEnd(<<p, q, "ios">>) \o SyncEnd(<<p, q, "ios2">>)
(* Mutant: the loop over i stops after party 0.                            *)
SyncStepsOfFirst(p) ==
  FlattenSeq([k \in 1 .. (NP - 1) |->
    IF p = 0 \/ Partners(p)[k] = 0 THEN SyncPair(p, Partners(p)[k]) ELSE <<>>])
SyncSteps(p) == FlattenSeq([k \in 1 .. (NP - 1) |-> SyncPair(p, Partners(p)[k])])

(* Mutant: only the connections on which the party is the client.          *)
FlushAllIos(p) ==
  FlattenSeq([k \in 1 .. (NP - 1) |-> <<Step("flush", <<p, Partners(p)[k], "ios">>)>>])
FlushAll(p) ==
  FlattenSeq([k \in 1 .. (NP - 1) |-> <<Step("flush", <<p, Partners(p)[k], "ios">>),
                                        Step("flush", <<p, Partners(p)[k], "ios2">>)>>])
-----------------------------------------------------------------------------
Init ==
  /\ build \in Builds
  /\ \E f \in Programs : todo = [p \in Party |-> OpenAll(p) \o f[p]]
  /\ status = [e \in End |-> "closed"]
  /\ buf = [e \in End |-> <<>>] /\ wire = [e \in End |-> <<>>]
  /\ due = [e \in End |-> 0]    /\ hasSent = [e \in End |-> FALSE]
  /\ sent = [d \in Pair |-> FALSE]
  /\ wrote = [d \in Pair |-> 0] /\ got = [d \in Pair |-> <<>>]
  /\ entered = [p \in Party |-> 0] /\ left = [p \in Party |-> 0]

(* Party p has nothing to hand over and its next step is an op.            *)
At(p, op) == /\ \A e \in EndsOf(p) : due[e] = 0
             /\ todo[p] # <<>>
             /\ todo[p][1].op = op
Now(p)    == todo[p][1]
Do(p, steps) == todo' = [todo EXCEPT ![p] = steps \o Tail(@)]

(* The constructors of TLSNetIO: the server listens and waits for one      *)
(* client, the client tries until it is let in; the handshake needs both.  *)
Listen(p) ==
  /\ At(p, "open")
  /\ LET e == Now(p).end IN
     /\ IsServer(e) /\ status[e] = "closed"
     /\ status' = [status EXCEPT ![e] = "listening"]
  /\ UNCHANGED <<build, todo, buf, due, wire, hasSent, sent, history>>

Connect(p) ==
  /\ At(p, "open")
  /\ LET e == Now(p).end IN
     /\ ~ IsServer(e) /\ status[e] = "closed" /\ status[Peer(e)] = "listening"
     /\ status' = [status EXCEPT ![e] = "connected"]
  /\ UNCHANGED <<build, todo, buf, due, wire, hasSent, sent, history>>

Opened(p) ==
  /\ At(p, "open")
  /\ LET e == Now(p).end IN
     /\ IF IsServer(e) THEN status[Peer(e)] = "connected" /\ status[e] = "listening"
                       ELSE status[Peer(e)] = "open" /\ status[e] = "connected"
     /\ status' = [status EXCEPT ![e] = "open"]
  /\ Do(p, <<>>)
  /\ UNCHANGED <<build, buf, due, wire, hasSent, sent, history>>
-----------------------------------------------------------------------------
(* BIO_write on a buffering BIO: what fits is kept.  Otherwise the buffer  *)
(* is filled and handed over, and of the rest all, if it is a buffer full  *)
(* or more, and none, if it is less.                                       *)
Spill(old, new) ==
  IF old + new <= BufSize THEN 0
  ELSE LET rest == IF old = 0 THEN new ELSE old + new - BufSize
       IN  IF rest >= BufSize THEN old + new ELSE BufSize

WriteTo(e, units) ==
  /\ buf' = [buf EXCEPT ![e] = @ \o units]
  /\ due' = [due EXCEPT ![e] = Spill(Len(buf[e]), Len(units))]
  /\ hasSent' = [hasSent EXCEPT ![e] = TRUE]

(* The connection takes a unit while it has room for it.                   *)
HandOver(p) ==
  \E e \in EndsOf(p) :
    /\ due[e] > 0 /\ Len(wire[e]) < Capacity
    /\ wire' = [wire EXCEPT ![e] = Append(@, Head(buf[e]))]
    /\ buf' = [buf EXCEPT ![e] = Tail(@)]
    /\ due' = [due EXCEPT ![e] = @ - 1]
    /\ UNCHANGED <<build, todo, status, hasSent, sent, history>>

Flush(p) ==
  /\ At(p, "flush")
  /\ LET e == Now(p).end IN due' = [due EXCEPT ![e] = Len(buf[e])]
  /\ Do(p, <<>>)
  /\ UNCHANGED <<build, status, buf, wire, hasSent, sent, history>>

(* NetIOMP::send.  A build with clang flushes after every send.            *)
SendData(p) ==
  /\ At(p, "send") /\ Now(p).with \notin {-1, p}
  /\ LET q == Now(p).with
         d == <<p, q>> IN
     /\ WriteTo(SendEnd(p, q), [i \in 1 .. Now(p).len |-> wrote[d] + i])
     /\ wrote' = [wrote EXCEPT ![d] = @ + Now(p).len]
     /\ sent' = [sent EXCEPT ![d] = TRUE]
     /\ Do(p, IF build = "clang" THEN <<Step("flush", SendEnd(p, q))>> ELSE <<>>)
  /\ UNCHANGED <<build, status, wire, got, entered, left>>

(* Nothing is sent to nobody or to oneself; but a build with clang flushes *)
(* all connections then, or the connection to oneself, which there is not. *)
SendNobody(p) ==
  /\ At(p, "send") /\ Now(p).with \in {-1, p}
  /\ Do(p, IF build # "clang" THEN <<>>
           ELSE IF Now(p).with = -1 THEN FlushAll(p) ELSE <<Crash>>)
  /\ UNCHANGED <<build, status, buf, due, wire, hasSent, sent, history>>

RecvNobody(p) ==
  /\ At(p, "recv") /\ Now(p).with \in {-1, p}
  /\ Do(p, <<>>)
  /\ UNCHANGED <<build, status, buf, due, wire, hasSent, sent, history>>

(* NetIOMP::recv flushes towards the sender before it reads.               *)
RecvCall(p) ==
  /\ At(p, "recv") /\ Now(p).with \notin {-1, p}
  /\ LET q    == Now(p).with
         read == <<Read("recvData", RecvEnd(p, q), Now(p).len)>> IN
     Do(p, IF sent[<<p, q>>] THEN <<Step("flush", SendEnd(p, q))>> \o read ELSE read)
  /\ UNCHANGED <<build, status, buf, due, wire, hasSent, sent, history>>

(* TLSNetIO::recv_data_internal: what was sent on this end is flushed, and *)
(* then the loop reads unit by unit.                                       *)
BeginRead(p) ==
  /\ At(p, "recvData") \/ At(p, "recvSync")
  /\ LET e == Now(p).end IN
     /\ due' = [due EXCEPT ![e] = IF hasSent[e] THEN Len(buf[e]) ELSE 0]
     /\ hasSent' = [hasSent EXCEPT ![e] = FALSE]
     /\ Do(p, IF Now(p).len = 0 THEN <<>>
              ELSE <<Read(IF Now(p).op = "recvData" THEN "read" ELSE "readSync",
                          e, Now(p).len)>>)
  /\ UNCHANGED <<build, status, buf, wire, sent, history>>

ReadUnit(p) ==
  /\ At(p, "read") \/ At(p, "readSync")
  /\ LET from == Peer(Now(p).end) IN
     /\ wire[from] # <<>>
     /\ wire' = [wire EXCEPT ![from] = Tail(@)]
     /\ got' = IF Now(p).op = "read"
               THEN [got EXCEPT ![PairOf(from)] = Append(@, Head(wire[from]))]
               ELSE got
  /\ Do(p, IF Now(p).len = 1 THEN <<>> ELSE <<[Now(p) EXCEPT !.len = @ - 1]>>)
  /\ UNCHANGED <<build, status, buf, due, hasSent, sent, wrote, entered, left>>
-----------------------------------------------------------------------------
EnterSync(p) ==
  /\ At(p, "sync")
  /\ entered' = [entered EXCEPT ![p] = @ + 1]
  /\ Do(p, SyncSteps(p) \o <<Leave>>)
  /\ UNCHANGED <<build, status, buf, due, wire, hasSent, sent, wrote, got, left>>

SendSync(p) ==
  /\ At(p, "sendSync")
  /\ WriteTo(Now(p).end, <<SyncByte>>)
  /\ Do(p, <<>>)
  /\ UNCHANGED <<build, status, wire, sent, history>>

LeaveSync(p) ==
  /\ At(p, "leave")
  /\ left' = [left EXCEPT ![p] = @ + 1]
  /\ Do(p, <<>>)
  /\ UNCHANGED <<build, status, buf, due, wire, hasSent, sent, wrote, got, entered>>

(* flush(-1), and ~TLSNetIO when the program ends, flush each end.         *)
FlushCall(p) ==
  /\ At(p, "flushEnds")
  /\ Do(p, FlushAll(p))
  /\ UNCHANGED <<build, status, buf, due, wire, hasSent, sent, history>>

Destroy(p) ==
  /\ At(p, "close")
  /\ Do(p, FlushAll(p))
  /\ UNCHANGED <<build, status, buf, due, wire, hasSent, sent, history>>

PartyStep(p) ==
  \/ Listen(p) \/ Connect(p) \/ Opened(p) \/ HandOver(p) \/ Flush(p)
  \/ SendData(p) \/ RecvCall(p) \/ BeginRead(p) \/ ReadUnit(p)
  \/ EnterSync(p) \/ SendSync(p) \/ LeaveSync(p) \/ Destroy(p)
  \/ SendNobody(p) \/ RecvNobody(p) \/ FlushCall(p)

Finished(p) == todo[p] = <<>> /\ \A e \in EndsOf(p) : due[e] = 0
AllFinished == \A p \in Party : Finished(p)
Done        == AllFinished /\ UNCHANGED vars

Next == (\E p \in Party : PartyStep(p)) \/ Done

Spec     == Init /\ [][Next]_vars
(* The machines keep running: as long as a party can go on, one does.      *)
FairSpec == Spec /\ WF_vars(\E p \in Party : PartyStep(p))
-----------------------------------------------------------------------------
(* Every step of a party works on its own ends, one at a time; a party     *)
(* never owes a connection more than it has written, and a connection      *)
(* never holds more than it can (netmp.h, tls_net_io_channel.h).           *)
TypeOK ==
  /\ build \in Builds
  /\ todo = [p \in Party |-> todo[p]]
  /\ \A p \in Party : todo[p] \in Seq(Call(p) \cup StepsOf(p))
  /\ status \in [End -> {"closed", "listening", "connected", "open"}]
  /\ buf \in [End -> Seq(Nat)] /\ wire \in [End -> Seq(Nat)]
  /\ due \in [End -> Nat] /\ hasSent \in [End -> BOOLEAN]
  /\ sent \in [Pair -> BOOLEAN]
  /\ wrote \in [Pair -> Nat] /\ got \in [Pair -> Seq(Nat)]
  /\ entered \in [Party -> Nat] /\ left \in [Party -> Nat]
  /\ \A e \in End : due[e] <= Len(buf[e]) /\ Len(wire[e]) <= Capacity
  /\ \A e, f \in End : e[1] = f[1] /\ due[e] > 0 /\ due[f] > 0 => e = f

(* NetIOMP keeps the promise of Pipes: data arrive complete, in order and  *)
(* unmixed with the bytes of sync, whichever connection and buffer they    *)
(* pass; nobody leaves a sync (netmp.h:248) before everybody has entered   *)
(* it; and leaving it leaves no data behind in a buffer, although send     *)
(* flushes only in builds with clang (netmp.h:116).                        *)
Data(s) == FlattenSeq([i \in 1 .. Len(s) |-> IF s[i] = SyncByte THEN <<>> ELSE <<s[i]>>])
Promise == INSTANCE Pipes WITH
  held  <- [d \in Pair |-> Data(buf[SendEnd(d[1], d[2])])],
  onWay <- [d \in Pair |-> Data(wire[SendEnd(d[1], d[2])])]
KeepsPromise == Promise!Spec

(* When all parties have finished, nothing lies unread on a connection or  *)
(* unsent in a buffer: what a party sends is what the others receive,      *)
(* unit by unit, over bulk transfers of several messages, repeated runs    *)
(* and syncs in between; on the way the state is of its type.              *)
NothingLeftOver ==
  /\ TypeOK
  /\ AllFinished => \A e \in End : wire[e] = <<>> /\ buf[e] = <<>>

(* If no party can go on, then two of them wait to hand more data over to  *)
(* each other than the connection takes.                                   *)
Stuck(p)         == ~ Finished(p) /\ ~ ENABLED PartyStep(p)
Overfull(p, q)   == due[SendEnd(p, q)] > 0 /\ Len(wire[SendEnd(p, q)]) = Capacity
StuckOnlyOverfull ==
  (\A p \in Party : Finished(p) \/ Stuck(p)) /\ ~ AllFinished
    => \E p, q \in Party : p # q /\ Overfull(p, q) /\ Overfull(q, p)
=============================================================================
