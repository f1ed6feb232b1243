---------------------------- MODULE NetIO_proofs ----------------------------
(***************************************************************************)
(* Proofs about modules NetIO and Session.  What is in flight or still in  *)
(* a buffer on the way from one party to another, followed by what the one *)
(* will write there, is at all times what the other will read, unit by     *)
(* unit and sync byte by sync byte (Balanced).  So data never meet a read  *)
(* of sync or a byte of sync a read of data, nobody leaves a sync early,   *)
(* and nothing is left over.  The last part is about module Transfer.      *)
(***************************************************************************)
EXTENDS Session, Transfer, Facts

Item(p) == Call(p) \cup StepsOf(p)
CallOps == {"send", "recv", "sync", "close", "flushEnds"}

Ones(n)  == [i \in 1 .. n |-> 1]
Zeros(n) == [i \in 1 .. n |-> 0]
Kinds(s) == [i \in 1 .. Len(s) |-> IF s[i] = SyncByte THEN 0 ELSE 1]

(* What a call or step will write into its party's end e, and read from    *)
(* it: 1 for a unit of data, 0 for a byte of sync.                         *)
Written(c, e) ==
  IF c.op = "send" THEN IF c.with = e[2] /\ e = SendEnd(e[1], e[2]) THEN Ones(c.len) ELSE <<>>
  ELSE IF c.op = "sync" THEN <<0>>
  ELSE IF c.op = "sendSync" THEN IF c.end = e THEN <<0>> ELSE <<>>
  ELSE <<>>
ReadFrom(c, e) ==
  IF c.op = "recv" THEN IF c.with = e[2] /\ e = RecvEnd(e[1], e[2]) THEN Ones(c.len) ELSE <<>>
  ELSE IF c.op = "sync" THEN <<0>>
  ELSE IF c.op \in {"recvData", "read"} THEN IF c.end = e THEN Ones(c.len) ELSE <<>>
  ELSE IF c.op \in {"recvSync", "readSync"} THEN IF c.end = e THEN Zeros(c.len) ELSE <<>>
  ELSE <<>>
WritesOf(e) == [c \in Item(e[1]) |-> Written(c, e)]
ReadsOf(e)  == [c \in Item(e[1]) |-> ReadFrom(c, e)]
Out(t, e) == FlatMap(WritesOf(e), t)
In(t, e)  == FlatMap(ReadsOf(e), t)

(* Every unit and every sync that a program writes it also reads.          *)
Matched(f) == \A e \in End : Out(f[e[1]], e) = In(f[e[2]], Peer(e))

(* The number of syncs still to be called, and of bytes of sync.           *)
SyncOf(p)   == [c \in Item(p) |-> IF c.op = "sync" THEN <<0>> ELSE <<>>]
Syncs(p, t) == Len(FlatMap(SyncOf(p), t))
MarkOf      == [u \in {0, 1} |-> IF u = 0 THEN <<0>> ELSE <<>>]
Marks(s)    == Len(FlatMap(MarkOf, s))
-----------------------------------------------------------------------------
(* What party p still has to do: first the steps of a call, at most one of *)
(* them the end of a sync, then calls.                                     *)
CallsLast(t) ==
  \A i, j \in 1 .. Len(t) : i < j /\ t[i].op \in CallOps \cup {"leave"} => t[j].op \in CallOps
ReadsRight(p, t) ==
  \A i \in 1 .. Len(t) :
    /\ t[i].op \in {"recvData", "read"} => t[i].end = RecvEnd(p, t[i].end[2])
    /\ t[i].op \in {"read", "readSync"} => t[i].len # 0
    /\ t[i].op = "send" => t[i].len <= MaxSend
FlushedLater(p, t) ==
  \A i \in 1 .. Len(t) :
    t[i].op = "sendSync" /\ t[i].end = SendEnd(p, t[i].end[2]) =>
      \E j \in 1 .. Len(t) : i < j /\ t[j] = Step("flush", t[i].end)
StepsInv ==
  \A p \in Party : CallsLast(todo[p]) /\ ReadsRight(p, todo[p]) /\ FlushedLater(p, todo[p])

InSync(t) == \E i \in 1 .. Len(t) : t[i].op = "leave"
SyncInv == \A p \in Party : entered[p] = IF InSync(todo[p]) THEN left[p] + 1 ELSE left[p]

(* In a sync, what is in a buffer of data is handed over, or will be.      *)
FlushInv ==
  \A d \in Pair : InSync(todo[d[1]]) =>
    LET e == SendEnd(d[1], d[2]) IN
    \/ \E i \in 1 .. Len(todo[d[1]]) : todo[d[1]][i] = Step("flush", e)
    \/ due[e] = Len(buf[e])

Balanced ==
  \A e \in End : Kinds(wire[e] \o buf[e]) \o Out(todo[e[1]], e) = In(todo[e[2]], Peer(e))

(* All parties enter the same number of syncs in all.                      *)
Together ==
  \A p, q \in Party : entered[p] + Syncs(p, todo[p]) = entered[q] + Syncs(q, todo[q])

NetInv == TypeOK /\ StepsInv /\ SyncInv /\ FlushInv /\ Balanced /\ Together
-----------------------------------------------------------------------------
(* Ends of connections.                                                    *)
LEMMA EndFacts ==
  ASSUME NEW e \in End
  PROVE  /\ e[1] \in Party /\ e[2] \in Party /\ e[1] # e[2] /\ <<e[1], e[2]>> \in Pair
         /\ e[3] \in {"ios", "ios2"} /\ e = <<e[1], e[2], e[3]>>
         /\ Peer(e) \in End /\ Peer(Peer(e)) = e /\ Peer(e)[1] = e[2] /\ Peer(e)[2] = e[1]
         /\ e \in EndsOf(e[1]) /\ e # Peer(e)
<1>1. PICK d \in Pair, k \in {"ios", "ios2"} : e = <<d[1], d[2], k>>
  BY DEF End
<1>2. d[1] \in Party /\ d[2] \in Party /\ d[1] # d[2]
  BY DEF Pair
<1> DEFINE p == d[1]
           q == d[2]
<1>3. <<p, q>> \in Pair /\ <<q, p>> \in Pair /\ <<q, p>>[1] = q /\ <<q, p>>[2] = p
  BY <1>2 DEF Pair
<1>4. e = <<p, q, k>> /\ Peer(e) = <<q, p, k>> /\ Peer(Peer(e)) = e
  BY <1>1 DEF Peer
<1>5. <<q, p, k>> \in End
  BY <1>3 DEF End
<1>6. e \in EndsOf(e[1])
  BY DEF EndsOf
<1>7. e[1] = p /\ e[2] = q /\ e[3] = k /\ Peer(e)[1] = q /\ Peer(e)[2] = p
  BY <1>4
<1>. QED  BY <1>2, <1>3, <1>4, <1>5, <1>6, <1>7

LEMMA PairFacts ==
  ASSUME NEW d \in Pair
  PROVE  /\ d[1] \in Party /\ d[2] \in Party /\ d[1] # d[2] /\ d = <<d[1], d[2]>>
         /\ SendEnd(d[1], d[2]) \in End
         /\ SendEnd(d[1], d[2])[1] = d[1] /\ SendEnd(d[1], d[2])[2] = d[2]
         /\ RecvEnd(d[2], d[1]) = Peer(SendEnd(d[1], d[2]))
         /\ ~ IsServer(SendEnd(d[1], d[2]))
BY NetAssumption DEF Pair, Party, End, SendEnd, RecvEnd, Peer, IsServer

LEMMA OpenEnds ==
  ASSUME NEW p \in Party, NEW q \in Party, p # q, NEW k \in {"ios", "ios2"}
  PROVE  <<p, q, k>> \in End /\ <<p, q, k>> \in EndsOf(p) /\ <<p, q>> \in Pair
BY DEF End, Pair, EndsOf

LEMMA OwnEnd ==
  ASSUME NEW p \in Party, NEW e \in EndsOf(p)
  PROVE  e \in End /\ e[1] = p /\ e[2] \in Party \ {p}
BY EndFacts DEF EndsOf

(* The partners of a party are the other parties, each once.               *)
LEMMA PartnersRight ==
  ASSUME NEW p \in Party
  PROVE  /\ \A k \in 1 .. (NP - 1) : Partners(p)[k] \in Party \ {p}
         /\ \A q \in Party \ {p} : \E k \in 1 .. (NP - 1) :
              /\ Partners(p)[k] = q
              /\ \A m \in 1 .. (NP - 1) : Partners(p)[m] = q => m = k
<1>1. NP \in Nat /\ p \in 0 .. (NP - 1)
  BY NetAssumption DEF Party
<1>2. \A k \in 1 .. (NP - 1) : Partners(p)[k] = IF k <= p THEN k - 1 ELSE k
  BY DEF Partners
<1>3. \A k \in 1 .. (NP - 1) : Partners(p)[k] \in Party \ {p}
  BY <1>1, <1>2 DEF Party
<1>4. ASSUME NEW q \in Party \ {p}
      PROVE  \E k \in 1 .. (NP - 1) :
              /\ Partners(p)[k] = q
              /\ \A m \in 1 .. (NP - 1) : Partners(p)[m] = q => m = k
  <2>1. q \in 0 .. (NP - 1) /\ q # p
    BY DEF Party
  <2> DEFINE k == IF q < p THEN q + 1 ELSE q
  <2>2. k \in 1 .. (NP - 1) /\ Partners(p)[k] = q
    BY <1>1, <1>2, <2>1
  <2>3. \A m \in 1 .. (NP - 1) : Partners(p)[m] = q => m = k
    BY <1>1, <1>2, <2>1
  <2> HIDE DEF k
  <2>. QED  BY <2>2, <2>3
<1>. QED  BY <1>3, <1>4
-----------------------------------------------------------------------------
(* Calls and steps.                                                        *)
SendRecv == [op : {"send", "recv"}, with : {-1} \cup Party, len : Nat]
EndSteps(p)  == [op : {"open", "flush", "sendSync"}, end : EndsOf(p)]
ReadSteps(p) == [op : {"recvData", "recvSync", "read", "readSync"}, end : EndsOf(p), len : Nat]

LEMMA ItemCases ==
  ASSUME NEW p, NEW c \in Item(p)
  PROVE  \/ c.op \in {"sync", "close", "flushEnds", "leave", "crash"}
         \/ c \in SendRecv /\ c.op \in {"send", "recv"} /\ c.with \in {-1} \cup Party /\ c.len \in Nat
         \/ c \in EndSteps(p) /\ c.op \in {"open", "flush", "sendSync"} /\ c.end \in EndsOf(p)
         \/ /\ c \in ReadSteps(p) /\ c.op \in {"recvData", "recvSync", "read", "readSync"}
            /\ c.end \in EndsOf(p) /\ c.len \in Nat
BY DEF Item, Call, StepsOf, Sync, Close, FlushEnds, Leave, Crash, SendRecv, EndSteps, ReadSteps

LEMMA CallOp ==
  ASSUME NEW p, NEW c \in Item(p)
  PROVE  c \in Call(p) <=> c.op \in CallOps
BY DEF Item, Call, CallOps, StepsOf, Sync, Close, FlushEnds, Leave, Crash

LEMMA RunLengths ==
  ASSUME NEW n \in Nat
  PROVE  /\ Ones(n) \in Seq({0, 1}) /\ Len(Ones(n)) = n
         /\ Zeros(n) \in Seq({0, 1}) /\ Len(Zeros(n)) = n
         /\ n = 0 => Ones(n) = <<>> /\ Zeros(n) = <<>>
         /\ n # 0 => /\ Ones(n) # <<>> /\ Head(Ones(n)) = 1 /\ Tail(Ones(n)) = Ones(n - 1)
                     /\ Zeros(n) # <<>> /\ Head(Zeros(n)) = 0 /\ Tail(Zeros(n)) = Zeros(n - 1)
<1>1. ASSUME NEW u \in {0, 1}
      PROVE  LET r(k) == [i \in 1 .. k |-> u] IN
             /\ r(n) \in Seq({0, 1}) /\ Len(r(n)) = n
             /\ n = 0 => r(n) = <<>>
             /\ n # 0 => r(n) # <<>> /\ Head(r(n)) = u /\ Tail(r(n)) = r(n - 1)
  <2>1. n # 0 => Tail([i \in 1 .. n |-> u]) = [i \in 1 .. (n - 1) |-> u]
    OBVIOUS
  <2>. QED  BY <2>1
<1>. QED  BY <1>1 DEF Ones, Zeros

LEMMA WritesSplit ==
  ASSUME NEW e \in End
  PROVE  Splits(WritesOf(e), Item(e[1]), {0, 1})
<1>1. ASSUME NEW c \in Item(e[1]) PROVE Written(c, e) \in Seq({0, 1})
  <2>1. c.op = "send" => c.len \in Nat
    BY ItemCases
  <2>2. <<>> \in Seq({0, 1}) /\ <<0>> \in Seq({0, 1})
    OBVIOUS
  <2>. QED  BY <2>1, <2>2, RunLengths DEF Written
<1>. QED  BY <1>1 DEF Splits, WritesOf

LEMMA ReadsSplit ==
  ASSUME NEW e \in End
  PROVE  Splits(ReadsOf(e), Item(e[1]), {0, 1})
<1>1. ASSUME NEW c \in Item(e[1]) PROVE ReadFrom(c, e) \in Seq({0, 1})
  <2>1. c.op \in {"recv", "recvData", "read", "recvSync", "readSync"} => c.len \in Nat
    BY ItemCases
  <2>2. <<>> \in Seq({0, 1}) /\ <<0>> \in Seq({0, 1})
    OBVIOUS
  <2>. QED  BY <2>1, <2>2, RunLengths DEF ReadFrom
<1>. QED  BY <1>1 DEF Splits, ReadsOf

LEMMA SyncSplit == ASSUME NEW p PROVE Splits(SyncOf(p), Item(p), {0})
<1>1. <<0>> \in Seq({0}) /\ <<>> \in Seq({0})
  OBVIOUS
<1>. QED  BY <1>1 DEF Splits, SyncOf

LEMMA MarkSplit == Splits(MarkOf, {0, 1}, {0})
BY DEF Splits, MarkOf
-----------------------------------------------------------------------------
(* What a sequence of calls and steps writes and reads, piece by piece.    *)
LEMMA OutFacts ==
  ASSUME NEW e \in End
  PROVE  /\ Out(<<>>, e) = <<>>
         /\ \A c \in Item(e[1]) : Out(<<c>>, e) = Written(c, e) /\ Written(c, e) \in Seq({0, 1})
         /\ \A s \in Seq(Item(e[1])) :
              /\ Out(s, e) \in Seq({0, 1})
              /\ s # <<>> => Out(s, e) = Written(Head(s), e) \o Out(Tail(s), e)
         /\ \A s, t \in Seq(Item(e[1])) : Out(s \o t, e) = Out(s, e) \o Out(t, e)
<1> DEFINE A == Item(e[1])
           f == WritesOf(e)
<1>1. Splits(f, A, {0, 1})
  BY WritesSplit
<1>2. \A c \in A : f[c] = Written(c, e) /\ f[c] \in Seq({0, 1})
  BY <1>1 DEF Splits, WritesOf
<1> HIDE DEF A, f
<1>3. FlatMap(f, <<>>) = <<>>
  BY FlatMapEmpty
<1>4. \A c \in A : FlatMap(f, <<c>>) = f[c]
  BY <1>1, FlatMapOne
<1>5. \A s, t \in Seq(A) : FlatMap(f, s \o t) = FlatMap(f, s) \o FlatMap(f, t)
  BY <1>1, FlatMapConcat
<1>6. \A s \in Seq(A) : FlatMap(f, s) \in Seq({0, 1})
  BY <1>1, FlatMapTyped
<1>7. \A s \in Seq(A) : s # <<>> => FlatMap(f, s) = f[Head(s)] \o FlatMap(f, Tail(s))
  BY <1>1, FlatMapHead
<1>8. \A s \in Seq(A) : s # <<>> => Head(s) \in A
  OBVIOUS
<1>9. \A s \in Seq(A) : s # <<>> => FlatMap(f, s) = Written(Head(s), e) \o FlatMap(f, Tail(s))
  BY <1>2, <1>7, <1>8
<1>. QED  BY <1>2, <1>3, <1>4, <1>5, <1>6, <1>9 DEF Out, f, A

LEMMA InFacts ==
  ASSUME NEW e \in End
  PROVE  /\ In(<<>>, e) = <<>>
         /\ \A c \in Item(e[1]) : In(<<c>>, e) = ReadFrom(c, e) /\ ReadFrom(c, e) \in Seq({0, 1})
         /\ \A s \in Seq(Item(e[1])) :
              /\ In(s, e) \in Seq({0, 1})
              /\ s # <<>> => In(s, e) = ReadFrom(Head(s), e) \o In(Tail(s), e)
         /\ \A s, t \in Seq(Item(e[1])) : In(s \o t, e) = In(s, e) \o In(t, e)
<1> DEFINE A == Item(e[1])
           f == ReadsOf(e)
<1>1. Splits(f, A, {0, 1})
  BY ReadsSplit
<1>2. \A c \in A : f[c] = ReadFrom(c, e) /\ f[c] \in Seq({0, 1})
  BY <1>1 DEF Splits, ReadsOf
<1> HIDE DEF A, f
<1>3. FlatMap(f, <<>>) = <<>>
  BY FlatMapEmpty
<1>4. \A c \in A : FlatMap(f, <<c>>) = f[c]
  BY <1>1, FlatMapOne
<1>5. \A s, t \in Seq(A) : FlatMap(f, s \o t) = FlatMap(f, s) \o FlatMap(f, t)
  BY <1>1, FlatMapConcat
<1>6. \A s \in Seq(A) : FlatMap(f, s) \in Seq({0, 1})
  BY <1>1, FlatMapTyped
<1>7. \A s \in Seq(A) : s # <<>> => FlatMap(f, s) = f[Head(s)] \o FlatMap(f, Tail(s))
  BY <1>1, FlatMapHead
<1>8. \A s \in Seq(A) : s # <<>> => Head(s) \in A
  OBVIOUS
<1>9. \A s \in Seq(A) : s # <<>> => FlatMap(f, s) = ReadFrom(Head(s), e) \o FlatMap(f, Tail(s))
  BY <1>2, <1>7, <1>8
<1>. QED  BY <1>2, <1>3, <1>4, <1>5, <1>6, <1>9 DEF In, f, A

LEMMA SyncsFacts ==
  ASSUME NEW p
  PROVE  /\ Syncs(p, <<>>) = 0
         /\ \A c \in Item(p) : Syncs(p, <<c>>) = IF c.op = "sync" THEN 1 ELSE 0
         /\ \A s \in Seq(Item(p)) : Syncs(p, s) \in Nat
         /\ \A s, t \in Seq(Item(p)) : Syncs(p, s \o t) = Syncs(p, s) + Syncs(p, t)
<1> DEFINE A == Item(p)
           f == SyncOf(p)
<1>1. Splits(f, A, {0})
  BY SyncSplit
<1>2. \A c \in A : f[c] = IF c.op = "sync" THEN <<0>> ELSE <<>>
  BY DEF SyncOf
<1> HIDE DEF A, f
<1>3. FlatMap(f, <<>>) = <<>>
  BY FlatMapEmpty
<1>4. \A c \in A : FlatMap(f, <<c>>) = f[c]
  BY <1>1, FlatMapOne
<1>5. \A s, t \in Seq(A) : FlatMap(f, s \o t) = FlatMap(f, s) \o FlatMap(f, t)
  BY <1>1, FlatMapConcat
<1>6. \A s \in Seq(A) : FlatMap(f, s) \in Seq({0})
  BY <1>1, FlatMapTyped
<1>7. \A a, b \in Seq({0}) : Len(a \o b) = Len(a) + Len(b) /\ Len(a) \in Nat
  OBVIOUS
<1>8. Len(<<0>>) = 1 /\ Len(<<>>) = 0
  OBVIOUS
<1>9. \A c \in A : Len(FlatMap(f, <<c>>)) = IF c.op = "sync" THEN 1 ELSE 0
  BY <1>2, <1>4, <1>8
<1>10. \A s, t \in Seq(A) : Len(FlatMap(f, s \o t)) = Len(FlatMap(f, s)) + Len(FlatMap(f, t))
  BY <1>5, <1>6, <1>7
<1>. QED  BY <1>3, <1>6, <1>7, <1>8, <1>9, <1>10 DEF Syncs, A, f

LEMMA MarksFacts ==
  /\ Marks(<<>>) = 0 /\ Marks(<<0>>) = 1
  /\ \A s \in Seq({0, 1}) : Marks(s) \in Nat
  /\ \A s, t \in Seq({0, 1}) : Marks(s \o t) = Marks(s) + Marks(t)
  /\ \A n \in Nat : Marks(Ones(n)) = 0
<1> DEFINE A == {0, 1}
           f == MarkOf
<1>1. Splits(f, A, {0})
  BY MarkSplit
<1>2. f[0] = <<0>> /\ f[1] = <<>>
  BY DEF MarkOf
<1>0. 0 \in A /\ 1 \in A
  OBVIOUS
<1> HIDE DEF A, f
<1>3. FlatMap(f, <<>>) = <<>>
  BY FlatMapEmpty
<1>4. FlatMap(f, <<0>>) = <<0>>
  BY <1>0, <1>1, <1>2, FlatMapOne
<1>5. \A s, t \in Seq(A) : FlatMap(f, s \o t) = FlatMap(f, s) \o FlatMap(f, t)
  BY <1>1, FlatMapConcat
<1>6. \A s \in Seq(A) : FlatMap(f, s) \in Seq({0})
  BY <1>1, FlatMapTyped
<1>7. \A a, b \in Seq({0}) : Len(a \o b) = Len(a) + Len(b) /\ Len(a) \in Nat
  OBVIOUS
<1>8. Len(<<0>>) = 1 /\ Len(<<>>) = 0
  OBVIOUS
<1>9. ASSUME NEW n \in Nat PROVE FlatMap(f, Ones(n)) = <<>>
  <2>1. Ones(n) \in Seq(A)
    BY RunLengths DEF A
  <2>2. \A i \in 1 .. Len(Ones(n)) : f[Ones(n)[i]] = <<>>
    BY <1>2 DEF Ones
  <2>. QED  BY <1>1, <2>1, <2>2, FlatMapNone
<1>10. \A s, t \in Seq(A) : Len(FlatMap(f, s \o t)) = Len(FlatMap(f, s)) + Len(FlatMap(f, t))
  BY <1>5, <1>6, <1>7
<1>. QED  BY <1>3, <1>4, <1>6, <1>7, <1>8, <1>9, <1>10 DEF Marks, A, f

LEMMA KindsFacts ==
  ASSUME NEW s \in Seq(Nat), NEW t \in Seq(Nat)
  PROVE  /\ Kinds(s) \in Seq({0, 1}) /\ Len(Kinds(s)) = Len(s)
         /\ Kinds(s \o t) = Kinds(s) \o Kinds(t)
         /\ s # <<>> => /\ Kinds(s) # <<>> /\ Head(Kinds(s)) = IF Head(s) = 0 THEN 0 ELSE 1
                        /\ Tail(Kinds(s)) = Kinds(Tail(s))
         /\ Kinds(<<0>>) = <<0>>
<1> DEFINE K(u) == IF u = SyncByte THEN 0 ELSE 1
<1>1. \A u \in Nat : K(u) \in {0, 1} /\ K(u) = IF u = 0 THEN 0 ELSE 1
  BY DEF SyncByte
<1>2. \A r \in Seq(Nat) : Kinds(r) = [i \in 1 .. Len(r) |-> K(r[i])]
  BY DEF Kinds
<1>3. Kinds(<<0>>) = <<0>>
  BY DEF Kinds, SyncByte
<1>4. s # <<>> => Head(s) = s[1] /\ Head(s) \in Nat /\ Tail(s) \in Seq(Nat)
  OBVIOUS
<1> HIDE DEF K
<1>5. Kinds(s) \in Seq({0, 1}) /\ Len(Kinds(s)) = Len(s)
  <2>1. Kinds(s) = [i \in 1 .. Len(s) |-> K(s[i])]
    BY <1>2
  <2>2. Len(s) \in Nat /\ \A i \in 1 .. Len(s) : K(s[i]) \in {0, 1}
    BY <1>1
  <2>. QED  BY <2>1, <2>2
<1>6. Kinds(s \o t) = Kinds(s) \o Kinds(t)
  <2>1. s \o t \in Seq(Nat)
    OBVIOUS
  <2>2. [i \in 1 .. Len(s \o t) |-> K((s \o t)[i])]
          = [i \in 1 .. Len(s) |-> K(s[i])] \o [i \in 1 .. Len(t) |-> K(t[i])]
    OBVIOUS
  <2>. QED  BY <1>2, <2>1, <2>2
<1>7. ASSUME s # <<>>
      PROVE  Kinds(s) # <<>> /\ Head(Kinds(s)) = K(s[1]) /\ Tail(Kinds(s)) = Kinds(Tail(s))
  <2>1. Kinds(Tail(s)) = [i \in 1 .. Len(Tail(s)) |-> K(Tail(s)[i])]
    BY <1>2, <1>4, <1>7
  <2>2. Len([i \in 1 .. Len(s) |-> K(s[i])]) = Len(s) /\ Len(s) \in Nat /\ Len(s) # 0
    BY <1>7
  <2>3. Head([i \in 1 .. Len(s) |-> K(s[i])]) = K(s[1])
    BY <1>7
  <2>4. Tail([i \in 1 .. Len(s) |-> K(s[i])]) = [i \in 1 .. Len(Tail(s)) |-> K(Tail(s)[i])]
    BY <1>7
  <2>5. Kinds(s) = [i \in 1 .. Len(s) |-> K(s[i])]
    BY <1>2
  <2>6. Kinds(s) # <<>>
    <3>1. Len(Kinds(s)) # 0
      BY <2>2, <2>5
    <3>2. Len(<<>>) = 0
      OBVIOUS
    <3>. QED  BY <3>1, <3>2
  <2>. QED  BY <2>1, <2>3, <2>4, <2>5, <2>6
<1>. QED  BY <1>1, <1>3, <1>4, <1>5, <1>6, <1>7

(* The units of data among what is in a buffer or on its way.              *)
DataOf == [u \in Nat |-> IF u = 0 THEN <<>> ELSE <<u>>]
LEMMA DataFacts ==
  /\ Data(<<>>) = <<>> /\ Data(<<0>>) = <<>>
  /\ \A u \in Nat \ {0} : Data(<<u>>) = <<u>>
  /\ \A s \in Seq(Nat) : Data(s) \in Seq(Nat)
  /\ \A s, t \in Seq(Nat) : Data(s \o t) = Data(s) \o Data(t)
  /\ \A s \in Seq(Nat \ {0}) : Data(s) = s
<1> DEFINE f == DataOf
<1>1. Splits(f, Nat, Nat)
  BY DEF Splits, DataOf
<1>2. \A u \in Nat : f[u] = IF u = 0 THEN <<>> ELSE <<u>>
  BY DEF DataOf
<1>3. ASSUME NEW s \in Seq(Nat) PROVE Data(s) = FlatMap(f, s)
  <2>1. [i \in 1 .. Len(s) |-> IF s[i] = SyncByte THEN <<>> ELSE <<s[i]>>]
          = [i \in 1 .. Len(s) |-> f[s[i]]]
    BY <1>2 DEF SyncByte
  <2>. QED  BY <2>1 DEF Data, FlatMap
<1> HIDE DEF f
<1>4. FlatMap(f, <<>>) = <<>>
  BY FlatMapEmpty
<1>5. \A u \in Nat : FlatMap(f, <<u>>) = f[u]
  BY <1>1, FlatMapOne
<1>6. \A s, t \in Seq(Nat) : FlatMap(f, s \o t) = FlatMap(f, s) \o FlatMap(f, t)
  BY <1>1, FlatMapConcat
<1>7. \A s \in Seq(Nat) : FlatMap(f, s) \in Seq(Nat)
  BY <1>1, FlatMapTyped
<1>8. ASSUME NEW s \in Seq(Nat \ {0}) PROVE FlatMap(f, s) = s
  <2>1. s \in Seq(Nat) /\ \A i \in 1 .. Len(s) : s[i] \in Nat \ {0}
    OBVIOUS
  <2>2. \A i \in 1 .. Len(s) : f[s[i]] = <<s[i]>>
    BY <1>2, <2>1
  <2>. QED  BY <1>1, <2>1, <2>2, FlatMapSame
<1>9. /\ <<>> \in Seq(Nat) /\ \A u \in Nat : <<u>> \in Seq(Nat)
      /\ \A s, t \in Seq(Nat) : s \o t \in Seq(Nat)
      /\ \A s \in Seq(Nat \ {0}) : s \in Seq(Nat)
  OBVIOUS
<1>10. Data(<<>>) = <<>> /\ Data(<<0>>) = <<>>
  <2>1. Data(<<>>) = <<>>
    BY <1>3, <1>4, <1>9
  <2>2. Data(<<0>>) = FlatMap(f, <<0>>) /\ FlatMap(f, <<0>>) = f[0]
    BY <1>3, <1>5, <1>9
  <2>. QED  BY <1>2, <2>1, <2>2
<1>11. ASSUME NEW u \in Nat \ {0} PROVE Data(<<u>>) = <<u>>
  <2>1. Data(<<u>>) = FlatMap(f, <<u>>) /\ FlatMap(f, <<u>>) = f[u]
    BY <1>3, <1>5, <1>9
  <2>. QED  BY <1>2, <2>1
<1>12. ASSUME NEW s \in Seq(Nat) PROVE Data(s) \in Seq(Nat)
  BY <1>3, <1>7
<1>13. ASSUME NEW s \in Seq(Nat), NEW t \in Seq(Nat) PROVE Data(s \o t) = Data(s) \o Data(t)
  <2>1. Data(s) = FlatMap(f, s) /\ Data(t) = FlatMap(f, t)
    BY <1>3
  <2>2. FlatMap(f, s \o t) = FlatMap(f, s) \o FlatMap(f, t)
    BY <1>6
  <2> DEFINE u == s \o t
  <2>3. u \in Seq(Nat)
    BY <1>9
  <2> HIDE DEF u
  <2>4. Data(u) = FlatMap(f, u)
    BY <1>3, <2>3
  <2>. QED  BY <2>1, <2>2, <2>4 DEF u
<1>14. ASSUME NEW s \in Seq(Nat \ {0}) PROVE Data(s) = s
  <2>1. s \in Seq(Nat)
    BY <1>9
  <2>2. Data(s) = FlatMap(f, s)
    BY <1>3, <2>1
  <2>. QED  BY <1>8, <2>2
<1>. QED  BY <1>10, <1>11, <1>12, <1>13, <1>14
-----------------------------------------------------------------------------
(* The steps of a sync: on every end one byte written and one byte read,   *)
(* and a flush behind what the client writes.                              *)
LEMMA OutIn23 ==
  ASSUME NEW e \in End, NEW a \in Item(e[1]), NEW b \in Item(e[1]), NEW c \in Item(e[1])
  PROVE  /\ Out(<<a, b>>, e) = Written(a, e) \o Written(b, e)
         /\ Out(<<a, b, c>>, e) = (Written(a, e) \o Written(b, e)) \o Written(c, e)
         /\ In(<<a, b>>, e) = ReadFrom(a, e) \o ReadFrom(b, e)
         /\ In(<<a, b, c>>, e) = (ReadFrom(a, e) \o ReadFrom(b, e)) \o ReadFrom(c, e)
<1> DEFINE A == Item(e[1])
           t == <<a>>
           u == <<b>>
           v == <<c>>
<1>1. a \in A /\ b \in A /\ c \in A /\ t \in Seq(A) /\ u \in Seq(A) /\ v \in Seq(A)
  OBVIOUS
<1>2. <<a, b>> = t \o u
  <2>1. <<a, b>> = Append(t, b)
    OBVIOUS
  <2>2. Append(t, b) = t \o <<b>>
    BY <1>1, AppendAsConcat
  <2>. QED  BY <2>1, <2>2
<1>3. <<a, b, c>> = (t \o u) \o v
  <2>1. <<a, b, c>> = Append(<<a, b>>, c) /\ <<a, b>> \in Seq(A)
    OBVIOUS
  <2>2. Append(<<a, b>>, c) = <<a, b>> \o <<c>>
    BY <1>1, <2>1, AppendAsConcat
  <2>. QED  BY <1>2, <2>1, <2>2
<1>4. /\ Out(t, e) = Written(a, e) /\ Out(u, e) = Written(b, e) /\ Out(v, e) = Written(c, e)
      /\ In(t, e) = ReadFrom(a, e) /\ In(u, e) = ReadFrom(b, e) /\ In(v, e) = ReadFrom(c, e)
  BY OutFacts, InFacts
<1> HIDE DEF t, u, v
<1>5. t \o u \in Seq(A)
  BY <1>1
<1> HIDE DEF A
<1>6. /\ \A s, r \in Seq(A) : Out(s \o r, e) = Out(s, e) \o Out(r, e)
      /\ \A s, r \in Seq(A) : In(s \o r, e) = In(s, e) \o In(r, e)
  BY OutFacts, InFacts DEF A
<1>7. /\ Out(t \o u, e) = Out(t, e) \o Out(u, e)
      /\ Out((t \o u) \o v, e) = Out(t \o u, e) \o Out(v, e)
      /\ In(t \o u, e) = In(t, e) \o In(u, e)
      /\ In((t \o u) \o v, e) = In(t \o u, e) \o In(v, e)
  BY <1>1, <1>5, <1>6
<1>. QED  BY <1>2, <1>3, <1>4, <1>7

SyncOps == {"sendSync", "recvSync", "flush"}

LEMMA OutIn2 ==
  ASSUME NEW e \in End, NEW a \in Item(e[1]), NEW b \in Item(e[1])
  PROVE  /\ Out(<<a, b>>, e) = Written(a, e) \o Written(b, e)
         /\ In(<<a, b>>, e) = ReadFrom(a, e) \o ReadFrom(b, e)
BY OutIn23

LEMMA SyncEndFacts ==
  ASSUME NEW p \in Party, NEW e \in EndsOf(p)
  PROVE  /\ SyncEnd(e) \in Seq(StepsOf(p)) /\ SyncEnd(e) \in Seq(Item(p))
         /\ \A i \in 1 .. Len(SyncEnd(e)) : SyncEnd(e)[i].op \in SyncOps
         /\ ~ IsServer(e) => /\ Len(SyncEnd(e)) = 3 /\ SyncEnd(e)[1].op = "recvSync"
                             /\ SyncEnd(e)[2] = Step("sendSync", e)
                             /\ SyncEnd(e)[3] = Step("flush", e)
         /\ IsServer(e) => /\ Len(SyncEnd(e)) = 2 /\ SyncEnd(e)[1] = Step("sendSync", e)
                           /\ SyncEnd(e)[2].op = "recvSync"
         /\ Out(SyncEnd(e), e) = <<0>> /\ In(SyncEnd(e), e) = <<0>>
         /\ \A x \in EndsOf(p) \ {e} : Out(SyncEnd(e), x) = <<>> /\ In(SyncEnd(e), x) = <<>>
<1> DEFINE a == Step("sendSync", e)
           r == Read("recvSync", e, 1)
           f == Step("flush", e)
<1>1. /\ a \in StepsOf(p) /\ r \in StepsOf(p) /\ f \in StepsOf(p)
      /\ a.op = "sendSync" /\ r.op = "recvSync" /\ f.op = "flush"
      /\ a.end = e /\ r.end = e /\ f.end = e /\ r.len = 1
  BY DEF StepsOf, Step, Read
<1>2. a \in Item(p) /\ r \in Item(p) /\ f \in Item(p)
  BY <1>1 DEF Item
<1>3. e \in End /\ e[1] = p /\ \A x \in EndsOf(p) : x \in End /\ x[1] = p
  BY OwnEnd
<1>4. Zeros(1) = <<0>>
  BY DEF Zeros
<1>5. /\ Written(a, e) = <<0>> /\ Written(r, e) = <<>> /\ Written(f, e) = <<>>
      /\ ReadFrom(a, e) = <<>> /\ ReadFrom(r, e) = <<0>> /\ ReadFrom(f, e) = <<>>
  BY <1>1, <1>4 DEF Written, ReadFrom
<1>6. \A x \in EndsOf(p) \ {e} :
        /\ Written(a, x) = <<>> /\ Written(r, x) = <<>> /\ Written(f, x) = <<>>
        /\ ReadFrom(a, x) = <<>> /\ ReadFrom(r, x) = <<>> /\ ReadFrom(f, x) = <<>>
  BY <1>1 DEF Written, ReadFrom
<1>7. IsServer(e) => SyncEnd(e) = <<a, r>>
  BY DEF SyncEnd
<1>8. ~ IsServer(e) => SyncEnd(e) = <<r, a, f>>
  BY DEF SyncEnd
<1>9. a = Step("sendSync", e) /\ f = Step("flush", e)
  OBVIOUS
<1> HIDE DEF a, r, f
<1>10. ASSUME NEW x \in EndsOf(p)
       PROVE  /\ Out(<<a, r>>, x) = Written(a, x) \o Written(r, x)
              /\ Out(<<r, a, f>>, x) = (Written(r, x) \o Written(a, x)) \o Written(f, x)
              /\ In(<<a, r>>, x) = ReadFrom(a, x) \o ReadFrom(r, x)
              /\ In(<<r, a, f>>, x) = (ReadFrom(r, x) \o ReadFrom(a, x)) \o ReadFrom(f, x)
  <2>1. x \in End /\ a \in Item(x[1]) /\ r \in Item(x[1]) /\ f \in Item(x[1])
    BY <1>2, <1>3
  <2>. QED  BY <2>1, OutIn23
<1>11. <<>> \o <<0>> = <<0>> /\ <<0>> \o <<>> = <<0>> /\ <<>> \o <<>> = <<>>
  OBVIOUS
<1>12. /\ Out(<<a, r>>, e) = <<0>> /\ In(<<a, r>>, e) = <<0>>
       /\ Out(<<r, a, f>>, e) = <<0>> /\ In(<<r, a, f>>, e) = <<0>>
  BY <1>5, <1>10, <1>11
<1>13. \A x \in EndsOf(p) \ {e} :
         /\ Out(<<a, r>>, x) = <<>> /\ In(<<a, r>>, x) = <<>>
         /\ Out(<<r, a, f>>, x) = <<>> /\ In(<<r, a, f>>, x) = <<>>
  BY ZenonT(40), <1>6, <1>10, <1>11
<1>14. CASE IsServer(e)
  <2>1. /\ SyncEnd(e) \in Seq(StepsOf(p)) /\ SyncEnd(e) \in Seq(Item(p))
        /\ Len(SyncEnd(e)) = 2 /\ SyncEnd(e)[1] = a /\ SyncEnd(e)[2] = r
    <3>1. <<a, r>> \in Seq(StepsOf(p)) /\ <<a, r>> \in Seq(Item(p)) /\ Len(<<a, r>>) = 2
      BY <1>1, <1>2, Tuples
    <3>2. <<a, r>>[1] = a /\ <<a, r>>[2] = r
      BY <1>1, Tuples
    <3>. QED  BY <1>7, <1>14, <3>1, <3>2
  <2>2. \A i \in 1 .. Len(SyncEnd(e)) : SyncEnd(e)[i].op \in SyncOps
    <3>1. \A i \in 1 .. 2 : i = 1 \/ i = 2
      OBVIOUS
    <3>. QED  BY <1>1, <2>1, <3>1 DEF SyncOps
  <2>. QED  BY <1>1, <1>7, <1>9, <1>12, <1>13, <1>14, <2>1, <2>2
<1>15. CASE ~ IsServer(e)
  <2>1. /\ SyncEnd(e) \in Seq(StepsOf(p)) /\ SyncEnd(e) \in Seq(Item(p))
        /\ Len(SyncEnd(e)) = 3 /\ SyncEnd(e)[1] = r /\ SyncEnd(e)[2] = a /\ SyncEnd(e)[3] = f
    <3>1. <<r, a, f>> \in Seq(StepsOf(p)) /\ <<r, a, f>> \in Seq(Item(p)) /\ Len(<<r, a, f>>) = 3
      BY <1>1, <1>2, Tuples
    <3>2. <<r, a, f>>[1] = r /\ <<r, a, f>>[2] = a /\ <<r, a, f>>[3] = f
      BY <1>1, Tuples
    <3>. QED  BY <1>8, <1>15, <3>1, <3>2
  <2>2. \A i \in 1 .. Len(SyncEnd(e)) : SyncEnd(e)[i].op \in SyncOps
    <3>1. \A i \in 1 .. 3 : i = 1 \/ i = 2 \/ i = 3
      OBVIOUS
    <3>. QED  BY <1>1, <2>1, <3>1 DEF SyncOps
  <2>. QED  BY <1>1, <1>8, <1>9, <1>12, <1>13, <1>15, <2>1, <2>2
<1>. QED  BY <1>14, <1>15

(* Steps that follow each other keep their flushes.                        *)
LEMMA FlushedConcat ==
  ASSUME NEW p, NEW A, NEW s \in Seq(A), NEW t \in Seq(A), FlushedLater(p, s), FlushedLater(p, t)
  PROVE  FlushedLater(p, s \o t)
<1> DEFINE u == s \o t
<1>1. /\ Len(s) \in Nat /\ Len(t) \in Nat
      /\ \A i \in 1 .. Len(s) : i \in 1 .. Len(u) /\ u[i] = s[i]
      /\ \A i \in 1 .. Len(t) : Len(s) + i \in 1 .. Len(u) /\ u[Len(s) + i] = t[i]
      /\ \A i \in 1 .. Len(u) : i \in 1 .. Len(s) \/ \E k \in 1 .. Len(t) : i = Len(s) + k
  BY ConcatFacts
<1> HIDE DEF u
<1>2. ASSUME NEW i \in 1 .. Len(u), u[i].op = "sendSync", u[i].end = SendEnd(p, u[i].end[2])
      PROVE  \E j \in 1 .. Len(u) : i < j /\ u[j] = Step("flush", u[i].end)
  <2>1. CASE i \in 1 .. Len(s)
    <3>1. u[i] = s[i]
      BY <1>1, <2>1
    <3>2. PICK j \in 1 .. Len(s) : i < j /\ s[j] = Step("flush", s[i].end)
      BY <1>2, <2>1, <3>1 DEF FlushedLater
    <3>3. j \in 1 .. Len(u) /\ u[j] = s[j]
      BY <1>1
    <3>. QED  BY <3>1, <3>2, <3>3
  <2>2. ASSUME NEW k \in 1 .. Len(t), i = Len(s) + k
        PROVE  \E j \in 1 .. Len(u) : i < j /\ u[j] = Step("flush", u[i].end)
    <3>1. u[i] = t[k]
      BY <1>1, <2>2
    <3>2. PICK j \in 1 .. Len(t) : k < j /\ t[j] = Step("flush", t[k].end)
      BY <1>2, <3>1 DEF FlushedLater
    <3>3. Len(s) + j \in 1 .. Len(u) /\ u[Len(s) + j] = t[j]
      BY <1>1
    <3>4. i < Len(s) + j
      BY <1>1, <2>2, <3>2
    <3>. QED  BY <3>1, <3>2, <3>3, <3>4
  <2>. QED  BY <1>1, <2>1, <2>2
<1>3. FlushedLater(p, u)
  BY <1>2 DEF FlushedLater
<1>. QED  BY <1>3 DEF u

LEMMA SendIsClient ==
  ASSUME NEW p \in Party, NEW e \in EndsOf(p), e = SendEnd(p, e[2])
  PROVE  ~ IsServer(e)
<1>1. e[2] \in Party \ {p}
  BY OwnEnd
<1>2. <<p, e[2]>> \in Pair
  BY <1>1 DEF Pair
<1>3. <<p, e[2]>>[1] = p /\ <<p, e[2]>>[2] = e[2]
  OBVIOUS
<1>4. ~ IsServer(SendEnd(p, e[2]))
  BY <1>2, <1>3, PairFacts
<1>. QED  BY <1>4

LEMMA SyncEndFlushed ==
  ASSUME NEW p \in Party, NEW e \in EndsOf(p)
  PROVE  FlushedLater(p, SyncEnd(e))
<1> DEFINE s == SyncEnd(e)
<1> SUFFICES ASSUME NEW i \in 1 .. Len(s), s[i].op = "sendSync", s[i].end = SendEnd(p, s[i].end[2])
             PROVE  \E j \in 1 .. Len(s) : i < j /\ s[j] = Step("flush", s[i].end)
  BY DEF FlushedLater
<1>1. Step("sendSync", e).op = "sendSync" /\ Step("sendSync", e).end = e /\ Step("flush", e).op = "flush"
  BY DEF Step
<1>2. CASE IsServer(e)
  <2>1. /\ Len(s) = 2 /\ s[1] = Step("sendSync", e) /\ s[2].op = "recvSync"
    BY <1>2, SyncEndFacts
  <2>2. i = 1 \/ i = 2
    BY <2>1
  <2>3. i = 1 /\ s[i].end = e
    BY <1>1, <2>1, <2>2
  <2>. QED  BY <1>2, <2>3, SendIsClient
<1>3. CASE ~ IsServer(e)
  <2>1. /\ Len(s) = 3 /\ s[1].op = "recvSync" /\ s[2] = Step("sendSync", e) /\ s[3] = Step("flush", e)
    BY <1>3, SyncEndFacts
  <2>2. i = 1 \/ i = 2 \/ i = 3
    BY <2>1
  <2>3. i = 2 /\ s[i].end = e
    BY <1>1, <2>1, <2>2
  <2>4. 3 \in 1 .. Len(s) /\ i < 3
    BY <2>1, <2>3
  <2>. QED  BY <2>1, <2>3, <2>4
<1>. QED  BY <1>2, <1>3

LEMMA SyncPairFacts ==
  ASSUME NEW p \in Party, NEW q \in Party \ {p}
  PROVE  /\ SyncPair(p, q) \in Seq(StepsOf(p)) /\ SyncPair(p, q) \in Seq(Item(p))
         /\ \A i \in 1 .. Len(SyncPair(p, q)) : SyncPair(p, q)[i].op \in SyncOps
         /\ FlushedLater(p, SyncPair(p, q))
         /\ \E i \in 1 .. Len(SyncPair(p, q)) : SyncPair(p, q)[i] = Step("flush", SendEnd(p, q))
         /\ \A x \in EndsOf(p) :
              /\ Out(SyncPair(p, q), x) = IF x[2] = q THEN <<0>> ELSE <<>>
              /\ In(SyncPair(p, q), x) = IF x[2] = q THEN <<0>> ELSE <<>>
<1> DEFINE a == <<p, q, "ios">>
           b == <<p, q, "ios2">>
           s == SyncEnd(a)
           t == SyncEnd(b)
           u == SyncPair(p, q)
<1>1. a \in EndsOf(p) /\ b \in EndsOf(p) /\ a # b /\ a[2] = q /\ b[2] = q
  BY OpenEnds
<1>2. \A x \in EndsOf(p) : x[2] = q => x = a \/ x = b
  BY ZenonT(40), OwnEnd, EndFacts
<1>3. u = s \o t
  BY DEF SyncPair
<1>10. SendEnd(p, q) = a \/ SendEnd(p, q) = b
  BY DEF SendEnd
<1> HIDE DEF a, b, u
<1>4. /\ s \in Seq(StepsOf(p)) /\ s \in Seq(Item(p)) /\ t \in Seq(StepsOf(p)) /\ t \in Seq(Item(p))
      /\ \A i \in 1 .. Len(s) : s[i].op \in SyncOps
      /\ \A i \in 1 .. Len(t) : t[i].op \in SyncOps
  BY <1>1, SyncEndFacts
<1>5. FlushedLater(p, s) /\ FlushedLater(p, t)
  BY <1>1, SyncEndFlushed
<1>6. /\ Out(s, a) = <<0>> /\ In(s, a) = <<0>> /\ Out(t, b) = <<0>> /\ In(t, b) = <<0>>
      /\ \A x \in EndsOf(p) \ {a} : Out(s, x) = <<>> /\ In(s, x) = <<>>
      /\ \A x \in EndsOf(p) \ {b} : Out(t, x) = <<>> /\ In(t, x) = <<>>
  BY <1>1, SyncEndFacts
<1>7. (~ IsServer(a) => Len(s) = 3 /\ s[3] = Step("flush", a)) /\ (~ IsServer(b) => Len(t) = 3 /\ t[3] = Step("flush", b))
  BY <1>1, SyncEndFacts
<1> HIDE DEF s, t
<1>8. u \in Seq(StepsOf(p)) /\ u \in Seq(Item(p))
  BY <1>3, <1>4
<1>9. FlushedLater(p, u)
  BY <1>3, <1>4, <1>5, FlushedConcat
<1>11. /\ \A i \in 1 .. Len(s) : i \in 1 .. Len(u) /\ u[i] = s[i]
       /\ \A i \in 1 .. Len(t) : Len(s) + i \in 1 .. Len(u) /\ u[Len(s) + i] = t[i]
       /\ \A i \in 1 .. Len(u) : i \in 1 .. Len(s) \/ \E k \in 1 .. Len(t) : i = Len(s) + k
  BY <1>3, <1>4, ConcatFacts
<1>12. \A i \in 1 .. Len(u) : u[i].op \in SyncOps
  BY <1>4, <1>11
<1>13. \E i \in 1 .. Len(u) : u[i] = Step("flush", SendEnd(p, q))
  <2>1. ~ IsServer(SendEnd(p, q))
    <3>1. <<p, q>> \in Pair /\ <<p, q>>[1] = p /\ <<p, q>>[2] = q
      BY OpenEnds
    <3>. QED  BY <3>1, PairFacts
  <2>2. CASE SendEnd(p, q) = a
    <3>0. 3 \in 1 .. Len(s)
      BY <1>7, <2>1, <2>2
    <3>1. 3 \in 1 .. Len(u) /\ u[3] = s[3]
      BY <1>11, <3>0
    <3>. QED  BY <1>7, <2>1, <2>2, <3>1
  <2>3. CASE SendEnd(p, q) = b
    <3>0. 3 \in 1 .. Len(t)
      BY <1>7, <2>1, <2>3
    <3>1. Len(s) + 3 \in 1 .. Len(u) /\ u[Len(s) + 3] = t[3]
      BY <1>11, <3>0
    <3>. QED  BY <1>7, <2>1, <2>3, <3>1
  <2>. QED  BY <1>10, <2>2, <2>3
<1>14. ASSUME NEW x \in EndsOf(p)
       PROVE  /\ Out(u, x) = IF x[2] = q THEN <<0>> ELSE <<>>
              /\ In(u, x) = IF x[2] = q THEN <<0>> ELSE <<>>
  <2>1. x \in End /\ x[1] = p
    BY OwnEnd
  <2>2. Out(u, x) = Out(s, x) \o Out(t, x) /\ In(u, x) = In(s, x) \o In(t, x)
    BY <1>3, <1>4, <2>1, OutFacts, InFacts
  <2>3. <<>> \o <<0>> = <<0>> /\ <<0>> \o <<>> = <<0>> /\ <<>> \o <<>> = <<>>
    OBVIOUS
  <2>4. CASE x[2] = q
    <3>1. CASE x = a
      BY <1>1, <1>6, <2>2, <2>3, <2>4, <3>1
    <3>2. CASE x = b
      BY <1>1, <1>6, <2>2, <2>3, <2>4, <3>2
    <3>. QED  BY <1>2, <2>4, <3>1, <3>2
  <2>5. CASE x[2] # q
    <3>1. x # a /\ x # b
      BY <1>1, <2>5
    <3>. QED  BY <1>6, <2>2, <2>3, <2>5, <3>1
  <2>. QED  BY <2>4, <2>5
<1>. QED  BY <1>8, <1>9, <1>12, <1>13, <1>14 DEF u

LEMMA SyncStepsFacts ==
  ASSUME NEW p \in Party
  PROVE  /\ SyncSteps(p) \in Seq(StepsOf(p)) /\ SyncSteps(p) \in Seq(Item(p))
         /\ \A i \in 1 .. Len(SyncSteps(p)) : SyncSteps(p)[i].op \in SyncOps
         /\ FlushedLater(p, SyncSteps(p))
         /\ \A q \in Party \ {p} : \E i \in 1 .. Len(SyncSteps(p)) : SyncSteps(p)[i] = Step("flush", SendEnd(p, q))
         /\ \A x \in EndsOf(p) : Out(SyncSteps(p), x) = <<0>> /\ In(SyncSteps(p), x) = <<0>>
<1> DEFINE n == NP - 1
           ss == [k \in 1 .. n |-> SyncPair(p, Partners(p)[k])]
           F == FlattenSeq(ss)
<1>0. n \in Nat
  BY NetAssumption
<1>1. SyncSteps(p) = F
  BY DEF SyncSteps
<1>2. \A k \in 1 .. n : Partners(p)[k] \in Party \ {p} /\ ss[k] = SyncPair(p, Partners(p)[k])
  BY PartnersRight
<1>3. Len(ss) = n
  BY <1>0
<1>4. \A k \in 1 .. n : /\ ss[k] \in Seq(StepsOf(p)) /\ ss[k] \in Seq(Item(p))
                        /\ \A i \in 1 .. Len(ss[k]) : ss[k][i].op \in SyncOps
                        /\ FlushedLater(p, ss[k])
  BY <1>2, SyncPairFacts
<1>5. ss \in Seq(Seq(StepsOf(p))) /\ ss \in Seq(Seq(Item(p)))
  BY <1>0, <1>4
<1> HIDE DEF ss, F
<1>6. F \in Seq(StepsOf(p)) /\ F \in Seq(Item(p))
  BY <1>5, FlattenTyped DEF F
<1>7. /\ \A k \in 1 .. n : \E o : Block(F, o, ss[k])
      /\ \A i \in 1 .. Len(F) : \E k \in 1 .. n : \E o : Block(F, o, ss[k]) /\ (i - o) \in 1 .. Len(ss[k])
  BY <1>3, <1>5, FlattenBlocks DEF F
<1>8. ASSUME NEW i \in 1 .. Len(F)
      PROVE  \E k \in 1 .. n : \E j, o : /\ Block(F, o, ss[k]) /\ j \in 1 .. Len(ss[k]) /\ i = o + j
                                         /\ F[i] = ss[k][j]
  <2>1. PICK k \in 1 .. n : \E o : Block(F, o, ss[k]) /\ (i - o) \in 1 .. Len(ss[k])
    BY <1>7
  <2>2. PICK o : Block(F, o, ss[k]) /\ (i - o) \in 1 .. Len(ss[k])
    BY <2>1
  <2>3. o \in Nat /\ i = o + (i - o)
    BY <2>2 DEF Block
  <2>4. F[i] = ss[k][i - o]
    BY <2>2, <2>3 DEF Block
  <2>. QED  BY <2>2, <2>3, <2>4
<1>9. \A i \in 1 .. Len(F) : F[i].op \in SyncOps
  BY <1>4, <1>8
<1>10. ASSUME NEW i \in 1 .. Len(F), F[i].op = "sendSync", F[i].end = SendEnd(p, F[i].end[2])
       PROVE  \E j \in 1 .. Len(F) : i < j /\ F[j] = Step("flush", F[i].end)
  <2>0. PICK k \in 1 .. n :
          \E j, o : Block(F, o, ss[k]) /\ j \in 1 .. Len(ss[k]) /\ i = o + j /\ F[i] = ss[k][j]
    BY <1>8
  <2>1. PICK j, o : Block(F, o, ss[k]) /\ j \in 1 .. Len(ss[k]) /\ i = o + j /\ F[i] = ss[k][j]
    BY <2>0
  <2>2. PICK m \in 1 .. Len(ss[k]) : j < m /\ ss[k][m] = Step("flush", ss[k][j].end)
    BY <1>4, <1>10, <2>1 DEF FlushedLater
  <2>3. o \in Nat /\ o + Len(ss[k]) <= Len(F) /\ F[o + m] = ss[k][m]
    BY <2>1 DEF Block
  <2>4. Len(ss[k]) \in Nat /\ Len(F) \in Nat
    BY <1>4, <1>6
  <2>5. o + m \in 1 .. Len(F) /\ i < o + m
    BY <2>1, <2>2, <2>3, <2>4
  <2>. QED  BY <2>1, <2>2, <2>3, <2>5
<1>11. FlushedLater(p, F)
  BY <1>10 DEF FlushedLater
<1>12. ASSUME NEW q \in Party \ {p} PROVE \E i \in 1 .. Len(F) : F[i] = Step("flush", SendEnd(p, q))
  <2>1. PICK k \in 1 .. n : Partners(p)[k] = q
    BY PartnersRight
  <2>2. PICK m \in 1 .. Len(ss[k]) : ss[k][m] = Step("flush", SendEnd(p, q))
    BY <1>2, <2>1, SyncPairFacts
  <2>3. PICK o : Block(F, o, ss[k])
    BY <1>7
  <2>4. o \in Nat /\ o + Len(ss[k]) <= Len(F) /\ F[o + m] = ss[k][m]
    BY <2>3 DEF Block
  <2>5. Len(ss[k]) \in Nat /\ Len(F) \in Nat
    BY <1>4, <1>6
  <2>6. o + m \in 1 .. Len(F)
    BY <2>4, <2>5
  <2>. QED  BY <2>2, <2>4, <2>6
<1>13. ASSUME NEW x \in EndsOf(p) PROVE Out(F, x) = <<0>> /\ In(F, x) = <<0>>
  <2>1. x \in End /\ x[1] = p /\ x[2] \in Party \ {p}
    BY OwnEnd
  <2>2. PICK k \in 1 .. n : Partners(p)[k] = x[2] /\ \A m \in 1 .. n : Partners(p)[m] = x[2] => m = k
    BY <2>1, PartnersRight
  <2>3. \A m \in 1 .. n : /\ Out(ss[m], x) = IF m = k THEN <<0>> ELSE <<>>
                          /\ In(ss[m], x) = IF m = k THEN <<0>> ELSE <<>>
    BY <1>2, <2>2, SyncPairFacts
  <2> DEFINE oo == [m \in 1 .. Len(ss) |-> Out(ss[m], x)]
             ii == [m \in 1 .. Len(ss) |-> In(ss[m], x)]
  <2>4. oo \in Seq(Seq({0})) /\ ii \in Seq(Seq({0})) /\ Len(oo) = n /\ Len(ii) = n
    <3>1. <<0>> \in Seq({0}) /\ <<>> \in Seq({0})
      OBVIOUS
    <3>2. \A m \in 1 .. n : Out(ss[m], x) \in Seq({0}) /\ In(ss[m], x) \in Seq({0})
      BY <2>3, <3>1
    <3> DEFINE S == Seq({0})
    <3>3. \A m \in 1 .. n : Out(ss[m], x) \in S /\ In(ss[m], x) \in S
      BY <3>2
    <3> HIDE DEF S
    <3>4. oo \in [1 .. n -> S] /\ ii \in [1 .. n -> S]
      BY <1>3, <3>3
    <3> HIDE DEF oo, ii
    <3>. QED  BY <1>0, <3>4, FunIsSeq DEF S
  <2>5. \A m \in 1 .. n : /\ oo[m] = IF m = k THEN <<0>> ELSE <<>>
                          /\ ii[m] = IF m = k THEN <<0>> ELSE <<>>
    BY <1>3, <2>3
  <2>6. Out(F, x) = FlattenSeq(oo)
    BY <1>5, <2>1, WritesSplit, FlatMapFlatten DEF Out, F
  <2>7. In(F, x) = FlattenSeq(ii)
    BY <1>5, <2>1, ReadsSplit, FlatMapFlatten DEF In, F
  <2> HIDE DEF oo, ii
  <2>8. FlattenSeq(oo) = oo[k] /\ FlattenSeq(ii) = ii[k]
    BY <2>4, <2>5, FlattenSingle
  <2>. QED  BY <2>5, <2>6, <2>7, <2>8
<1>. QED  BY <1>1, <1>6, <1>9, <1>11, <1>12, <1>13

(* Opening and flushing all ends writes nothing and reads nothing.         *)
LEMMA AllEndsFacts ==
  ASSUME NEW p \in Party
  PROVE  /\ OpenAll(p) \in Seq(StepsOf(p)) /\ FlushAll(p) \in Seq(StepsOf(p))
         /\ \A i \in 1 .. Len(OpenAll(p)) : OpenAll(p)[i].op = "open"
         /\ \A i \in 1 .. Len(FlushAll(p)) : FlushAll(p)[i].op = "flush"
<1> DEFINE n == NP - 1
           a(k) == <<p, Partners(p)[k], "ios">>
           b(k) == <<p, Partners(p)[k], "ios2">>
           oo == [k \in 1 .. n |-> <<Step("open", a(k)), Step("open", b(k))>>]
           ff == [k \in 1 .. n |-> <<Step("flush", a(k)), Step("flush", b(k))>>]
           O == {x \in StepsOf(p) : x.op = "open"}
           U == {x \in StepsOf(p) : x.op = "flush"}
<1>0. n \in Nat
  BY NetAssumption
<1>1. \A k \in 1 .. n : a(k) \in EndsOf(p) /\ b(k) \in EndsOf(p)
  BY PartnersRight, OpenEnds
<1>2. \A e \in EndsOf(p) : Step("open", e) \in O /\ Step("flush", e) \in U
  BY DEF Step, StepsOf
<1> HIDE DEF O, U
<1>3. ASSUME NEW k \in 1 .. n
      PROVE  <<Step("open", a(k)), Step("open", b(k))>> \in Seq(O) /\ <<Step("flush", a(k)), Step("flush", b(k))>> \in Seq(U)
  <2>1. Step("open", a(k)) \in O /\ Step("open", b(k)) \in O /\ Step("flush", a(k)) \in U /\ Step("flush", b(k)) \in U
    BY <1>1, <1>2
  <2>. QED  BY <2>1, Tuples
<1>4. oo \in Seq(Seq(O)) /\ ff \in Seq(Seq(U))
  <2>1. oo \in [1 .. n -> Seq(O)] /\ ff \in [1 .. n -> Seq(U)]
    BY <1>3
  <2> HIDE DEF oo, ff
  <2>. QED  BY <1>0, <2>1, FunIsSeq
<1>5. OpenAll(p) = FlattenSeq(oo) /\ FlushAll(p) = FlattenSeq(ff)
  BY DEF OpenAll, OpenPair, FlushAll
<1> HIDE DEF oo, ff
<1>6. OpenAll(p) \in Seq(O) /\ FlushAll(p) \in Seq(U)
  BY <1>4, <1>5, FlattenTyped
<1>. QED  BY <1>6 DEF O, U
-----------------------------------------------------------------------------
(* The shape of what is left to do is kept: joining and taking away.       *)
Shape(p, t) == CallsLast(t) /\ ReadsRight(p, t) /\ FlushedLater(p, t)
Plain(t) == \A i \in 1 .. Len(t) : t[i].op \notin CallOps \cup {"leave"}

LEMMA StepOp ==
  ASSUME NEW p, NEW c \in StepsOf(p)
  PROVE  c \in Item(p) /\ c.op \notin CallOps
BY CallOp DEF Item, StepsOf, CallOps, Leave, Crash

LEMMA TailFacts ==
  ASSUME NEW A, NEW t \in Seq(A), t # <<>>
  PROVE  /\ Tail(t) \in Seq(A) /\ t[1] \in A /\ Head(t) = t[1]
         /\ Len(t) \in Nat /\ Len(Tail(t)) \in Nat /\ Len(t) = Len(Tail(t)) + 1 /\ 1 \in 1 .. Len(t)
         /\ \A i \in 1 .. Len(Tail(t)) : i + 1 \in 1 .. Len(t) /\ Tail(t)[i] = t[i + 1]
         /\ \A i \in 1 .. Len(t) : i = 1 \/ \E k \in 1 .. Len(Tail(t)) : i = k + 1
<1>1. /\ Tail(t) \in Seq(A) /\ t[1] \in A /\ Head(t) = t[1]
      /\ Len(t) \in Nat /\ Len(Tail(t)) \in Nat /\ Len(t) = Len(Tail(t)) + 1 /\ 1 \in 1 .. Len(t)
      /\ \A i \in 1 .. Len(Tail(t)) : i + 1 \in 1 .. Len(t) /\ Tail(t)[i] = t[i + 1]
  OBVIOUS
<1> DEFINE n == Len(t)
           m == Len(Tail(t))
<1>2. n \in Nat /\ m \in Nat /\ n = m + 1
  BY <1>1
<1> HIDE DEF n, m
<1>3. ASSUME NEW i \in 1 .. n, i # 1 PROVE \E k \in 1 .. m : i = k + 1
  <2>1. i - 1 \in 1 .. m /\ i = (i - 1) + 1
    BY <1>2, <1>3
  <2>. QED  BY <2>1
<1>. QED  BY <1>1, <1>3 DEF n, m

LEMMA TailShape ==
  ASSUME NEW p, NEW A, NEW t \in Seq(A), t # <<>>, Shape(p, t)
  PROVE  /\ Shape(p, Tail(t))
         /\ t[1].op \in CallOps \cup {"leave"} => \A i \in 1 .. Len(Tail(t)) : Tail(t)[i].op \in CallOps
<1> DEFINE r == Tail(t)
<1>1. /\ Len(t) \in Nat /\ Len(r) \in Nat /\ Len(t) = Len(r) + 1 /\ 1 \in 1 .. Len(t)
      /\ \A i \in 1 .. Len(r) : i + 1 \in 1 .. Len(t) /\ r[i] = t[i + 1]
      /\ \A i \in 1 .. Len(t) : i = 1 \/ \E k \in 1 .. Len(r) : i = k + 1
  BY TailFacts
<1> HIDE DEF r
<1>2. CallsLast(r)
  <2> SUFFICES ASSUME NEW i \in 1 .. Len(r), NEW j \in 1 .. Len(r), i < j, r[i].op \in CallOps \cup {"leave"}
               PROVE  r[j].op \in CallOps
    BY DEF CallsLast
  <2>1. i + 1 < j + 1
    OBVIOUS
  <2>. QED  BY <1>1, <2>1 DEF Shape, CallsLast
<1>3. ReadsRight(p, r)
  BY <1>1 DEF Shape, ReadsRight
<1>4. FlushedLater(p, r)
  <2> SUFFICES ASSUME NEW i \in 1 .. Len(r), r[i].op = "sendSync", r[i].end = SendEnd(p, r[i].end[2])
               PROVE  \E j \in 1 .. Len(r) : i < j /\ r[j] = Step("flush", r[i].end)
    BY DEF FlushedLater
  <2>1. PICK j \in 1 .. Len(t) : i + 1 < j /\ t[j] = Step("flush", r[i].end)
    BY <1>1 DEF Shape, FlushedLater
  <2>2. j # 1
    BY <2>1
  <2>3. PICK k \in 1 .. Len(r) : j = k + 1
    BY <1>1, <2>2
  <2>4. i < k /\ r[k] = t[j]
    BY <1>1, <2>1, <2>3
  <2>. QED  BY <2>1, <2>4
<1>5. ASSUME t[1].op \in CallOps \cup {"leave"}, NEW i \in 1 .. Len(r) PROVE r[i].op \in CallOps
  <2>1. 1 < i + 1 /\ i + 1 \in 1 .. Len(t)
    BY <1>1
  <2>2. t[i + 1].op \in CallOps
    BY <1>1, <1>5, <2>1 DEF Shape, CallsLast
  <2>. QED  BY <1>1, <2>2
<1>. QED  BY <1>2, <1>3, <1>4, <1>5 DEF Shape, r

LEMMA JoinShape ==
  ASSUME NEW p, NEW A, NEW s \in Seq(A), NEW t \in Seq(A), Shape(p, s), Shape(p, t),
         Plain(s) \/ \A i \in 1 .. Len(t) : t[i].op \in CallOps
  PROVE  Shape(p, s \o t)
<1> DEFINE u == s \o t
<1>1. /\ Len(s) \in Nat /\ Len(t) \in Nat
      /\ \A i \in 1 .. Len(s) : i \in 1 .. Len(u) /\ u[i] = s[i]
      /\ \A i \in 1 .. Len(t) : Len(s) + i \in 1 .. Len(u) /\ u[Len(s) + i] = t[i]
      /\ \A i \in 1 .. Len(u) : i \in 1 .. Len(s) \/ \E k \in 1 .. Len(t) : i = Len(s) + k
  BY ConcatFacts
<1> HIDE DEF u
<1>2. ReadsRight(p, u)
  <2> SUFFICES ASSUME NEW i \in 1 .. Len(u)
               PROVE  /\ u[i].op \in {"recvData", "read"} => u[i].end = RecvEnd(p, u[i].end[2])
                      /\ u[i].op \in {"read", "readSync"} => u[i].len # 0
                      /\ u[i].op = "send" => u[i].len <= MaxSend
    BY DEF ReadsRight
  <2>1. CASE i \in 1 .. Len(s)
    BY <1>1, <2>1 DEF Shape, ReadsRight
  <2>2. ASSUME NEW k \in 1 .. Len(t), i = Len(s) + k
        PROVE  /\ u[i].op \in {"recvData", "read"} => u[i].end = RecvEnd(p, u[i].end[2])
               /\ u[i].op \in {"read", "readSync"} => u[i].len # 0
               /\ u[i].op = "send" => u[i].len <= MaxSend
    <3>1. u[i] = t[k]
      BY <1>1, <2>2
    <3>. QED  BY <3>1 DEF Shape, ReadsRight
  <2>. QED  BY <1>1, <2>1, <2>2
<1>3. CallsLast(u)
  <2> SUFFICES ASSUME NEW i \in 1 .. Len(u), NEW j \in 1 .. Len(u), i < j, u[i].op \in CallOps \cup {"leave"}
               PROVE  u[j].op \in CallOps
    BY DEF CallsLast
  <2>1. CASE j \in 1 .. Len(s)
    <3>1. i \in 1 .. Len(s)
      BY <1>1, <2>1
    <3>. QED  BY <1>1, <2>1, <3>1 DEF Shape, CallsLast
  <2>2. ASSUME NEW l \in 1 .. Len(t), j = Len(s) + l PROVE u[j].op \in CallOps
    <3>1. u[j] = t[l]
      BY <1>1, <2>2
    <3>2. CASE i \in 1 .. Len(s)
      BY <1>1, <3>1, <3>2 DEF Plain
    <3>3. ASSUME NEW k \in 1 .. Len(t), i = Len(s) + k PROVE u[j].op \in CallOps
      <4>1. u[i] = t[k]
        BY <1>1, <3>3
      <4>2. Len(s) + k < Len(s) + l
        BY <2>2, <3>3
      <4>3. k < l
        BY <1>1, <4>2
      <4>. QED  BY <3>1, <4>1, <4>3 DEF Shape, CallsLast
    <3>. QED  BY <1>1, <3>2, <3>3
  <2>. QED  BY <1>1, <2>1, <2>2
<1>4. FlushedLater(p, u)
  BY FlushedConcat DEF Shape, u
<1>. QED  BY <1>2, <1>3, <1>4 DEF Shape, u

(* What the step or call c of party p turns into.                          *)
Follows(p, c, st) ==
  /\ Shape(p, st) /\ Syncs(p, st) = 0
  /\ c.op \notin CallOps \cup {"leave"} => Plain(st)
  /\ IF c.op = "sync" THEN InSync(st) ELSE ~ InSync(st)

LEMMA PlainFollows ==
  ASSUME NEW p, NEW st \in Seq(StepsOf(p)), NEW c, c.op # "sync", ReadsRight(p, st),
         \A i \in 1 .. Len(st) : st[i].op \notin {"leave", "sendSync"}
  PROVE  Follows(p, c, st) /\ st \in Seq(Item(p))
<1>1. \A i \in 1 .. Len(st) : st[i] \in Item(p) /\ st[i].op \notin CallOps
  BY StepOp
<1>2. st \in Seq(Item(p))
  BY <1>1
<1>3. \A i \in 1 .. Len(st) : st[i].op # "sync"
  BY <1>1 DEF CallOps
<1>4. Syncs(p, st) = 0
  <2>1. \A i \in 1 .. Len(st) : SyncOf(p)[st[i]] = <<>>
    BY <1>1, <1>3 DEF SyncOf
  <2>2. FlatMap(SyncOf(p), st) = <<>>
    BY <1>2, <2>1, SyncSplit, FlatMapNone
  <2>. QED  BY <2>2 DEF Syncs
<1>5. Plain(st) /\ ~ InSync(st)
  BY <1>1 DEF Plain, InSync
<1>6. CallsLast(st) /\ FlushedLater(p, st)
  BY <1>1 DEF CallsLast, FlushedLater
<1>. QED  BY <1>2, <1>4, <1>5, <1>6 DEF Follows, Shape

LEMMA LeaveFacts ==
  ASSUME NEW p
  PROVE  Leave \in StepsOf(p) /\ Leave \in Item(p) /\ Leave.op = "leave" /\ Leave.op \notin CallOps
BY DEF Leave, StepsOf, Item, CallOps

LEMMA EnterFollows ==
  ASSUME NEW p \in Party, NEW c, c.op = "sync"
  PROVE  /\ SyncSteps(p) \o <<Leave>> \in Seq(Item(p))
         /\ Follows(p, c, SyncSteps(p) \o <<Leave>>)
         /\ \A x \in EndsOf(p) : /\ Out(SyncSteps(p) \o <<Leave>>, x) = <<0>>
                                 /\ In(SyncSteps(p) \o <<Leave>>, x) = <<0>>
<1> DEFINE s == SyncSteps(p)
           l == <<Leave>>
           u == s \o l
<1>1. /\ s \in Seq(StepsOf(p)) /\ s \in Seq(Item(p))
      /\ \A i \in 1 .. Len(s) : s[i].op \in SyncOps
      /\ FlushedLater(p, s)
      /\ \A x \in EndsOf(p) : Out(s, x) = <<0>> /\ In(s, x) = <<0>>
  BY SyncStepsFacts
<1>2. /\ l \in Seq(StepsOf(p)) /\ l \in Seq(Item(p)) /\ Len(l) = 1 /\ l[1] = Leave
      /\ \A i \in 1 .. Len(l) : l[i] = Leave
  BY LeaveFacts
<1> HIDE DEF s, l
<1>3. \A i \in 1 .. Len(s) : s[i].op \notin {"leave", "read", "readSync", "recvData", "send", "sync"}
  BY <1>1 DEF SyncOps
<1>4. ReadsRight(p, s)
  BY <1>3 DEF ReadsRight
<1>5. Shape(p, s) /\ Plain(s) /\ Syncs(p, s) = 0
  <2>1. \A i \in 1 .. Len(s) : s[i] \in StepsOf(p) /\ s[i].op \notin CallOps /\ s[i] \in Item(p)
    BY <1>1, StepOp
  <2>2. Plain(s) /\ CallsLast(s)
    BY <1>3, <2>1 DEF Plain, CallsLast
  <2>3. \A i \in 1 .. Len(s) : SyncOf(p)[s[i]] = <<>>
    BY <1>3, <2>1 DEF SyncOf
  <2>4. FlatMap(SyncOf(p), s) = <<>>
    BY <1>1, <2>3, SyncSplit, FlatMapNone
  <2>5. Syncs(p, s) = 0
    BY <2>4 DEF Syncs
  <2>. QED  BY <1>1, <1>4, <2>2, <2>5 DEF Shape
<1>6. Shape(p, l)
  <2>1. \A i \in 1 .. Len(l) : l[i].op \notin {"recvData", "read", "readSync", "send", "sendSync"}
    BY <1>2, LeaveFacts
  <2>2. \A i, j \in 1 .. Len(l) : ~ (i < j)
    BY <1>2
  <2>. QED  BY <2>1, <2>2 DEF Shape, CallsLast, ReadsRight, FlushedLater
<1>7. u \in Seq(Item(p)) /\ Shape(p, u)
  <2>1. u \in Seq(Item(p))
    BY <1>1, <1>2, ConcatFacts
  <2>. QED  BY <1>1, <1>2, <1>5, <1>6, <2>1, JoinShape
<1>8. InSync(u)
  <2>1. 1 \in 1 .. Len(l)
    BY <1>2
  <2>2. \A i \in 1 .. Len(l) : Len(s) + i \in 1 .. Len(u) /\ u[Len(s) + i] = l[i]
    BY ZenonT(40), <1>1, <1>2, ConcatFacts
  <2> HIDE DEF u
  <2>3. \E i \in 1 .. Len(u) : u[i] = l[1]
    BY <2>1, <2>2
  <2>. QED  BY <1>2, <2>3, LeaveFacts DEF InSync
<1>9. Syncs(p, u) = 0
  <2>1. Leave \in Item(p) /\ Leave.op # "sync"
    BY LeaveFacts
  <2>2. Syncs(p, l) = 0
    BY <2>1, SyncsFacts DEF l
  <2>3. Syncs(p, u) = Syncs(p, s) + Syncs(p, l)
    BY <1>1, <1>2, SyncsFacts
  <2>. QED  BY <1>5, <2>2, <2>3
<1>10. ASSUME NEW x \in EndsOf(p) PROVE Out(u, x) = <<0>> /\ In(u, x) = <<0>>
  <2>1. x \in End /\ x[1] = p /\ Leave \in Item(x[1])
    BY OwnEnd, LeaveFacts
  <2>2. Out(u, x) = Out(s, x) \o Out(l, x) /\ In(u, x) = In(s, x) \o In(l, x)
    BY <1>1, <1>2, <2>1, OutFacts, InFacts
  <2>3. Out(l, x) = <<>> /\ In(l, x) = <<>>
    <3>1. Out(l, x) = Written(Leave, x) /\ In(l, x) = ReadFrom(Leave, x)
      BY <2>1, OutFacts, InFacts DEF l
    <3>2. Written(Leave, x) = <<>> /\ ReadFrom(Leave, x) = <<>>
      BY LeaveFacts DEF Written, ReadFrom
    <3>. QED  BY <3>1, <3>2
  <2>4. <<0>> \o <<>> = <<0>>
    OBVIOUS
  <2>. QED  BY <1>1, <2>2, <2>3, <2>4
<1>11. c.op \in CallOps
  BY DEF CallOps
<1>12. Follows(p, c, u)
  BY <1>7, <1>8, <1>9, <1>11 DEF Follows
<1>. QED  BY <1>7, <1>10, <1>12 DEF u, s, l
-----------------------------------------------------------------------------
(* Every step of a party leaves what is to do alone, or takes the first    *)
(* call or step away and puts the steps it comes down to in its place.     *)
LEMMA HeadFacts ==
  ASSUME TypeOK, NEW p \in Party, NEW op, At(p, op)
  PROVE  /\ todo[p] \in Seq(Item(p)) /\ todo[p] # <<>> /\ todo[p][1] \in Item(p)
         /\ todo[p][1].op = op /\ Now(p) = todo[p][1] /\ 1 \in 1 .. Len(todo[p])
         /\ \A e \in EndsOf(p) : due[e] = 0
BY DEF TypeOK, At, Now, Item

Replaced(p, st) ==
  /\ todo[p] \in Seq(Item(p)) /\ todo[p] # <<>> /\ todo[p][1] \in Item(p)
  /\ st \in Seq(Item(p))
  /\ todo' = [todo EXCEPT ![p] = st \o Tail(@)]
  /\ Follows(p, todo[p][1], st)
  /\ entered' = IF todo[p][1].op = "sync" THEN [entered EXCEPT ![p] = @ + 1] ELSE entered
  /\ left' = IF todo[p][1].op = "leave" THEN [left EXCEPT ![p] = @ + 1] ELSE left

LEMMA EmptyFollows ==
  ASSUME NEW p, NEW c, c.op # "sync"
  PROVE  Follows(p, c, <<>>) /\ <<>> \in Seq(Item(p)) /\ <<>> \in Seq(StepsOf(p))
<1> DEFINE s == <<>>
<1>1. s \in Seq(StepsOf(p)) /\ \A i \in 1 .. Len(s) : FALSE
  OBVIOUS
<1> HIDE DEF s
<1>2. ReadsRight(p, s)
  BY <1>1 DEF ReadsRight
<1>3. Follows(p, c, s) /\ s \in Seq(Item(p))
  BY <1>1, <1>2, PlainFollows
<1>. QED  BY <1>1, <1>3 DEF s

LEMMA OneFollows ==
  ASSUME NEW p, NEW c, c.op # "sync", NEW x \in StepsOf(p), x.op \notin {"leave", "sendSync"},
         x.op \in {"recvData", "read"} => x.end = RecvEnd(p, x.end[2]),
         x.op \in {"read", "readSync"} => x.len # 0
  PROVE  Follows(p, c, <<x>>) /\ <<x>> \in Seq(Item(p)) /\ <<x>> \in Seq(StepsOf(p))
<1> DEFINE s == <<x>>
<1>1. s \in Seq(StepsOf(p)) /\ \A i \in 1 .. Len(s) : s[i] = x
  OBVIOUS
<1>2. x.op # "send"
  BY StepOp DEF CallOps
<1> HIDE DEF s
<1>3. ReadsRight(p, s)
  BY <1>1, <1>2 DEF ReadsRight
<1>4. Follows(p, c, s) /\ s \in Seq(Item(p))
  BY <1>1, <1>3, PlainFollows
<1>. QED  BY <1>1, <1>4 DEF s

LEMMA TwoFollows ==
  ASSUME NEW p, NEW c, c.op # "sync", NEW x \in StepsOf(p), NEW y \in StepsOf(p),
         x.op = "flush", y.op = "recvData", y.end = RecvEnd(p, y.end[2])
  PROVE  Follows(p, c, <<x>> \o <<y>>) /\ <<x>> \o <<y>> \in Seq(Item(p)) /\ <<x>> \o <<y>> \in Seq(StepsOf(p))
<1> DEFINE s == <<x>> \o <<y>>
<1>1. s \in Seq(StepsOf(p)) /\ \A i \in 1 .. Len(s) : s[i] = x \/ s[i] = y
  OBVIOUS
<1> HIDE DEF s
<1>3. ReadsRight(p, s)
  BY <1>1 DEF ReadsRight
<1>4. Follows(p, c, s) /\ s \in Seq(Item(p))
  BY <1>1, <1>3, PlainFollows
<1>. QED  BY <1>1, <1>4 DEF s

LEMMA FlushAllFollows ==
  ASSUME NEW p \in Party, NEW c, c.op # "sync"
  PROVE  Follows(p, c, FlushAll(p)) /\ FlushAll(p) \in Seq(Item(p))
<1> DEFINE s == FlushAll(p)
<1>1. s \in Seq(StepsOf(p)) /\ \A i \in 1 .. Len(s) : s[i].op = "flush"
  BY AllEndsFacts
<1> HIDE DEF s
<1>3. ReadsRight(p, s)
  BY <1>1 DEF ReadsRight
<1>4. Follows(p, c, s) /\ s \in Seq(Item(p))
  BY <1>1, <1>3, PlainFollows
<1>. QED  BY <1>4 DEF s

(* What the steps put in the place of a call will write and read.          *)
LEMMA QuietSteps ==
  ASSUME NEW p \in Party, NEW st \in Seq(Item(p)),
         \A i \in 1 .. Len(st) : st[i].op \in {"open", "flush", "crash", "leave"}
  PROVE  \A x \in EndsOf(p) : Out(st, x) = <<>> /\ In(st, x) = <<>>
<1> SUFFICES ASSUME NEW x \in EndsOf(p) PROVE Out(st, x) = <<>> /\ In(st, x) = <<>>
  OBVIOUS
<1>1. x \in End /\ x[1] = p
  BY OwnEnd
<1>2. \A i \in 1 .. Len(st) : st[i] \in Item(x[1])
  BY <1>1
<1>3. \A i \in 1 .. Len(st) : WritesOf(x)[st[i]] = <<>> /\ ReadsOf(x)[st[i]] = <<>>
  BY <1>2 DEF WritesOf, ReadsOf, Written, ReadFrom
<1>4. FlatMap(WritesOf(x), st) = <<>>
  BY <1>1, <1>3, WritesSplit, FlatMapNone
<1>5. FlatMap(ReadsOf(x), st) = <<>>
  BY <1>1, <1>3, ReadsSplit, FlatMapNone
<1>. QED  BY <1>4, <1>5 DEF Out, In

Keeps(p, st) ==
  \A x \in EndsOf(p) : /\ Out(st, x) = Written(todo[p][1], x)
                       /\ In(st, x) = ReadFrom(todo[p][1], x)

LEMMA DoReplaces ==
  ASSUME TypeOK, NEW p \in Party, NEW op, At(p, op), op \notin {"sync", "leave"},
         NEW st \in Seq(Item(p)), Follows(p, todo[p][1], st), Do(p, st), UNCHANGED <<entered, left>>
  PROVE  Replaced(p, st)
BY HeadFacts DEF Replaced, Do

(* Opening an end, flushing one and leaving a sync is done at once.        *)
LEMMA AtOnce ==
  ASSUME TypeOK, NEW p \in Party, Opened(p) \/ Flush(p) \/ LeaveSync(p) \/ RecvNobody(p)
  PROVE  Replaced(p, <<>>) /\ Keeps(p, <<>>)
<1>1. /\ todo[p] \in Seq(Item(p)) /\ todo[p] # <<>> /\ todo[p][1] \in Item(p)
      /\ todo[p][1].op \in {"open", "flush", "leave", "recv"} /\ Now(p) = todo[p][1]
      /\ todo[p][1].op = "recv" => todo[p][1].with \in {-1, p}
  BY HeadFacts DEF Opened, Flush, LeaveSync, RecvNobody
<1>2. Do(p, <<>>)
  BY DEF Opened, Flush, LeaveSync, RecvNobody
<1>3. entered' = entered
  BY DEF Opened, Flush, LeaveSync, RecvNobody, history
<1>4. left' = IF todo[p][1].op = "leave" THEN [left EXCEPT ![p] = @ + 1] ELSE left
  <2>1. CASE LeaveSync(p)
    <3>1. todo[p][1].op = "leave"
      BY <2>1, HeadFacts DEF LeaveSync
    <3>. QED  BY <2>1, <3>1 DEF LeaveSync
  <2>2. CASE Opened(p) \/ Flush(p) \/ RecvNobody(p)
    <3>1. todo[p][1].op # "leave"
      BY <2>2, HeadFacts DEF Opened, Flush, RecvNobody
    <3>2. left' = left
      BY <2>2 DEF Opened, Flush, RecvNobody, history
    <3>. QED  BY <3>1, <3>2
  <2>. QED  BY <2>1, <2>2
<1>5. Follows(p, todo[p][1], <<>>) /\ <<>> \in Seq(Item(p))
  BY <1>1, EmptyFollows
<1>6. Replaced(p, <<>>)
  BY <1>1, <1>2, <1>3, <1>4, <1>5 DEF Replaced, Do
<1>7. ASSUME NEW x \in EndsOf(p)
      PROVE  /\ Out(<<>>, x) = Written(todo[p][1], x) /\ In(<<>>, x) = ReadFrom(todo[p][1], x)
  <2>1. x \in End /\ x[2] \in Party \ {p}
    BY OwnEnd
  <2>2. x[2] \notin {-1, p}
    BY <2>1, NetAssumption DEF Party
  <2>3. Written(todo[p][1], x) = <<>> /\ ReadFrom(todo[p][1], x) = <<>>
    BY <1>1, <2>2 DEF Written, ReadFrom
  <2>4. Out(<<>>, x) = <<>> /\ In(<<>>, x) = <<>>
    BY <2>1, OutFacts, InFacts
  <2>. QED  BY <2>3, <2>4
<1>. QED  BY <1>6, <1>7 DEF Keeps

(* So is flushing all ends, in the calls that do nothing else.             *)
LEMMA FlushingCalls ==
  ASSUME TypeOK, NEW p \in Party, SendNobody(p) \/ FlushCall(p) \/ Destroy(p)
  PROVE  \E st : Replaced(p, st) /\ Keeps(p, st)
<1> DEFINE st == IF FlushCall(p) \/ Destroy(p) THEN FlushAll(p)
                 ELSE IF build # "clang" THEN <<>>
                 ELSE IF Now(p).with = -1 THEN FlushAll(p) ELSE <<Crash>>
           c == todo[p][1]
<1>1. /\ todo[p] \in Seq(Item(p)) /\ todo[p] # <<>> /\ c \in Item(p)
      /\ c.op \in {"send", "flushEnds", "close"} /\ Now(p) = c
      /\ c.op = "send" => c.with \in {-1, p}
  BY HeadFacts DEF SendNobody, FlushCall, Destroy
<1>2. Do(p, st) /\ UNCHANGED <<entered, left>>
  <2>1. ASSUME SendNobody(p), FlushCall(p) \/ Destroy(p) PROVE FALSE
    BY <2>1 DEF SendNobody, FlushCall, Destroy, At
  <2>. QED  BY <2>1 DEF SendNobody, FlushCall, Destroy, history
<1> DEFINE Fits(s) == /\ Follows(p, c, s) /\ s \in Seq(Item(p))
                     /\ \A i \in 1 .. Len(s) : s[i].op \in {"open", "flush", "crash", "leave"}
<1>3. Fits(st)
  <2>1. c.op # "sync"
    BY <1>1
  <2>2. Fits(FlushAll(p))
    BY <2>1, FlushAllFollows, AllEndsFacts
  <2>3. Fits(<<>>)
    <3> DEFINE s == <<>>
    <3>1. \A i \in 1 .. Len(s) : FALSE
      OBVIOUS
    <3>2. Follows(p, c, s) /\ s \in Seq(Item(p))
      BY <2>1, EmptyFollows
    <3> HIDE DEF s
    <3>3. Fits(s)
      BY <3>1, <3>2
    <3>. QED  BY <3>3 DEF s
  <2>4. Fits(<<Crash>>)
    <3> DEFINE s == <<Crash>>
    <3>1. Crash \in StepsOf(p) /\ Crash.op = "crash"
      BY DEF Crash, StepsOf
    <3>2. Follows(p, c, s) /\ s \in Seq(Item(p))
      BY <2>1, <3>1, OneFollows
    <3>3. \A i \in 1 .. Len(s) : s[i] = Crash
      OBVIOUS
    <3> HIDE DEF s
    <3>4. Fits(s)
      BY <3>1, <3>2, <3>3
    <3>. QED  BY <3>4 DEF s
  <2> HIDE DEF Fits
  <2>. QED  BY <2>2, <2>3, <2>4
<1> HIDE DEF st
<1>4. Replaced(p, st)
  <2>1. At(p, c.op) /\ c.op \notin {"sync", "leave"}
    BY <1>1 DEF SendNobody, FlushCall, Destroy, At
  <2>. QED  BY <1>2, <1>3, <2>1, DoReplaces
<1>5. ASSUME NEW x \in EndsOf(p) PROVE Out(st, x) = Written(c, x) /\ In(st, x) = ReadFrom(c, x)
  <2>1. x \in End /\ x[2] \in Party \ {p}
    BY OwnEnd
  <2>2. x[2] \notin {-1, p}
    BY <2>1, NetAssumption DEF Party
  <2>3. Written(c, x) = <<>> /\ ReadFrom(c, x) = <<>>
    BY <1>1, <2>2 DEF Written, ReadFrom
  <2>4. Out(st, x) = <<>> /\ In(st, x) = <<>>
    BY <1>3, QuietSteps
  <2>. QED  BY <2>3, <2>4
<1>. QED  BY <1>4, <1>5 DEF Keeps

(* Entering a sync puts its steps in the place of the call, a flush of     *)
(* every end that carries data among them.                                 *)
LEMMA Entering ==
  ASSUME TypeOK, NEW p \in Party, EnterSync(p)
  PROVE  /\ Replaced(p, SyncSteps(p) \o <<Leave>>) /\ Keeps(p, SyncSteps(p) \o <<Leave>>)
         /\ \A q \in Party \ {p} : \E i \in 1 .. Len(SyncSteps(p) \o <<Leave>>) :
              (SyncSteps(p) \o <<Leave>>)[i] = Step("flush", SendEnd(p, q))
<1> DEFINE s == SyncSteps(p)
           l == <<Leave>>
           st == s \o l
           c == todo[p][1]
<1>1. /\ todo[p] \in Seq(Item(p)) /\ todo[p] # <<>> /\ c \in Item(p) /\ c.op = "sync"
  BY HeadFacts DEF EnterSync
<1>2. Do(p, st) /\ left' = left /\ entered' = [entered EXCEPT ![p] = @ + 1]
  BY DEF EnterSync
<1>3. /\ st \in Seq(Item(p)) /\ Follows(p, c, st)
      /\ \A x \in EndsOf(p) : Out(st, x) = <<0>> /\ In(st, x) = <<0>>
  BY <1>1, EnterFollows
<1>4. \A x \in EndsOf(p) : Written(c, x) = <<0>> /\ ReadFrom(c, x) = <<0>>
  BY <1>1 DEF Written, ReadFrom
<1>5. ASSUME NEW q \in Party \ {p} PROVE \E i \in 1 .. Len(st) : st[i] = Step("flush", SendEnd(p, q))
  <2>1. PICK i \in 1 .. Len(s) : s[i] = Step("flush", SendEnd(p, q))
    BY SyncStepsFacts
  <2>2. s \in Seq(Item(p)) /\ l \in Seq(Item(p))
    BY SyncStepsFacts, LeaveFacts
  <2> HIDE DEF s, l
  <2>3. i \in 1 .. Len(st) /\ st[i] = s[i]
    BY <2>2, ConcatFacts
  <2>. QED  BY <2>1, <2>3
<1> HIDE DEF st
<1>6. Replaced(p, st)
  BY <1>1, <1>2, <1>3 DEF Replaced, Do
<1>7. Keeps(p, st)
  BY <1>3, <1>4 DEF Keeps
<1>. QED  BY <1>5, <1>6, <1>7 DEF st

(* A receive comes down to reading as much from the end that carries what  *)
(* the sender sends, and reading begins by flushing that same end.         *)
LEMMA ReadingSteps ==
  ASSUME NEW p \in Party, NEW e \in EndsOf(p), NEW n \in Nat,
         NEW op \in {"recvData", "recvSync", "read", "readSync"}
  PROVE  /\ Read(op, e, n) \in StepsOf(p) /\ Read(op, e, n) \in Item(p)
         /\ Read(op, e, n).op = op /\ Read(op, e, n).end = e /\ Read(op, e, n).len = n
         /\ \A x \in EndsOf(p) :
              /\ Written(Read(op, e, n), x) = <<>>
              /\ ReadFrom(Read(op, e, n), x) =
                   IF e # x THEN <<>> ELSE IF op \in {"recvData", "read"} THEN Ones(n) ELSE Zeros(n)
BY DEF Read, StepsOf, Item, Written, ReadFrom

LEMMA FlushStep ==
  ASSUME NEW p \in Party, NEW e \in EndsOf(p)
  PROVE  /\ Step("flush", e) \in StepsOf(p) /\ Step("flush", e) \in Item(p)
         /\ Step("flush", e).op = "flush" /\ Step("flush", e).end = e
         /\ \A x \in EndsOf(p) : Written(Step("flush", e), x) = <<>> /\ ReadFrom(Step("flush", e), x) = <<>>
BY DEF Step, StepsOf, Item, Written, ReadFrom

LEMMA Receiving ==
  ASSUME TypeOK, NEW p \in Party, RecvCall(p)
  PROVE  \E st : Replaced(p, st) /\ Keeps(p, st)
<1> DEFINE c == todo[p][1]
           q == c.with
           e == RecvEnd(p, q)
           r == Read("recvData", e, c.len)
           f == Step("flush", SendEnd(p, q))
<1>1. /\ todo[p] \in Seq(Item(p)) /\ todo[p] # <<>> /\ c \in Item(p) /\ c.op = "recv"
      /\ Now(p) = c /\ c.with \notin {-1, p} /\ At(p, "recv")
  BY HeadFacts DEF RecvCall
<1>2. q \in Party \ {p} /\ c.len \in Nat
  BY <1>1, ItemCases
<1> HIDE DEF c
<1>3. e \in EndsOf(p) /\ SendEnd(p, q) \in EndsOf(p)
  BY <1>2, OpenEnds DEF RecvEnd, SendEnd
<1>4. e = <<p, q, IF q < p THEN "ios" ELSE "ios2">> /\ e[2] = q
  BY DEF RecvEnd
<1>5. \A x \in EndsOf(p) : Written(c, x) = <<>> /\ ReadFrom(c, x) = IF e # x THEN <<>> ELSE Ones(c.len)
  <2> SUFFICES ASSUME NEW x \in EndsOf(p)
               PROVE  Written(c, x) = <<>> /\ ReadFrom(c, x) = IF e # x THEN <<>> ELSE Ones(c.len)
    OBVIOUS
  <2>1. x[1] = p
    BY OwnEnd
  <2>2. (q = x[2] /\ x = RecvEnd(x[1], x[2])) <=> e = x
    BY <1>4, <2>1
  <2> HIDE DEF q, e
  <2>3. ReadFrom(c, x) = IF c.with = x[2] /\ x = RecvEnd(x[1], x[2]) THEN Ones(c.len) ELSE <<>>
    BY <1>1 DEF ReadFrom
  <2>4. Written(c, x) = <<>>
    BY <1>1 DEF Written
  <2>. QED  BY <2>2, <2>3, <2>4 DEF q
<1>6. /\ r \in StepsOf(p) /\ r \in Item(p) /\ r.op = "recvData" /\ r.end = e
      /\ \A x \in EndsOf(p) : Written(r, x) = <<>> /\ ReadFrom(r, x) = IF e # x THEN <<>> ELSE Ones(c.len)
  BY <1>2, <1>3, ReadingSteps
<1>7. /\ f \in StepsOf(p) /\ f \in Item(p) /\ f.op = "flush"
      /\ \A x \in EndsOf(p) : Written(f, x) = <<>> /\ ReadFrom(f, x) = <<>>
  BY <1>3, FlushStep
<1>8. Do(p, IF sent[<<p, q>>] THEN <<f>> \o <<r>> ELSE <<r>>) /\ UNCHANGED <<entered, left>>
  BY <1>1 DEF RecvCall, history
<1>9. r.end = RecvEnd(p, r.end[2])
  BY <1>4, <1>6
<1> HIDE DEF e, r, f
<1>10. c.op # "sync"
  BY <1>1
<1>11. CASE sent[<<p, q>>]
  <2> DEFINE st == <<f>> \o <<r>>
  <2>1. Follows(p, c, st) /\ st \in Seq(Item(p))
    BY <1>6, <1>7, <1>9, <1>10, TwoFollows
  <2>3. \A x \in EndsOf(p) : Out(st, x) = Written(c, x) /\ In(st, x) = ReadFrom(c, x)
    <3> SUFFICES ASSUME NEW x \in EndsOf(p) PROVE Out(st, x) = Written(c, x) /\ In(st, x) = ReadFrom(c, x)
      OBVIOUS
    <3>1. x \in End /\ x[1] = p
      BY OwnEnd
    <3>2. Out(st, x) = Written(f, x) \o Written(r, x) /\ In(st, x) = ReadFrom(f, x) \o ReadFrom(r, x)
      <4> DEFINE a == <<f>>
                 b == <<r>>
      <4>1. a \in Seq(Item(x[1])) /\ b \in Seq(Item(x[1]))
        BY <1>6, <1>7, <3>1
      <4>2. /\ Out(a, x) = Written(f, x) /\ Out(b, x) = Written(r, x)
            /\ In(a, x) = ReadFrom(f, x) /\ In(b, x) = ReadFrom(r, x)
        BY <1>6, <1>7, <3>1, OutFacts, InFacts
      <4>3. st = a \o b
        OBVIOUS
      <4> HIDE DEF a, b, st
      <4>. QED  BY <3>1, <4>1, <4>2, <4>3, OutFacts, InFacts
    <3>3. ReadFrom(c, x) \in Seq({0, 1}) /\ ReadFrom(r, x) = ReadFrom(c, x)
      BY <1>1, <1>5, <1>6, <3>1, InFacts
    <3>4. <<>> \o ReadFrom(c, x) = ReadFrom(c, x) /\ <<>> \o <<>> = <<>>
      BY <3>3
    <3> HIDE DEF st
    <3>. QED  BY <1>5, <1>6, <1>7, <3>2, <3>3, <3>4
  <2> HIDE DEF st
  <2>4. Do(p, st)
    BY <1>8, <1>11 DEF st
  <2>5. Replaced(p, st)
    BY <1>1, <1>8, <2>1, <2>4, DoReplaces DEF c
  <2>6. Keeps(p, st)
    BY <2>3 DEF Keeps, c
  <2>. QED  BY <2>5, <2>6
<1>12. CASE ~ sent[<<p, q>>]
  <2> DEFINE st == <<r>>
  <2>1. Follows(p, c, st) /\ st \in Seq(Item(p))
    BY <1>6, <1>9, <1>10, OneFollows
  <2>3. \A x \in EndsOf(p) : Out(st, x) = Written(c, x) /\ In(st, x) = ReadFrom(c, x)
    <3> SUFFICES ASSUME NEW x \in EndsOf(p) PROVE Out(st, x) = Written(c, x) /\ In(st, x) = ReadFrom(c, x)
      OBVIOUS
    <3>1. x \in End /\ x[1] = p
      BY OwnEnd
    <3>2. Out(st, x) = Written(r, x) /\ In(st, x) = ReadFrom(r, x)
      BY <1>6, <3>1, OutFacts, InFacts
    <3>. QED  BY <1>5, <1>6, <3>2
  <2> HIDE DEF st
  <2>4. Do(p, st)
    BY <1>8, <1>12 DEF st
  <2>5. Replaced(p, st)
    BY <1>1, <1>8, <2>1, <2>4, DoReplaces DEF c
  <2>6. Keeps(p, st)
    BY <2>3 DEF Keeps, c
  <2>. QED  BY <2>5, <2>6
<1>. QED  BY <1>11, <1>12

LEMMA Beginning ==
  ASSUME TypeOK, StepsInv, NEW p \in Party, BeginRead(p)
  PROVE  \E st : Replaced(p, st) /\ Keeps(p, st)
<1> DEFINE c == todo[p][1]
           op == IF c.op = "recvData" THEN "read" ELSE "readSync"
           r == Read(op, c.end, c.len)
<1>1. PICK was \in {"recvData", "recvSync"} : At(p, was)
  BY DEF BeginRead
<1>2. /\ todo[p] \in Seq(Item(p)) /\ todo[p] # <<>> /\ c \in Item(p) /\ c.op = was
      /\ Now(p) = c /\ 1 \in 1 .. Len(todo[p])
  BY <1>1, HeadFacts
<1>3. c.end \in EndsOf(p) /\ c.len \in Nat
  BY <1>2, ItemCases
<1>4. c.op = "recvData" => c.end = RecvEnd(p, c.end[2])
  BY <1>2 DEF StepsInv, ReadsRight
<1>5. Do(p, IF c.len = 0 THEN <<>> ELSE <<r>>) /\ UNCHANGED <<entered, left>>
  BY <1>2 DEF BeginRead, history
<1>6. /\ op \in {"read", "readSync"} /\ r \in StepsOf(p) /\ r \in Item(p) /\ r.op = op /\ r.end = c.end /\ r.len = c.len
      /\ \A x \in EndsOf(p) :
           /\ Written(r, x) = <<>>
           /\ ReadFrom(r, x) = IF c.end # x THEN <<>> ELSE IF op \in {"recvData", "read"} THEN Ones(c.len) ELSE Zeros(c.len)
  <2>1. op \in {"recvData", "recvSync", "read", "readSync"} /\ op \in {"read", "readSync"}
    OBVIOUS
  <2> HIDE DEF op, c
  <2>. QED  BY <1>3, <2>1, ReadingSteps
<1>7. \A x \in EndsOf(p) :
           /\ Written(c, x) = <<>>
           /\ ReadFrom(c, x) = IF c.end # x THEN <<>> ELSE IF op \in {"recvData", "read"} THEN Ones(c.len) ELSE Zeros(c.len)
  BY <1>2 DEF Written, ReadFrom
<1>8. /\ c.op # "sync" /\ c.op \notin {"sync", "leave"} /\ At(p, c.op)
      /\ r.op = "read" => r.end = RecvEnd(p, r.end[2])
  BY <1>1, <1>2, <1>4, <1>6
<1> HIDE DEF r, op, c
<1>9. CASE c.len = 0
  <2> DEFINE st == <<>>
  <2>1. Follows(p, c, st) /\ st \in Seq(Item(p))
    BY <1>8, EmptyFollows
  <2>2. \A x \in EndsOf(p) : Out(st, x) = Written(c, x) /\ In(st, x) = ReadFrom(c, x)
    <3> SUFFICES ASSUME NEW x \in EndsOf(p) PROVE Out(st, x) = Written(c, x) /\ In(st, x) = ReadFrom(c, x)
      OBVIOUS
    <3>1. x \in End /\ x[1] = p
      BY OwnEnd
    <3>2. Out(st, x) = <<>> /\ In(st, x) = <<>>
      BY <3>1, OutFacts, InFacts
    <3>3. Ones(c.len) = <<>> /\ Zeros(c.len) = <<>>
      BY <1>3, <1>9, RunLengths
    <3>. QED  BY <1>7, <3>2, <3>3
  <2>3. Do(p, st)
    BY <1>5, <1>9
  <2> HIDE DEF st
  <2>4. Replaced(p, st)
    BY <1>5, <1>8, <2>1, <2>3, DoReplaces DEF c
  <2>5. Keeps(p, st)
    BY <2>2 DEF Keeps, c
  <2>. QED  BY <2>4, <2>5
<1>10. CASE c.len # 0
  <2> DEFINE st == <<r>>
  <2>1. Follows(p, c, st) /\ st \in Seq(Item(p))
    BY <1>6, <1>8, <1>10, OneFollows
  <2>2. \A x \in EndsOf(p) : Out(st, x) = Written(c, x) /\ In(st, x) = ReadFrom(c, x)
    <3> SUFFICES ASSUME NEW x \in EndsOf(p) PROVE Out(st, x) = Written(c, x) /\ In(st, x) = ReadFrom(c, x)
      OBVIOUS
    <3>1. x \in End /\ x[1] = p
      BY OwnEnd
    <3>2. Out(st, x) = Written(r, x) /\ In(st, x) = ReadFrom(r, x)
      BY <1>6, <3>1, OutFacts, InFacts
    <3>. QED  BY <1>6, <1>7, <3>2
  <2>3. Do(p, st)
    BY <1>5, <1>10
  <2> HIDE DEF st
  <2>4. Replaced(p, st)
    BY <1>5, <1>8, <2>1, <2>3, DoReplaces DEF c
  <2>5. Keeps(p, st)
    BY <2>2 DEF Keeps, c
  <2>. QED  BY <2>4, <2>5
<1>. QED  BY <1>9, <1>10

(* Reading a unit takes one off what is still to be read.                  *)
LEMMA Reading ==
  ASSUME TypeOK, StepsInv, NEW p \in Party, ReadUnit(p)
  PROVE  LET e == Now(p).end IN
         /\ e \in EndsOf(p) /\ Now(p).op \in {"read", "readSync"} /\ Now(p) = todo[p][1]
         /\ Now(p).op = "read" => e = RecvEnd(p, e[2])
         /\ \E st : /\ Replaced(p, st)
                    /\ \A x \in EndsOf(p) :
                         /\ Out(st, x) = Written(todo[p][1], x)
                         /\ x # e => In(st, x) = ReadFrom(todo[p][1], x)
                         /\ x = e => /\ ReadFrom(todo[p][1], x) # <<>>
                                     /\ Head(ReadFrom(todo[p][1], x)) = IF Now(p).op = "read" THEN 1 ELSE 0
                                     /\ In(st, x) = Tail(ReadFrom(todo[p][1], x))
<1> DEFINE c == todo[p][1]
           r == Read(c.op, c.end, c.len - 1)
           Run(n) == IF c.op = "read" THEN Ones(n) ELSE Zeros(n)
<1>1. PICK op \in {"read", "readSync"} : At(p, op)
  BY DEF ReadUnit
<1>2. /\ todo[p] \in Seq(Item(p)) /\ todo[p] # <<>> /\ c \in Item(p) /\ c.op = op
      /\ Now(p) = c /\ 1 \in 1 .. Len(todo[p])
  BY <1>1, HeadFacts
<1>3. c.end \in EndsOf(p) /\ c.len \in Nat /\ c \in ReadSteps(p)
  BY <1>2, ItemCases
<1>4. c.len # 0 /\ (c.op = "read" => c.end = RecvEnd(p, c.end[2]))
  BY <1>2 DEF StepsInv, ReadsRight
<1>5. [c EXCEPT !.len = @ - 1] = r
  BY <1>3 DEF Read, ReadSteps
<1>6. Do(p, IF c.len = 1 THEN <<>> ELSE <<r>>) /\ UNCHANGED <<entered, left>>
  BY <1>2, <1>5 DEF ReadUnit
<1>7. \A x \in EndsOf(p) : Written(c, x) = <<>> /\ ReadFrom(c, x) = IF c.end # x THEN <<>> ELSE Run(c.len)
  BY <1>2 DEF Written, ReadFrom
<1>8. c.len - 1 \in Nat /\ (c.len # 1 => c.len - 1 # 0)
  BY <1>3, <1>4
<1>9. /\ r \in StepsOf(p) /\ r \in Item(p) /\ r.op = c.op /\ r.end = c.end /\ r.len = c.len - 1
      /\ \A x \in EndsOf(p) : Written(r, x) = <<>> /\ ReadFrom(r, x) = IF c.end # x THEN <<>> ELSE Run(c.len - 1)
  <2>1. c.op \in {"recvData", "recvSync", "read", "readSync"} /\ (c.op \in {"recvData", "read"} <=> c.op = "read")
    BY <1>2
  <2> DEFINE n == c.len - 1
  <2>2. n \in Nat
    BY <1>8
  <2> HIDE DEF n, c
  <2>. QED  BY <1>3, <2>1, <2>2, ReadingSteps DEF n
<1>10. /\ Run(c.len) # <<>> /\ Head(Run(c.len)) = IF c.op = "read" THEN 1 ELSE 0
       /\ Tail(Run(c.len)) = Run(c.len - 1) /\ Run(0) = <<>>
  BY <1>3, <1>4, RunLengths
<1>11. c.op \notin {"sync", "leave"} /\ At(p, c.op) /\ c.op \in {"read", "readSync"}
  BY <1>1, <1>2
<1> DEFINE Right(st) == \A x \in EndsOf(p) : Out(st, x) = <<>> /\ In(st, x) = IF c.end # x THEN <<>> ELSE Run(c.len - 1)
<1> HIDE DEF r, c, Run
<1>12. \E st : Replaced(p, st) /\ Right(st)
  <2>1. CASE c.len = 1
    <3> DEFINE st == <<>>
    <3>1. Follows(p, c, st) /\ st \in Seq(Item(p))
      BY <1>11, EmptyFollows
    <3>2. Right(st)
      <4>1. \A x \in EndsOf(p) : Out(st, x) = <<>> /\ In(st, x) = <<>>
        BY OwnEnd, OutFacts, InFacts
      <4>2. Run(c.len - 1) = <<>>
        <5>1. c.len - 1 = 0
          BY <2>1
        <5>. QED  BY <1>10, <5>1
      <4>. QED  BY <4>1, <4>2
    <3>3. Do(p, st)
      BY <1>6, <2>1
    <3> HIDE DEF st, Right
    <3>4. Replaced(p, st)
      BY <1>6, <1>11, <3>1, <3>3, DoReplaces DEF c
    <3>. QED  BY <3>2, <3>4
  <2>2. CASE c.len # 1
    <3> DEFINE st == <<r>>
    <3>1. Follows(p, c, st) /\ st \in Seq(Item(p))
      <4>1. r.op \in {"recvData", "read"} => r.end = RecvEnd(p, r.end[2])
        BY <1>4, <1>9, <1>11
      <4>2. r.op \notin {"leave", "sendSync"} /\ r.len # 0 /\ c.op # "sync"
        BY <1>8, <1>9, <1>11, <2>2
      <4>. QED  BY <1>9, <4>1, <4>2, OneFollows
    <3>2. Right(st)
      <4> SUFFICES ASSUME NEW x \in EndsOf(p) PROVE Out(st, x) = <<>> /\ In(st, x) = IF c.end # x THEN <<>> ELSE Run(c.len - 1)
        OBVIOUS
      <4>1. x \in End /\ x[1] = p
        BY OwnEnd
      <4>2. Out(st, x) = Written(r, x) /\ In(st, x) = ReadFrom(r, x)
        BY <1>9, <4>1, OutFacts, InFacts
      <4>. QED  BY <1>9, <4>2
    <3>3. Do(p, st)
      BY <1>6, <2>2
    <3> HIDE DEF st, Right
    <3>4. Replaced(p, st)
      BY <1>6, <1>11, <3>1, <3>3, DoReplaces DEF c
    <3>. QED  BY <3>2, <3>4
  <2>. QED  BY <2>1, <2>2
<1>13. PICK st : Replaced(p, st) /\ Right(st)
  BY <1>12
<1>14. \A x \in EndsOf(p) :
         /\ Out(st, x) = Written(c, x)
         /\ x # c.end => In(st, x) = ReadFrom(c, x)
         /\ x = c.end => /\ ReadFrom(c, x) # <<>>
                         /\ Head(ReadFrom(c, x)) = IF c.op = "read" THEN 1 ELSE 0
                         /\ In(st, x) = Tail(ReadFrom(c, x))
  BY <1>7, <1>10, <1>13
<1>15. Now(p) = c /\ c = todo[p][1]
  BY <1>2 DEF c
<1>. QED  BY <1>3, <1>4, <1>11, <1>13, <1>14, <1>15

(* Sending appends what was to be written on an end to its buffer.         *)
LEMMA Sending ==
  ASSUME TypeOK, NEW p \in Party, SendData(p)
  PROVE  \E q \in Party \ {p} : \E st :
           /\ q = Now(p).with /\ Now(p) = todo[p][1] /\ Now(p).len \in Nat /\ Now(p).op = "send"
           /\ SendEnd(p, q) \in EndsOf(p) /\ <<p, q>> \in Pair
           /\ Replaced(p, st)
           /\ \A x \in EndsOf(p) :
                /\ Out(st, x) = <<>>
                /\ In(st, x) = ReadFrom(todo[p][1], x)
                /\ Written(todo[p][1], x) = IF x = SendEnd(p, q) THEN Ones(Now(p).len) ELSE <<>>
<1> DEFINE c == todo[p][1]
           q == c.with
           e == SendEnd(p, q)
           f == Step("flush", e)
           st == IF build = "clang" THEN <<f>> ELSE <<>>
<1>1. /\ todo[p] \in Seq(Item(p)) /\ todo[p] # <<>> /\ c \in Item(p) /\ c.op = "send"
      /\ Now(p) = c /\ c.with \notin {-1, p} /\ At(p, "send")
  BY HeadFacts DEF SendData
<1>2. q \in Party \ {p} /\ c.len \in Nat
  BY <1>1, ItemCases
<1>3. e \in EndsOf(p) /\ <<p, q>> \in Pair
  BY <1>2, OpenEnds DEF SendEnd
<1>4. Do(p, st) /\ UNCHANGED <<entered, left>>
  BY <1>1 DEF SendData
<1>5. \A x \in EndsOf(p) : ReadFrom(c, x) = <<>> /\ Written(c, x) = IF x = e THEN Ones(c.len) ELSE <<>>
  <2> SUFFICES ASSUME NEW x \in EndsOf(p)
               PROVE  ReadFrom(c, x) = <<>> /\ Written(c, x) = IF x = e THEN Ones(c.len) ELSE <<>>
    OBVIOUS
  <2>1. x[1] = p
    BY OwnEnd
  <2>2. e[2] = q
    BY DEF SendEnd
  <2>3. (q = x[2] /\ x = SendEnd(x[1], x[2])) <=> x = e
    BY <2>1, <2>2
  <2> HIDE DEF q, e
  <2>4. Written(c, x) = IF c.with = x[2] /\ x = SendEnd(x[1], x[2]) THEN Ones(c.len) ELSE <<>>
    BY <1>1 DEF Written
  <2>5. ReadFrom(c, x) = <<>>
    BY <1>1 DEF ReadFrom
  <2>. QED  BY <2>3, <2>4, <2>5 DEF q
<1>6. f \in StepsOf(p) /\ f.op = "flush" /\ f \in Item(p)
  BY <1>3, FlushStep
<1> DEFINE Fits(s) == /\ Follows(p, c, s) /\ s \in Seq(Item(p))
                     /\ \A i \in 1 .. Len(s) : s[i].op \in {"open", "flush", "crash", "leave"}
<1>7. Fits(st)
  <2>1. c.op # "sync"
    BY <1>1
  <2>2. Fits(<<>>)
    <3> DEFINE s == <<>>
    <3>1. \A i \in 1 .. Len(s) : FALSE
      OBVIOUS
    <3>2. Follows(p, c, s) /\ s \in Seq(Item(p))
      BY <2>1, EmptyFollows
    <3> HIDE DEF s
    <3>3. Fits(s)
      BY <3>1, <3>2
    <3>. QED  BY <3>3 DEF s
  <2>3. Fits(<<f>>)
    <3> HIDE DEF f, c
    <3> DEFINE s == <<f>>
    <3>2. Follows(p, c, s) /\ s \in Seq(Item(p))
      BY <1>6, <2>1, OneFollows
    <3>3. \A i \in 1 .. Len(s) : s[i] = f
      OBVIOUS
    <3> HIDE DEF s
    <3>4. Fits(s)
      BY <1>6, <3>2, <3>3
    <3>. QED  BY <3>4 DEF s
  <2> HIDE DEF Fits, f
  <2>. QED  BY <2>2, <2>3
<1> HIDE DEF st
<1>8. Replaced(p, st)
  <2>1. At(p, c.op) /\ c.op \notin {"sync", "leave"}
    BY <1>1
  <2>. QED  BY <1>4, <1>7, <2>1, DoReplaces
<1>9. \A x \in EndsOf(p) : Out(st, x) = <<>> /\ In(st, x) = <<>>
  BY <1>7, QuietSteps
<1> HIDE DEF c
<1>10. \A x \in EndsOf(p) :
                /\ Out(st, x) = <<>>
                /\ In(st, x) = ReadFrom(c, x)
                /\ Written(c, x) = IF x = SendEnd(p, q) THEN Ones(c.len) ELSE <<>>
  BY <1>5, <1>9
<1>. QED  BY <1>1, <1>2, <1>3, <1>8, <1>10 DEF c

LEMMA Syncing ==
  ASSUME TypeOK, NEW p \in Party, SendSync(p)
  PROVE  /\ Now(p) = todo[p][1] /\ Now(p).op = "sendSync" /\ Now(p).end \in EndsOf(p)
         /\ Replaced(p, <<>>)
         /\ \A x \in EndsOf(p) :
              /\ Out(<<>>, x) = <<>>
              /\ In(<<>>, x) = ReadFrom(todo[p][1], x)
              /\ Written(todo[p][1], x) = IF x = Now(p).end THEN <<0>> ELSE <<>>
<1> DEFINE c == todo[p][1]
<1>1. /\ todo[p] \in Seq(Item(p)) /\ todo[p] # <<>> /\ c \in Item(p) /\ c.op = "sendSync"
      /\ Now(p) = c /\ At(p, "sendSync")
  BY HeadFacts DEF SendSync
<1>2. c.end \in EndsOf(p)
  BY <1>1, ItemCases
<1>3. Do(p, <<>>) /\ UNCHANGED <<entered, left>>
  BY DEF SendSync, history
<1>4. Follows(p, c, <<>>) /\ <<>> \in Seq(Item(p))
  BY <1>1, EmptyFollows
<1>5. Replaced(p, <<>>)
  BY <1>1, <1>3, <1>4, DoReplaces
<1>6. \A x \in EndsOf(p) : Out(<<>>, x) = <<>> /\ In(<<>>, x) = <<>>
  BY OwnEnd, OutFacts, InFacts
<1>7. \A x \in EndsOf(p) : ReadFrom(c, x) = <<>> /\ Written(c, x) = IF x = c.end THEN <<0>> ELSE <<>>
  BY <1>1 DEF ReadFrom, Written
<1>. QED  BY <1>1, <1>2, <1>5, <1>6, <1>7

(* The steps that neither write nor read nor hand anything over.           *)
Quiet(p) == \/ Opened(p) \/ Flush(p) \/ LeaveSync(p) \/ RecvNobody(p) \/ SendNobody(p)
            \/ FlushCall(p) \/ Destroy(p) \/ EnterSync(p) \/ RecvCall(p) \/ BeginRead(p)

LEMMA QuietStep ==
  ASSUME TypeOK, StepsInv, NEW p \in Party, Quiet(p)
  PROVE  \E st : Replaced(p, st) /\ Keeps(p, st)
<1>1. CASE Opened(p) \/ Flush(p) \/ LeaveSync(p) \/ RecvNobody(p)
  BY <1>1, AtOnce
<1>2. CASE SendNobody(p) \/ FlushCall(p) \/ Destroy(p)
  BY <1>2, FlushingCalls
<1>3. CASE EnterSync(p)
  BY <1>3, Entering
<1>4. CASE RecvCall(p)
  BY <1>4, Receiving
<1>5. CASE BeginRead(p)
  BY <1>5, Beginning
<1>. QED  BY <1>1, <1>2, <1>3, <1>4, <1>5 DEF Quiet

LEMMA StepShape ==
  ASSUME TypeOK, StepsInv, NEW p \in Party, PartyStep(p)
  PROVE  UNCHANGED <<todo, entered, left>> \/ \E st : Replaced(p, st)
<1>1. CASE Listen(p) \/ Connect(p) \/ HandOver(p)
  BY <1>1 DEF Listen, Connect, HandOver, history
<1>2. CASE Quiet(p)
  BY <1>2, QuietStep
<1>3. CASE ReadUnit(p)
  BY <1>3, Reading
<1>4. CASE SendData(p)
  BY <1>4, Sending
<1>5. CASE SendSync(p)
  BY <1>5, Syncing
<1>6. Listen(p) \/ Connect(p) \/ HandOver(p) \/ Quiet(p) \/ ReadUnit(p) \/ SendData(p) \/ SendSync(p)
  BY DEF PartyStep, Quiet
<1>. QED  BY <1>1, <1>2, <1>3, <1>4, <1>5, <1>6

(* Such a step keeps the shape of what is to do and the counts of syncs.   *)
LEMMA HeadAndTail ==
  ASSUME NEW A, NEW t \in Seq(A), t # <<>>
  PROVE  t = <<t[1]>> \o Tail(t)
OBVIOUS

LEMMA ReplacedTodo ==
  ASSUME TypeOK, NEW p \in Party, NEW st, Replaced(p, st)
  PROVE  /\ todo'[p] = st \o Tail(todo[p]) /\ todo'[p] \in Seq(Item(p))
         /\ Tail(todo[p]) \in Seq(Item(p))
         /\ \A q \in Party \ {p} : todo'[q] = todo[q]
         /\ todo' = [q \in Party |-> todo'[q]]
<1>1. todo = [q \in Party |-> todo[q]]
  BY DEF TypeOK
<1>2. todo' = [todo EXCEPT ![p] = st \o Tail(@)]
  BY DEF Replaced
<1>3. /\ todo'[p] = st \o Tail(todo[p])
      /\ \A q \in Party \ {p} : todo'[q] = todo[q]
      /\ todo' = [q \in Party |-> todo'[q]]
  BY <1>1, <1>2
<1>4. todo[p] \in Seq(Item(p)) /\ todo[p] # <<>> /\ st \in Seq(Item(p))
  BY DEF Replaced
<1>5. Tail(todo[p]) \in Seq(Item(p))
  BY <1>4, TailFacts
<1>6. st \o Tail(todo[p]) \in Seq(Item(p))
  BY <1>4, <1>5, ConcatFacts
<1>. QED  BY <1>3, <1>5, <1>6

LEMMA ReplacedShape ==
  ASSUME TypeOK, StepsInv, NEW p \in Party, NEW st, Replaced(p, st)
  PROVE  StepsInv'
<1> DEFINE t == todo[p]
           r == Tail(t)
           c == t[1]
<1>1. /\ t \in Seq(Item(p)) /\ t # <<>> /\ c \in Item(p) /\ st \in Seq(Item(p)) /\ Follows(p, c, st)
      /\ todo'[p] = st \o r /\ r \in Seq(Item(p)) /\ \A q \in Party \ {p} : todo'[q] = todo[q]
  BY ReplacedTodo DEF Replaced
<1>2. Shape(p, t)
  BY DEF StepsInv, Shape
<1> HIDE DEF t, c
<1>3. Shape(p, r) /\ (c.op \in CallOps \cup {"leave"} => \A i \in 1 .. Len(r) : r[i].op \in CallOps)
  BY <1>1, <1>2, TailShape DEF c
<1> HIDE DEF r
<1>4. Shape(p, st) /\ (Plain(st) \/ \A i \in 1 .. Len(r) : r[i].op \in CallOps)
  BY <1>1, <1>3 DEF Follows
<1>5. Shape(p, st \o r)
  BY <1>1, <1>3, <1>4, JoinShape
<1>6. \A q \in Party : CallsLast(todo'[q]) /\ ReadsRight(q, todo'[q]) /\ FlushedLater(q, todo'[q])
  <2> SUFFICES ASSUME NEW q \in Party PROVE Shape(q, todo'[q])
    BY DEF Shape
  <2>1. CASE q = p
    BY <1>1, <1>5, <2>1
  <2>2. CASE q # p
    <3>1. todo'[q] = todo[q]
      BY <1>1, <2>2
    <3>2. Shape(q, todo[q])
      BY DEF StepsInv, Shape
    <3>. QED  BY <3>1, <3>2
  <2>. QED  BY <2>1, <2>2
<1>. QED  BY <1>6 DEF StepsInv

LEMMA ReplacedInSync ==
  ASSUME TypeOK, StepsInv, NEW p \in Party, NEW st, Replaced(p, st)
  PROVE  /\ todo[p][1].op \in {"sync", "leave"} => ~ InSync(Tail(todo[p]))
         /\ InSync(todo[p]) <=> todo[p][1].op = "leave" \/ InSync(Tail(todo[p]))
         /\ InSync(todo'[p]) <=> todo[p][1].op = "sync" \/ InSync(Tail(todo[p]))
<1> DEFINE t == todo[p]
           r == Tail(t)
           c == t[1]
<1>1. /\ t \in Seq(Item(p)) /\ t # <<>> /\ c \in Item(p) /\ st \in Seq(Item(p)) /\ Follows(p, c, st)
      /\ todo'[p] = st \o r /\ r \in Seq(Item(p)) /\ \A q \in Party \ {p} : todo'[q] = todo[q]
  BY ReplacedTodo DEF Replaced
<1>2. Shape(p, t)
  BY DEF StepsInv, Shape
<1> HIDE DEF t, c
<1>3. c.op \in CallOps \cup {"leave"} => \A i \in 1 .. Len(r) : r[i].op \in CallOps
  BY <1>1, <1>2, TailShape DEF c
<1>4. /\ 1 \in 1 .. Len(t)
      /\ \A i \in 1 .. Len(r) : i + 1 \in 1 .. Len(t) /\ r[i] = t[i + 1]
      /\ \A i \in 1 .. Len(t) : i = 1 \/ \E k \in 1 .. Len(r) : i = k + 1
  BY <1>1, TailFacts
<1> HIDE DEF r
<1> DEFINE u == st \o r
<1>5. /\ \A i \in 1 .. Len(st) : i \in 1 .. Len(u) /\ u[i] = st[i]
      /\ \A i \in 1 .. Len(r) : Len(st) + i \in 1 .. Len(u) /\ u[Len(st) + i] = r[i]
      /\ \A i \in 1 .. Len(u) : i \in 1 .. Len(st) \/ \E k \in 1 .. Len(r) : i = Len(st) + k
  BY <1>1, ConcatFacts
<1> HIDE DEF u
<1>6. c.op \in {"sync", "leave"} => ~ InSync(r)
  BY <1>3 DEF CallOps, InSync
<1>7. InSync(t) <=> c.op = "leave" \/ InSync(r)
  <2>1. ASSUME NEW i \in 1 .. Len(r), r[i].op = "leave" PROVE InSync(t)
    BY <1>4, <2>1 DEF InSync
  <2>2. ASSUME c.op = "leave" PROVE InSync(t)
    BY <1>4, <2>2 DEF InSync, c
  <2>3. ASSUME NEW i \in 1 .. Len(t), t[i].op = "leave", i # 1 PROVE InSync(r)
    <3>1. PICK k \in 1 .. Len(r) : i = k + 1
      BY <1>4, <2>3
    <3>2. r[k] = t[i]
      BY <1>4, <3>1
    <3>. QED  BY <2>3, <3>2 DEF InSync
  <2>. QED  BY <2>1, <2>2, <2>3 DEF InSync, c
<1>8. InSync(st) <=> c.op = "sync"
  BY <1>1 DEF Follows
<1>9. InSync(u) <=> InSync(st) \/ InSync(r)
  <2>1. ASSUME NEW i \in 1 .. Len(r), r[i].op = "leave" PROVE InSync(u)
    <3>1. Len(st) + i \in 1 .. Len(u) /\ u[Len(st) + i].op = "leave"
      BY <1>5, <2>1
    <3>. QED  BY <3>1 DEF InSync
  <2>2. ASSUME NEW i \in 1 .. Len(st), st[i].op = "leave" PROVE InSync(u)
    <3>1. i \in 1 .. Len(u) /\ u[i].op = "leave"
      BY <1>5, <2>2
    <3>. QED  BY <3>1 DEF InSync
  <2>3. ASSUME NEW i \in 1 .. Len(u), u[i].op = "leave", ~ InSync(st) PROVE InSync(r)
    <3>1. i \notin 1 .. Len(st)
      BY <1>5, <2>3 DEF InSync
    <3>2. PICK k \in 1 .. Len(r) : i = Len(st) + k
      BY <1>5, <3>1
    <3>3. r[k] = u[i]
      BY <1>5, <3>2
    <3>. QED  BY <2>3, <3>3 DEF InSync
  <2>. QED  BY <2>1, <2>2, <2>3 DEF InSync
<1>10. InSync(todo'[p]) <=> c.op = "sync" \/ InSync(r)
  BY <1>1, <1>8, <1>9 DEF u
<1>. QED  BY <1>6, <1>7, <1>10 DEF t, r, c

LEMMA ReplacedCounts ==
  ASSUME TypeOK, StepsInv, SyncInv, Together, NEW p \in Party, NEW st, Replaced(p, st)
  PROVE  SyncInv' /\ Together'
<1> DEFINE t == todo[p]
           r == Tail(t)
           c == t[1]
<1>1. /\ t \in Seq(Item(p)) /\ t # <<>> /\ c \in Item(p) /\ st \in Seq(Item(p)) /\ Follows(p, c, st)
      /\ todo'[p] = st \o r /\ r \in Seq(Item(p)) /\ \A q \in Party \ {p} : todo'[q] = todo[q]
  BY ReplacedTodo DEF Replaced
<1>2. /\ entered \in [Party -> Nat] /\ left \in [Party -> Nat]
      /\ entered' = IF c.op = "sync" THEN [entered EXCEPT ![p] = @ + 1] ELSE entered
      /\ left' = IF c.op = "leave" THEN [left EXCEPT ![p] = @ + 1] ELSE left
  BY DEF TypeOK, Replaced
<1>3. /\ c.op \in {"sync", "leave"} => ~ InSync(r)
      /\ InSync(t) <=> c.op = "leave" \/ InSync(r)
      /\ InSync(todo'[p]) <=> c.op = "sync" \/ InSync(r)
  BY ReplacedInSync
<1>4. Syncs(p, t) = (IF c.op = "sync" THEN 1 ELSE 0) + Syncs(p, r) /\ Syncs(p, r) \in Nat
  <2> HIDE DEF t, c
  <2>1. t = <<c>> \o r /\ <<c>> \in Seq(Item(p))
    BY <1>1, HeadAndTail DEF c
  <2> DEFINE h == <<c>>
  <2>2. Syncs(p, h) = IF c.op = "sync" THEN 1 ELSE 0
    BY <1>1, SyncsFacts
  <2> HIDE DEF h, r
  <2>3. Syncs(p, h \o r) = Syncs(p, h) + Syncs(p, r) /\ Syncs(p, r) \in Nat
    BY <1>1, <2>1, SyncsFacts DEF h
  <2>. QED  BY <2>1, <2>2, <2>3 DEF h
<1>5. Syncs(p, todo'[p]) = Syncs(p, r)
  <2>1. Syncs(p, st) = 0
    BY <1>1 DEF Follows
  <2> HIDE DEF r
  <2>2. Syncs(p, st \o r) = Syncs(p, st) + Syncs(p, r) /\ Syncs(p, r) \in Nat
    BY <1>1, SyncsFacts
  <2>. QED  BY <1>1, <2>1, <2>2
<1> HIDE DEF t, r, c
<1>6. \A q \in Party : entered'[q] = IF InSync(todo'[q]) THEN left'[q] + 1 ELSE left'[q]
  <2> SUFFICES ASSUME NEW q \in Party PROVE entered'[q] = IF InSync(todo'[q]) THEN left'[q] + 1 ELSE left'[q]
    OBVIOUS
  <2>1. entered[q] = IF InSync(todo[q]) THEN left[q] + 1 ELSE left[q]
    BY DEF SyncInv
  <2>2. CASE q = p
    <3>1. entered[p] = IF InSync(t) THEN left[p] + 1 ELSE left[p]
      BY <2>1, <2>2 DEF t
    <3>2. CASE c.op = "sync"
      BY <1>2, <1>3, <2>2, <3>1, <3>2
    <3>3. CASE c.op = "leave"
      BY <1>2, <1>3, <2>2, <3>1, <3>3
    <3>4. CASE c.op \notin {"sync", "leave"}
      BY <1>2, <1>3, <2>2, <3>1, <3>4
    <3>. QED  BY <3>2, <3>3, <3>4
  <2>3. CASE q # p
    <3>1. todo'[q] = todo[q] /\ entered'[q] = entered[q] /\ left'[q] = left[q]
      BY <1>1, <1>2, <2>3
    <3>. QED  BY <2>1, <3>1
  <2>. QED  BY <2>2, <2>3
<1>7. \A q \in Party : entered'[q] + Syncs(q, todo'[q]) = entered[q] + Syncs(q, todo[q])
  <2> SUFFICES ASSUME NEW q \in Party PROVE entered'[q] + Syncs(q, todo'[q]) = entered[q] + Syncs(q, todo[q])
    OBVIOUS
  <2>1. CASE q = p
    <3>1. Syncs(q, todo[q]) = (IF c.op = "sync" THEN 1 ELSE 0) + Syncs(p, r) /\ Syncs(q, todo'[q]) = Syncs(p, r)
      BY <1>4, <1>5, <2>1 DEF t
    <3>2. entered'[q] = IF c.op = "sync" THEN entered[q] + 1 ELSE entered[q]
      BY <1>2, <2>1
    <3>3. entered[q] \in Nat
      BY <1>2
    <3>. QED  BY <1>4, <3>1, <3>2, <3>3
  <2>2. CASE q # p
    BY <1>1, <1>2, <2>2
  <2>. QED  BY <2>1, <2>2
<1>8. \A q, s \in Party : entered'[q] + Syncs(q, todo'[q]) = entered'[s] + Syncs(s, todo'[s])
  BY <1>7 DEF Together
<1>. QED  BY <1>6, <1>8 DEF SyncInv, Together
-----------------------------------------------------------------------------
(* The state stays of its type; a party never owes a connection more than  *)
(* its buffer holds, and never two connections at once.                    *)
BuffersOK ==
  /\ buf \in [End -> Seq(Nat)] /\ wire \in [End -> Seq(Nat)]
  /\ due \in [End -> Nat] /\ hasSent \in [End -> BOOLEAN]
  /\ \A e \in End : due[e] <= Len(buf[e]) /\ Len(wire[e]) <= Capacity
  /\ \A e, f \in End : e[1] = f[1] /\ due[e] > 0 /\ due[f] > 0 => e = f

LEMMA DueKept ==
  ASSUME TypeOK, NEW p \in Party, NEW e \in EndsOf(p), \A x \in EndsOf(p) : due[x] = 0,
         NEW n \in Nat, due' = [due EXCEPT ![e] = n],
         buf' \in [End -> Seq(Nat)], n <= Len(buf'[e]), \A x \in End \ {e} : buf'[x] = buf[x],
         hasSent' \in [End -> BOOLEAN], wire' = wire
  PROVE  BuffersOK'
<1>1. e \in End /\ e[1] = p /\ due \in [End -> Nat]
  BY OwnEnd DEF TypeOK
<1>2. due' \in [End -> Nat] /\ due'[e] = n /\ \A x \in End \ {e} : due'[x] = due[x]
  BY <1>1
<1>3. \A x \in End : due'[x] <= Len(buf'[x]) /\ Len(wire'[x]) <= Capacity
  <2> SUFFICES ASSUME NEW x \in End PROVE due'[x] <= Len(buf'[x]) /\ Len(wire'[x]) <= Capacity
    OBVIOUS
  <2>1. due[x] <= Len(buf[x]) /\ Len(wire[x]) <= Capacity
    BY DEF TypeOK
  <2>2. CASE x = e
    BY <1>2, <2>1, <2>2
  <2>3. CASE x # e
    BY <1>2, <2>1, <2>3
  <2>. QED  BY <2>2, <2>3
<1>4. ASSUME NEW x \in End, NEW y \in End, x[1] = y[1], due'[x] > 0, due'[y] > 0 PROVE x = y
  <2>1. CASE x[1] = p
    <3>1. \A z \in End : z[1] = p /\ due'[z] > 0 => z = e
      BY <1>2 DEF EndsOf
    <3>. QED  BY <1>4, <2>1, <3>1
  <2>2. CASE x[1] # p
    <3>1. due'[x] = due[x] /\ due'[y] = due[y]
      BY <1>1, <1>2, <1>4, <2>2
    <3>. QED  BY <1>4, <3>1 DEF TypeOK
  <2>. QED  BY <2>1, <2>2
<1>5. wire' \in [End -> Seq(Nat)]
  BY DEF TypeOK
<1>. QED  BY <1>2, <1>3, <1>4, <1>5 DEF BuffersOK

LEMMA SpillBound ==
  ASSUME NEW old \in Nat, NEW new \in Nat
  PROVE  Spill(old, new) \in Nat /\ Spill(old, new) <= old + new
BY NetAssumption DEF Spill

LEMMA WriteKept ==
  ASSUME TypeOK, NEW p \in Party, NEW e \in EndsOf(p), \A x \in EndsOf(p) : due[x] = 0,
         NEW units \in Seq(Nat), WriteTo(e, units), wire' = wire
  PROVE  /\ BuffersOK'
         /\ buf'[e] = buf[e] \o units /\ \A x \in End \ {e} : buf'[x] = buf[x]
<1>1. e \in End /\ buf \in [End -> Seq(Nat)] /\ hasSent \in [End -> BOOLEAN] /\ buf[e] \in Seq(Nat)
  BY OwnEnd DEF TypeOK
<1> DEFINE new == buf[e] \o units
           n == Spill(Len(buf[e]), Len(units))
<1>2. new \in Seq(Nat) /\ Len(new) = Len(buf[e]) + Len(units) /\ Len(buf[e]) \in Nat /\ Len(units) \in Nat
  BY <1>1, ConcatFacts
<1>3. n \in Nat /\ n <= Len(new)
  BY <1>2, SpillBound
<1>4. buf' = [buf EXCEPT ![e] = new] /\ due' = [due EXCEPT ![e] = n] /\ hasSent' = [hasSent EXCEPT ![e] = TRUE]
  BY DEF WriteTo
<1> HIDE DEF new, n
<1>5. buf' \in [End -> Seq(Nat)] /\ buf'[e] = new /\ \A x \in End \ {e} : buf'[x] = buf[x]
  BY <1>1, <1>2, <1>4
<1>6. hasSent' \in [End -> BOOLEAN]
  BY <1>1, <1>4
<1>7. n <= Len(buf'[e])
  BY <1>3, <1>5
<1>8. BuffersOK'
  BY <1>3, <1>4, <1>5, <1>6, <1>7, DueKept
<1>. QED  BY <1>5, <1>8 DEF new

LEMMA HandOverKept ==
  ASSUME TypeOK, NEW p \in Party, NEW e \in EndsOf(p), due[e] > 0, Len(wire[e]) < Capacity,
         wire' = [wire EXCEPT ![e] = Append(@, Head(buf[e]))], buf' = [buf EXCEPT ![e] = Tail(@)],
         due' = [due EXCEPT ![e] = @ - 1], hasSent' = hasSent
  PROVE  /\ BuffersOK'
         /\ e \in End /\ e[1] = p /\ buf[e] \in Seq(Nat) /\ buf[e] # <<>> /\ wire[e] \in Seq(Nat)
         /\ wire'[e] = Append(wire[e], Head(buf[e])) /\ buf'[e] = Tail(buf[e]) /\ due'[e] = due[e] - 1
         /\ \A x \in End \ {e} : wire'[x] = wire[x] /\ buf'[x] = buf[x] /\ due'[x] = due[x]
<1>1. /\ e \in End /\ e[1] = p /\ buf \in [End -> Seq(Nat)] /\ wire \in [End -> Seq(Nat)] /\ due \in [End -> Nat]
      /\ hasSent \in [End -> BOOLEAN]
  BY OwnEnd DEF TypeOK
<1>2. buf[e] \in Seq(Nat) /\ wire[e] \in Seq(Nat) /\ due[e] \in Nat /\ Len(buf[e]) \in Nat /\ Len(wire[e]) \in Nat
  BY <1>1
<1>3. due[e] <= Len(buf[e])
  BY <1>1 DEF TypeOK
<1>4. buf[e] # <<>>
  <2>1. Len(buf[e]) # 0
    BY <1>2, <1>3
  <2>. QED  BY <2>1
<1>5. /\ Head(buf[e]) \in Nat /\ Tail(buf[e]) \in Seq(Nat) /\ Len(Tail(buf[e])) = Len(buf[e]) - 1
      /\ Append(wire[e], Head(buf[e])) \in Seq(Nat) /\ Len(Append(wire[e], Head(buf[e]))) = Len(wire[e]) + 1
  BY <1>2, <1>4
<1>6. /\ wire'[e] = Append(wire[e], Head(buf[e])) /\ buf'[e] = Tail(buf[e]) /\ due'[e] = due[e] - 1
      /\ \A x \in End \ {e} : wire'[x] = wire[x] /\ buf'[x] = buf[x] /\ due'[x] = due[x]
  BY <1>1
<1>7. due[e] - 1 \in Nat /\ due[e] - 1 <= Len(Tail(buf[e])) /\ Len(wire[e]) + 1 <= Capacity
  <2> DEFINE d == due[e]
             b == Len(buf[e])
             w == Len(wire[e])
             l == Len(Tail(buf[e]))
  <2>1. d \in Nat /\ b \in Nat /\ w \in Nat
    BY <1>2
  <2>2. d > 0 /\ d <= b /\ l = b - 1 /\ w < Capacity /\ Capacity \in Nat
    BY <1>3, <1>5, NetAssumption
  <2> HIDE DEF d, b, w, l
  <2>3. d - 1 \in Nat /\ d - 1 <= l /\ w + 1 <= Capacity
    BY <2>1, <2>2
  <2>. QED  BY <2>3 DEF d, l, w
<1>8. buf' \in [End -> Seq(Nat)] /\ wire' \in [End -> Seq(Nat)] /\ due' \in [End -> Nat] /\ hasSent' \in [End -> BOOLEAN]
  BY <1>1, <1>5, <1>7
<1>9. \A x \in End : due'[x] <= Len(buf'[x]) /\ Len(wire'[x]) <= Capacity
  <2> SUFFICES ASSUME NEW x \in End PROVE due'[x] <= Len(buf'[x]) /\ Len(wire'[x]) <= Capacity
    OBVIOUS
  <2>1. due[x] <= Len(buf[x]) /\ Len(wire[x]) <= Capacity
    BY DEF TypeOK
  <2>2. CASE x = e
    BY <1>5, <1>6, <1>7, <2>2
  <2>3. CASE x # e
    BY <1>6, <2>1, <2>3
  <2>. QED  BY <2>2, <2>3
<1>10. \A x \in End : due'[x] > 0 => due[x] > 0
  BY <1>2, <1>6
<1>11. \A x, y \in End : x[1] = y[1] /\ due'[x] > 0 /\ due'[y] > 0 => x = y
  BY <1>10 DEF TypeOK
<1>12. BuffersOK'
  BY <1>8, <1>9, <1>11 DEF BuffersOK
<1>. QED  BY <1>1, <1>2, <1>4, <1>6, <1>12

(* The party's end that hands a unit over, and what becomes of it.         *)
LEMMA HandingOver ==
  ASSUME TypeOK, NEW p \in Party, HandOver(p)
  PROVE  \E x \in EndsOf(p) :
           /\ todo' = todo
           /\ x \in End /\ buf[x] \in Seq(Nat) /\ buf[x] # <<>> /\ wire[x] \in Seq(Nat)
           /\ wire'[x] = Append(wire[x], Head(buf[x])) /\ buf'[x] = Tail(buf[x]) /\ due'[x] = due[x] - 1
           /\ \A y \in End \ {x} : wire'[y] = wire[y] /\ buf'[y] = buf[y] /\ due'[y] = due[y]
<1>1. PICK x \in EndsOf(p) :
          /\ due[x] > 0 /\ Len(wire[x]) < Capacity
          /\ wire' = [wire EXCEPT ![x] = Append(@, Head(buf[x]))]
          /\ buf' = [buf EXCEPT ![x] = Tail(@)] /\ due' = [due EXCEPT ![x] = @ - 1] /\ hasSent' = hasSent
          /\ todo' = todo
  BY DEF HandOver
<1>2. /\ x \in End /\ buf[x] \in Seq(Nat) /\ buf[x] # <<>> /\ wire[x] \in Seq(Nat)
      /\ wire'[x] = Append(wire[x], Head(buf[x])) /\ buf'[x] = Tail(buf[x]) /\ due'[x] = due[x] - 1
      /\ \A y \in End \ {x} : wire'[y] = wire[y] /\ buf'[y] = buf[y] /\ due'[y] = due[y]
  BY <1>1, HandOverKept, ZenonT(60)
<1>3. todo' = todo
  BY <1>1
<1>. QED  BY <1>2, <1>3

LEMMA UnitsTyped ==
  ASSUME NEW w \in Nat, NEW n \in Nat
  PROVE  /\ [i \in 1 .. n |-> w + i] \in Seq(Nat) /\ Len([i \in 1 .. n |-> w + i]) = n
         /\ [i \in 1 .. n |-> w + i] \in Seq(Nat \ {0})
<1> DEFINE u == [i \in 1 .. n |-> w + i]
           P == Nat \ {0}
<1>1. u \in [1 .. n -> Nat] /\ u \in [1 .. n -> P]
  OBVIOUS
<1> HIDE DEF u, P
<1>2. u \in Seq(Nat) /\ Len(u) = n /\ u \in Seq(P)
  BY <1>1, FunIsSeq
<1>. QED  BY <1>2 DEF u, P

LEMMA ReadsOwnEnd ==
  ASSUME TypeOK, NEW p \in Party, ReadUnit(p)
  PROVE  Now(p).end \in EndsOf(p)
<1>1. todo[p][1] \in Item(p) /\ todo[p][1].op \in {"read", "readSync"} /\ Now(p) = todo[p][1]
  BY HeadFacts DEF ReadUnit
<1>. QED  BY <1>1, ItemCases

LEMMA DataStep ==
  ASSUME TypeOK, NEW p \in Party, PartyStep(p)
  PROVE  BuffersOK'
<1>0. BuffersOK
  BY DEF TypeOK, BuffersOK
<1>1. CASE HandOver(p)
  <2>1. PICK e \in EndsOf(p) :
          /\ due[e] > 0 /\ Len(wire[e]) < Capacity
          /\ wire' = [wire EXCEPT ![e] = Append(@, Head(buf[e]))]
          /\ buf' = [buf EXCEPT ![e] = Tail(@)] /\ due' = [due EXCEPT ![e] = @ - 1] /\ hasSent' = hasSent
    BY <1>1 DEF HandOver
  <2>. QED  BY <2>1, HandOverKept
<1>2. CASE Flush(p)
  <2> DEFINE e == Now(p).end
  <2>1. todo[p][1] \in Item(p) /\ todo[p][1].op = "flush" /\ Now(p) = todo[p][1] /\ \A x \in EndsOf(p) : due[x] = 0
    BY <1>2, HeadFacts DEF Flush
  <2>2. e \in EndsOf(p)
    BY <2>1, ItemCases
  <2>3. due' = [due EXCEPT ![e] = Len(buf[e])] /\ buf' = buf /\ wire' = wire /\ hasSent' = hasSent
    BY <1>2 DEF Flush
  <2>4. e \in End /\ buf \in [End -> Seq(Nat)] /\ hasSent \in [End -> BOOLEAN]
    BY <2>2, OwnEnd DEF TypeOK
  <2> HIDE DEF e
  <2>5. Len(buf[e]) \in Nat /\ Len(buf[e]) <= Len(buf'[e])
    BY <2>3, <2>4
  <2>. QED  BY <2>1, <2>2, <2>3, <2>4, <2>5, DueKept
<1>3. CASE BeginRead(p)
  <2> DEFINE e == Now(p).end
             n == IF hasSent[e] THEN Len(buf[e]) ELSE 0
  <2>1. todo[p][1] \in Item(p) /\ todo[p][1].op \in {"recvData", "recvSync"} /\ Now(p) = todo[p][1] /\ \A x \in EndsOf(p) : due[x] = 0
    BY <1>3, HeadFacts DEF BeginRead
  <2>2. e \in EndsOf(p)
    BY <2>1, ItemCases
  <2>3. due' = [due EXCEPT ![e] = n] /\ buf' = buf /\ wire' = wire /\ hasSent' = [hasSent EXCEPT ![e] = FALSE]
    BY <1>3 DEF BeginRead
  <2>4. e \in End /\ buf \in [End -> Seq(Nat)] /\ hasSent \in [End -> BOOLEAN]
    BY <2>2, OwnEnd DEF TypeOK
  <2> HIDE DEF e
  <2>5. n \in Nat /\ n <= Len(buf'[e])
    BY <2>3, <2>4
  <2>6. hasSent' \in [End -> BOOLEAN]
    BY <2>3, <2>4
  <2> HIDE DEF n
  <2>. QED  BY <2>1, <2>2, <2>3, <2>4, <2>5, <2>6, DueKept
<1>4. CASE SendData(p)
  <2>1. PICK q \in Party \ {p} : q = Now(p).with /\ Now(p).len \in Nat /\ SendEnd(p, q) \in EndsOf(p) /\ <<p, q>> \in Pair
    BY <1>4, Sending
  <2> DEFINE u == [i \in 1 .. Now(p).len |-> wrote[<<p, q>>] + i]
  <2>2. WriteTo(SendEnd(p, q), u) /\ wire' = wire
    BY <1>4, <2>1 DEF SendData
  <2>3. u \in Seq(Nat)
    <3>1. wrote[<<p, q>>] \in Nat
      BY <2>1 DEF TypeOK
    <3>. QED  BY <2>1, <3>1, UnitsTyped
  <2>4. \A x \in EndsOf(p) : due[x] = 0
    BY <1>4 DEF SendData, At
  <2> HIDE DEF u
  <2>. QED  BY <2>1, <2>2, <2>3, <2>4, WriteKept
<1>5. CASE SendSync(p)
  <2>1. Now(p).end \in EndsOf(p)
    BY <1>5, Syncing
  <2> DEFINE u == <<SyncByte>>
  <2>2. WriteTo(Now(p).end, u) /\ wire' = wire
    BY <1>5 DEF SendSync
  <2>3. u \in Seq(Nat)
    BY DEF SyncByte
  <2>4. \A x \in EndsOf(p) : due[x] = 0
    BY <1>5 DEF SendSync, At
  <2> HIDE DEF u
  <2>. QED  BY <2>1, <2>2, <2>3, <2>4, WriteKept
<1>6. CASE ReadUnit(p)
  <2> DEFINE f == Peer(Now(p).end)
  <2>1. Now(p).end \in EndsOf(p)
    BY <1>6, ReadsOwnEnd
  <2>2. f \in End
    BY <2>1, OwnEnd, EndFacts
  <2>3. wire[f] # <<>> /\ wire' = [wire EXCEPT ![f] = Tail(@)] /\ UNCHANGED <<buf, due, hasSent>>
    BY <1>6 DEF ReadUnit
  <2> HIDE DEF f
  <2>4. wire \in [End -> Seq(Nat)] /\ wire[f] \in Seq(Nat)
    BY <2>2 DEF TypeOK
  <2>5. Tail(wire[f]) \in Seq(Nat) /\ Len(Tail(wire[f])) <= Len(wire[f])
    BY <2>3, <2>4
  <2>6. wire' \in [End -> Seq(Nat)] /\ wire'[f] = Tail(wire[f]) /\ \A x \in End \ {f} : wire'[x] = wire[x]
    BY <2>2, <2>3, <2>4, <2>5
  <2>7. \A x \in End : Len(wire'[x]) <= Capacity
    <3>1. Len(Tail(wire[f])) <= Capacity
      <4>1. Len(wire[f]) \in Nat /\ Len(Tail(wire[f])) \in Nat /\ Len(wire[f]) <= Capacity /\ Capacity \in Nat
        BY <2>2, <2>4, <2>5, NetAssumption DEF TypeOK
      <4>. QED  BY <2>5, <4>1
    <3>. QED  BY <2>6, <3>1 DEF TypeOK
  <2>. QED  BY <1>0, <2>3, <2>6, <2>7 DEF BuffersOK
<1>7. CASE UNCHANGED <<buf, due, wire, hasSent>>
  BY <1>0, <1>7 DEF BuffersOK
<1>8. HandOver(p) \/ Flush(p) \/ BeginRead(p) \/ SendData(p) \/ SendSync(p) \/ ReadUnit(p) \/ UNCHANGED <<buf, due, wire, hasSent>>
  <2>1. CASE Listen(p) \/ Connect(p) \/ Opened(p) \/ LeaveSync(p) \/ RecvNobody(p) \/ SendNobody(p) \/ FlushCall(p) \/ Destroy(p) \/ EnterSync(p) \/ RecvCall(p)
    BY <2>1 DEF Listen, Connect, Opened, LeaveSync, RecvNobody, SendNobody, FlushCall, Destroy, EnterSync, RecvCall
  <2>. QED  BY <2>1 DEF PartyStep
<1>. QED  BY <1>1, <1>2, <1>3, <1>4, <1>5, <1>6, <1>7, <1>8

LEMMA OthersStep ==
  ASSUME TypeOK, NEW p \in Party, PartyStep(p)
  PROVE  /\ build' \in Builds
         /\ status' \in [End -> {"closed", "listening", "connected", "open"}]
         /\ sent' \in [Pair -> BOOLEAN]
         /\ wrote' \in [Pair -> Nat] /\ got' \in [Pair -> Seq(Nat)]
<1>0. /\ build \in Builds
      /\ status \in [End -> {"closed", "listening", "connected", "open"}]
      /\ sent \in [Pair -> BOOLEAN]
      /\ wrote \in [Pair -> Nat] /\ got \in [Pair -> Seq(Nat)]
  BY DEF TypeOK
<1>1. CASE Listen(p) \/ Connect(p) \/ Opened(p)
  <2>1. status' \in [End -> {"closed", "listening", "connected", "open"}]
    <3>1. PICK v \in {"closed", "listening", "connected", "open"} : status' = [status EXCEPT ![Now(p).end] = v]
      BY <1>1 DEF Listen, Connect, Opened
    <3>. QED  BY <1>0, <3>1
  <2>2. UNCHANGED <<build, sent, wrote, got>>
    BY <1>1 DEF Listen, Connect, Opened, history
  <2>. QED  BY <1>0, <2>1, <2>2
<1>2. CASE SendData(p)
  <2>1. PICK q \in Party \ {p} : q = Now(p).with /\ Now(p).len \in Nat /\ <<p, q>> \in Pair
    BY <1>2, Sending
  <2>2. UNCHANGED <<build, status, got>> /\ wrote' = [wrote EXCEPT ![<<p, q>>] = @ + Now(p).len] /\ sent' = [sent EXCEPT ![<<p, q>>] = TRUE]
    BY <1>2, <2>1 DEF SendData
  <2>. QED  BY <1>0, <2>1, <2>2
<1>3. CASE ReadUnit(p)
  <2> DEFINE f == Peer(Now(p).end)
  <2>1. f \in End
    BY <1>3, ReadsOwnEnd, OwnEnd, EndFacts
  <2>2. UNCHANGED <<build, status, sent, wrote>> /\ wire[f] # <<>>
    BY <1>3 DEF ReadUnit
  <2>3. got' = [got EXCEPT ![PairOf(f)] = Append(@, Head(wire[f]))] \/ got' = got
    BY <1>3 DEF ReadUnit
  <2> HIDE DEF f
  <2>4. Head(wire[f]) \in Nat
    BY <2>1, <2>2 DEF TypeOK
  <2>5. got' \in [Pair -> Seq(Nat)]
    <3> DEFINE v == Head(wire[f])
    <3> HIDE DEF v
    <3>1. v \in Nat
      BY <2>4 DEF v
    <3>2. CASE got' = got
      BY <1>0, <3>2
    <3>3. CASE got' = [got EXCEPT ![PairOf(f)] = Append(@, v)]
      <4>1. \A d \in Pair : Append(got[d], v) \in Seq(Nat)
        BY <1>0, <3>1
      <4>. QED  BY <1>0, <3>3, <4>1
    <3>. QED  BY <2>3, <3>2, <3>3 DEF v
  <2>. QED  BY <1>0, <2>2, <2>5
<1>4. CASE UNCHANGED <<build, status, sent, wrote, got>>
  BY <1>0, <1>4
<1>5. Listen(p) \/ Connect(p) \/ Opened(p) \/ SendData(p) \/ ReadUnit(p) \/ UNCHANGED <<build, status, sent, wrote, got>>
  <2>1. CASE HandOver(p) \/ Flush(p) \/ BeginRead(p) \/ SendSync(p) \/ LeaveSync(p) \/ RecvNobody(p) \/ SendNobody(p) \/ FlushCall(p) \/ Destroy(p) \/ EnterSync(p) \/ RecvCall(p)
    BY <2>1 DEF HandOver, Flush, BeginRead, SendSync, LeaveSync, RecvNobody, SendNobody, FlushCall, Destroy, EnterSync, RecvCall, history
  <2>. QED  BY <2>1 DEF PartyStep
<1>. QED  BY <1>1, <1>2, <1>3, <1>4, <1>5

LEMMA TypeStep ==
  ASSUME TypeOK, StepsInv, NEW p \in Party, PartyStep(p)
  PROVE  TypeOK'
<1>1. /\ todo' = [q \in Party |-> todo'[q]]
      /\ \A q \in Party : todo'[q] \in Seq(Call(q) \cup StepsOf(q))
      /\ entered' \in [Party -> Nat] /\ left' \in [Party -> Nat]
  <2>1. /\ todo = [q \in Party |-> todo[q]] /\ \A q \in Party : todo[q] \in Seq(Item(q))
        /\ entered \in [Party -> Nat] /\ left \in [Party -> Nat]
    BY DEF TypeOK, Item
  <2>2. CASE UNCHANGED <<todo, entered, left>>
    BY <2>1, <2>2 DEF Item
  <2>3. ASSUME NEW st, Replaced(p, st)
        PROVE  /\ todo' = [q \in Party |-> todo'[q]]
               /\ \A q \in Party : todo'[q] \in Seq(Item(q))
               /\ entered' \in [Party -> Nat] /\ left' \in [Party -> Nat]
    <3>1. /\ entered' = [entered EXCEPT ![p] = @ + 1] \/ entered' = entered
          /\ left' = [left EXCEPT ![p] = @ + 1] \/ left' = left
      BY <2>3 DEF Replaced
    <3>2. entered' \in [Party -> Nat] /\ left' \in [Party -> Nat]
      <4>1. entered \in [Party -> Nat]
        BY <2>1
      <4>2. left \in [Party -> Nat]
        BY <2>1
      <4>3. entered' \in [Party -> Nat]
        BY <3>1, <4>1
      <4>4. left' \in [Party -> Nat]
        BY <3>1, <4>2
      <4>. QED  BY <4>3, <4>4
    <3>3. todo'[p] \in Seq(Item(p)) /\ (\A q \in Party \ {p} : todo'[q] = todo[q]) /\ todo' = [q \in Party |-> todo'[q]]
      BY <2>3, ReplacedTodo
    <3>4. \A q \in Party : todo'[q] \in Seq(Item(q))
      BY <2>1, <3>3
    <3>. QED  BY <3>2, <3>3, <3>4
  <2>. QED  BY <2>2, <2>3, StepShape DEF Item
<1>2. BuffersOK'
  BY DataStep
<1>3. /\ build' \in Builds
      /\ status' \in [End -> {"closed", "listening", "connected", "open"}]
      /\ sent' \in [Pair -> BOOLEAN]
      /\ wrote' \in [Pair -> Nat] /\ got' \in [Pair -> Seq(Nat)]
  BY OthersStep
<1>. QED  BY <1>1, <1>2, <1>3 DEF TypeOK, BuffersOK
-----------------------------------------------------------------------------
(* In a sync, what is in a buffer of data will be handed over before the   *)
(* party leaves.                                                           *)
LEMMA OwnEndsOnly ==
  ASSUME TypeOK, NEW p \in Party, PartyStep(p), NEW x \in End, x[1] # p
  PROVE  buf'[x] = buf[x] /\ due'[x] = due[x] /\ todo'[x[1]] = todo[x[1]]
<1>0. x[1] \in Party /\ buf = [e \in End |-> buf[e]] /\ due = [e \in End |-> due[e]] /\ todo = [q \in Party |-> todo[q]]
  BY EndFacts DEF TypeOK
<1>1. \A e \in EndsOf(p) : e # x
  BY DEF EndsOf
<1>2. CASE HandOver(p)
  <2>1. todo' = todo
    BY <1>2 DEF HandOver
  <2>2. PICK e \in EndsOf(p) : buf' = [buf EXCEPT ![e] = Tail(@)] /\ due' = [due EXCEPT ![e] = @ - 1]
    BY <1>2 DEF HandOver
  <2>3. e # x
    BY <1>1
  <2>4. buf'[x] = buf[x] /\ due'[x] = due[x]
    BY <1>0, <2>2, <2>3
  <2>. QED  BY <2>1, <2>4
<1>3. CASE Flush(p) \/ BeginRead(p)
  <2>1. Now(p) = todo[p][1] /\ todo[p][1] \in Item(p) /\ todo[p][1].op \in {"flush", "recvData", "recvSync"}
    BY <1>3, HeadFacts DEF Flush, BeginRead
  <2>2. Now(p).end # x
    BY <1>1, <2>1, ItemCases
  <2>3. PICK n : due' = [due EXCEPT ![Now(p).end] = n]
    BY <1>3 DEF Flush, BeginRead
  <2>4. buf' = buf
    BY <1>3 DEF Flush, BeginRead
  <2>5. due'[x] = due[x]
    BY <1>0, <2>2, <2>3
  <2>6. PICK st : todo' = [todo EXCEPT ![p] = st \o Tail(@)]
    BY <1>3 DEF Flush, BeginRead, Do
  <2>7. todo'[x[1]] = todo[x[1]]
    BY <1>0, <2>6
  <2>. QED  BY <2>4, <2>5, <2>7
<1>4. CASE SendData(p)
  <2>1. PICK q \in Party \ {p} : q = Now(p).with /\ SendEnd(p, q) \in EndsOf(p)
    BY <1>4, Sending
  <2>2. SendEnd(p, q) # x
    BY <1>1, <2>1
  <2>3. PICK u : WriteTo(SendEnd(p, q), u)
    BY <1>4, <2>1 DEF SendData
  <2>4. buf'[x] = buf[x] /\ due'[x] = due[x]
    BY <1>0, <2>2, <2>3 DEF WriteTo
  <2>5. PICK st : todo' = [todo EXCEPT ![p] = st \o Tail(@)]
    BY <1>4 DEF SendData, Do
  <2>6. todo'[x[1]] = todo[x[1]]
    BY <1>0, <2>5
  <2>. QED  BY <2>4, <2>6
<1>5. CASE SendSync(p)
  <2>2. Now(p).end # x
    BY <1>1, <1>5, Syncing
  <2>3. WriteTo(Now(p).end, <<SyncByte>>)
    BY <1>5 DEF SendSync
  <2>4. buf'[x] = buf[x] /\ due'[x] = due[x]
    BY <1>0, <2>2, <2>3 DEF WriteTo
  <2>5. PICK st : todo' = [todo EXCEPT ![p] = st \o Tail(@)]
    BY <1>5 DEF SendSync, Do
  <2>6. todo'[x[1]] = todo[x[1]]
    BY <1>0, <2>5
  <2>. QED  BY <2>4, <2>6
<1>6. CASE /\ UNCHANGED <<buf, due>>
           /\ todo' = todo \/ \E st : todo' = [todo EXCEPT ![p] = st \o Tail(@)]
  <2>1. todo'[x[1]] = todo[x[1]]
    BY <1>0, <1>6
  <2>. QED  BY <1>6, <2>1
<1>7. \/ HandOver(p) \/ Flush(p) \/ BeginRead(p) \/ SendData(p) \/ SendSync(p)
      \/ /\ UNCHANGED <<buf, due>>
         /\ todo' = todo \/ \E st : todo' = [todo EXCEPT ![p] = st \o Tail(@)]
  <2>1. CASE Listen(p) \/ Connect(p)
    BY <2>1 DEF Listen, Connect
  <2>2. CASE Opened(p) \/ ReadUnit(p) \/ LeaveSync(p) \/ RecvNobody(p) \/ SendNobody(p) \/ FlushCall(p) \/ Destroy(p) \/ EnterSync(p) \/ RecvCall(p)
    <3>1. UNCHANGED <<buf, due>>
      BY <2>2 DEF Opened, ReadUnit, LeaveSync, RecvNobody, SendNobody, FlushCall, Destroy, EnterSync, RecvCall
    <3>2. \E st : Do(p, st)
      BY <2>2 DEF Opened, ReadUnit, LeaveSync, RecvNobody, SendNobody, FlushCall, Destroy, EnterSync, RecvCall
    <3>. QED  BY <3>1, <3>2 DEF Do
  <2>. QED  BY <2>1, <2>2 DEF PartyStep
<1>. QED  BY <1>2, <1>3, <1>4, <1>5, <1>6, <1>7

LEMMA InTail ==
  ASSUME NEW A, NEW s \in Seq(A), NEW r \in Seq(A), NEW k \in 1 .. Len(r)
  PROVE  \E i \in 1 .. Len(s \o r) : (s \o r)[i] = r[k]
<1>1. Len(s) + k \in 1 .. Len(s \o r) /\ (s \o r)[Len(s) + k] = r[k]
  BY ConcatFacts
<1>. QED  BY <1>1

LEMMA InFront ==
  ASSUME NEW A, NEW s \in Seq(A), NEW r \in Seq(A), NEW k \in 1 .. Len(s)
  PROVE  \E i \in 1 .. Len(s \o r) : (s \o r)[i] = s[k]
<1>1. k \in 1 .. Len(s \o r) /\ (s \o r)[k] = s[k]
  BY ConcatFacts
<1>. QED  BY <1>1

LEMMA FlushKept ==
  ASSUME TypeOK, StepsInv, FlushInv, NEW p \in Party, PartyStep(p)
  PROVE  FlushInv'
<1> DEFINE Flushes(t, e) == \E i \in 1 .. Len(t) : t[i] = Step("flush", e)
<1> SUFFICES ASSUME NEW d \in Pair, InSync(todo'[d[1]])
             PROVE  LET e == SendEnd(d[1], d[2]) IN Flushes(todo'[d[1]], e) \/ due'[e] = Len(buf'[e])
  BY DEF FlushInv
<1> DEFINE e == SendEnd(d[1], d[2])
           Safe == Flushes(todo'[d[1]], e) \/ due'[e] = Len(buf'[e])
<1>0. /\ e \in End /\ e[1] = d[1] /\ e[2] = d[2] /\ d[1] \in Party /\ d[2] \in Party /\ d[1] # d[2]
      /\ e = SendEnd(d[1], e[2])
  BY PairFacts
<1>1. InSync(todo[d[1]]) => Flushes(todo[d[1]], e) \/ due[e] = Len(buf[e])
  BY DEF FlushInv
<1> HIDE DEF Flushes, e
<1>2. CASE d[1] # p
  <2>1. buf'[e] = buf[e] /\ due'[e] = due[e] /\ todo'[e[1]] = todo[e[1]]
    BY <1>0, <1>2, OwnEndsOnly
  <2>. QED  BY <1>0, <1>1, <2>1 DEF e
<1>3. CASE d[1] = p
  <2>0. e \in EndsOf(p) /\ e[1] = p /\ e = SendEnd(p, e[2])
    BY <1>0, <1>3 DEF EndsOf
  <2>1. CASE Listen(p) \/ Connect(p)
    <3>1. UNCHANGED <<todo, buf, due>>
      BY <2>1 DEF Listen, Connect
    <3>2. Safe
      BY <1>1, <3>1
    <3>. QED  BY <3>2 DEF e
  <2>2. CASE HandOver(p)
    <3>1. PICK x \in EndsOf(p) :
          /\ todo' = todo
          /\ x \in End /\ buf[x] \in Seq(Nat) /\ buf[x] # <<>> /\ wire[x] \in Seq(Nat)
          /\ wire'[x] = Append(wire[x], Head(buf[x])) /\ buf'[x] = Tail(buf[x]) /\ due'[x] = due[x] - 1
          /\ \A y \in End \ {x} : wire'[y] = wire[y] /\ buf'[y] = buf[y] /\ due'[y] = due[y]
      BY <2>2, HandingOver
    <3>2. /\ buf[x] \in Seq(Nat) /\ buf[x] # <<>> /\ buf'[x] = Tail(buf[x]) /\ due'[x] = due[x] - 1
          /\ \A y \in End \ {x} : buf'[y] = buf[y] /\ due'[y] = due[y]
      BY <3>1
    <3>3. due[x] = Len(buf[x]) => due'[x] = Len(buf'[x])
      BY <3>2
    <3>4. due[e] = Len(buf[e]) => due'[e] = Len(buf'[e])
      BY <1>0, <3>2, <3>3
    <3>5. Safe
      BY <1>1, <3>1, <3>4
    <3>. QED  BY <3>5 DEF e
  <2>3. CASE EnterSync(p)
    <3> DEFINE st == SyncSteps(p) \o <<Leave>>
               r == Tail(todo[p])
    <3>1. Replaced(p, st) /\ \E i \in 1 .. Len(st) : st[i] = Step("flush", SendEnd(p, d[2]))
      BY <1>0, <1>3, <2>3, Entering
    <3>2. todo'[p] = st \o r /\ st \in Seq(Item(p)) /\ r \in Seq(Item(p))
      BY <3>1, ReplacedTodo DEF Replaced
    <3> HIDE DEF st, r
    <3>3. PICK i \in 1 .. Len(st) : st[i] = Step("flush", e)
      BY <1>3, <3>1 DEF e
    <3>4. \E j \in 1 .. Len(st \o r) : (st \o r)[j] = st[i]
      BY <3>2, InFront
    <3>5. Flushes(todo'[p], e)
      BY <3>2, <3>3, <3>4 DEF Flushes
    <3>. QED  BY <1>3, <3>5 DEF e
  <2>4. CASE Opened(p) \/ Flush(p) \/ SendData(p) \/ RecvCall(p) \/ BeginRead(p) \/ ReadUnit(p) \/ SendSync(p)
             \/ LeaveSync(p) \/ Destroy(p) \/ SendNobody(p) \/ RecvNobody(p) \/ FlushCall(p)
    <3> DEFINE t == todo[p]
               r == Tail(t)
               c == t[1]
    <3>1. PICK op : At(p, op) /\ op \in CallOps \cup {"open", "flush", "recvData", "recvSync", "read", "readSync", "sendSync", "leave"} /\ op # "sync"
      BY <2>4 DEF Opened, Flush, SendData, RecvCall, BeginRead, ReadUnit, SendSync, LeaveSync, Destroy, SendNobody, RecvNobody, FlushCall, CallOps
    <3>2. /\ t \in Seq(Item(p)) /\ t # <<>> /\ c \in Item(p) /\ c.op = op /\ Now(p) = c /\ 1 \in 1 .. Len(t)
          /\ \A x \in EndsOf(p) : due[x] = 0
      BY <3>1, HeadFacts
    <3>3. PICK st : Replaced(p, st)
      <4>1. CASE Quiet(p)
        BY <4>1, QuietStep
      <4>2. CASE SendData(p)
        BY <4>2, Sending
      <4>3. CASE ReadUnit(p)
        BY <4>3, Reading
      <4>4. CASE SendSync(p)
        BY <4>4, Syncing
      <4>. QED  BY <2>4, <4>1, <4>2, <4>3, <4>4 DEF Quiet
    <3>4. /\ todo'[p] = st \o r /\ st \in Seq(Item(p)) /\ r \in Seq(Item(p)) /\ InSync(t) /\ InSync(r)
      <4>1. todo'[p] = st \o r /\ st \in Seq(Item(p)) /\ r \in Seq(Item(p))
        BY <3>3, ReplacedTodo DEF Replaced
      <4>2. InSync(r) /\ InSync(t)
        BY <1>3, <3>1, <3>2, <3>3, ReplacedInSync
      <4>. QED  BY <4>1, <4>2
    <3> HIDE DEF t, c
    <3>5. Shape(p, t)
      BY DEF StepsInv, Shape, t
    <3>6. op \notin CallOps \cup {"leave"}
      <4>1. c.op \in CallOps \cup {"leave"} => \A i \in 1 .. Len(r) : r[i].op \in CallOps
        BY <3>2, <3>5, TailShape DEF c
      <4>2. "leave" \notin CallOps
        BY DEF CallOps
      <4>. QED  BY <3>2, <3>4, <4>1, <4>2 DEF InSync
    <3>7. \A i \in 1 .. Len(t) : i = 1 \/ \E k \in 1 .. Len(r) : i = k + 1 /\ r[k] = t[i]
      <4>1. /\ \A i \in 1 .. Len(r) : i + 1 \in 1 .. Len(t) /\ r[i] = t[i + 1]
            /\ \A i \in 1 .. Len(t) : i = 1 \/ \E k \in 1 .. Len(r) : i = k + 1
        BY <3>2, TailFacts
      <4> HIDE DEF r
      <4>. QED  BY <4>1
    <3> HIDE DEF r
    <3>8. ASSUME NEW i \in 1 .. Len(t), t[i] = Step("flush", e), i # 1 PROVE Flushes(todo'[p], e)
      <4>1. PICK k \in 1 .. Len(r) : r[k] = t[i]
        BY <3>7, <3>8
      <4>2. \E j \in 1 .. Len(st \o r) : (st \o r)[j] = r[k]
        BY <3>4, InTail
      <4>. QED  BY <3>4, <3>8, <4>1, <4>2 DEF Flushes
    <3>9. Flushes(t, e) \/ due[e] = Len(buf[e])
      BY <1>1, <1>3, <3>4 DEF t
    <3>10. buf \in [End -> Seq(Nat)] /\ due \in [End -> Nat]
      BY DEF TypeOK
    <3>11. CASE Flush(p)
      <4>1. due' = [due EXCEPT ![c.end] = Len(buf[c.end])] /\ buf' = buf
        BY <2>0, <3>2, <3>11 DEF Flush
      <4>2. c.end = e => due'[e] = Len(buf'[e])
        BY <1>0, <3>10, <4>1
      <4>3. c.end # e => due'[e] = due[e] /\ buf'[e] = buf[e]
        BY <1>0, <3>10, <4>1
      <4>4. t[1] = Step("flush", e) => c.end = e
        BY DEF c, Step
      <4>5. Flushes(t, e) => Safe
        BY <1>3, <3>8, <4>2, <4>4 DEF Flushes
      <4>6. Safe
        BY <3>9, <4>2, <4>3, <4>5
      <4>. QED  BY <4>6 DEF e
    <3>12. CASE op # "flush"
      <4>1. t[1] # Step("flush", e)
        BY <3>2, <3>12 DEF c, Step
      <4>2. Flushes(t, e) => Safe
        BY <1>3, <3>8, <4>1 DEF Flushes
      <4>3. CASE BeginRead(p)
        <5>1. /\ due' = [due EXCEPT ![c.end] = IF hasSent[c.end] THEN Len(buf[c.end]) ELSE 0] /\ buf' = buf
          BY <3>2, <4>3 DEF BeginRead
        <5>2. due[e] = 0
          BY <2>0, <3>2
        <5>3. due'[e] = Len(buf'[e]) \/ (due'[e] = due[e] /\ buf'[e] = buf[e])
          BY <1>0, <3>10, <5>1, <5>2
        <5>. QED  BY <3>9, <4>2, <5>3 DEF e
      <4>4. CASE Opened(p) \/ ReadUnit(p)
        <5>1. UNCHANGED <<buf, due>>
          BY <4>4 DEF Opened, ReadUnit
        <5>. QED  BY <3>9, <4>2, <5>1 DEF e
      <4>5. CASE SendSync(p)
        <5>1. c.end \in EndsOf(p) /\ c.op = "sendSync"
          BY <3>2, <4>5, Syncing
        <5>2. CASE c.end = e
          <6>1. t[1].op = "sendSync" /\ t[1].end = SendEnd(p, t[1].end[2])
            BY <2>0, <5>1, <5>2 DEF c
          <6>2. \E j \in 1 .. Len(t) : 1 < j /\ t[j] = Step("flush", t[1].end)
            BY <3>2, <3>5, <6>1 DEF Shape, FlushedLater
          <6>3. PICK j \in 1 .. Len(t) : 1 < j /\ t[j] = Step("flush", e)
            BY <5>2, <6>2 DEF c
          <6>4. Flushes(todo'[p], e)
            BY <3>8, <6>3
          <6>. QED  BY <1>3, <6>4 DEF e
        <5>3. CASE c.end # e
          <6>1. WriteTo(c.end, <<SyncByte>>)
            BY <3>2, <4>5 DEF SendSync
          <6>2. due'[e] = due[e] /\ buf'[e] = buf[e]
            BY <1>0, <3>10, <5>3, <6>1 DEF WriteTo
          <6>. QED  BY <3>9, <4>2, <6>2 DEF e
        <5>. QED  BY <5>2, <5>3
      <4>6. BeginRead(p) \/ Opened(p) \/ ReadUnit(p) \/ SendSync(p)
        <5>1. op \notin {"send", "recv", "sync", "close", "flushEnds", "leave", "flush"}
          BY <3>6, <3>12 DEF CallOps
        <5>2. todo[p][1].op = op
          BY <3>2 DEF c, t
        <5>. QED  BY <2>4, <5>1, <5>2 DEF At, Flush, SendData, RecvCall, LeaveSync, Destroy, SendNobody, RecvNobody, FlushCall
      <4>. QED  BY <4>3, <4>4, <4>5, <4>6
    <3>13. op = "flush" => Flush(p)
      <4>1. op = "flush" => todo[p][1].op = "flush"
        BY <3>2 DEF c, t
      <4>. QED  BY <2>4, <4>1 DEF At, Opened, BeginRead, ReadUnit, SendSync, SendData, RecvCall, LeaveSync, Destroy, SendNobody, RecvNobody, FlushCall
    <3>. QED  BY <3>11, <3>12, <3>13
  <2>. QED  BY <2>1, <2>2, <2>3, <2>4 DEF PartyStep
<1>. QED  BY <1>2, <1>3
-----------------------------------------------------------------------------
(* Whatever a party does, what is under way and still to be written on an  *)
(* end is what is still to be read at the other.                           *)
Bits == {0, 1}

Cat(s, t) == s \o t
LEMMA CatThree ==
  ASSUME NEW A
  PROVE  \A s, t, u \in Seq(A) : Cat(s, t) \in Seq(A) /\ Cat(Cat(s, t), u) = Cat(s, Cat(t, u))
BY DEF Cat

LEMMA PassOn ==
  ASSUME NEW A, NEW w \in Seq(A), NEW b \in Seq(A), b # <<>>
  PROVE  Append(w, Head(b)) \o Tail(b) = w \o b
<1> DEFINE h == <<Head(b)>>
           t == Tail(b)
<1>1. h \in Seq(A) /\ t \in Seq(A) /\ b = h \o t /\ Append(w, Head(b)) = w \o h
  <2>1. Head(b) \in A /\ t \in Seq(A)
    OBVIOUS
  <2>2. b = h \o t
    OBVIOUS
  <2>3. Append(w, Head(b)) = w \o h
    BY <2>1
  <2>. QED  BY <2>1, <2>2, <2>3
<1> HIDE DEF h, t
<1>2. Cat(Cat(w, h), t) = Cat(w, Cat(h, t))
  BY <1>1, CatThree
<1>. QED  BY <1>1, <1>2 DEF Cat, t

LEMMA CatFour ==
  ASSUME NEW A
  PROVE  \A s, t, u, v \in Seq(A) : Cat(Cat(s, t), Cat(u, v)) = Cat(s, Cat(Cat(t, u), v))
<1> SUFFICES ASSUME NEW s \in Seq(A), NEW t \in Seq(A), NEW u \in Seq(A), NEW v \in Seq(A)
             PROVE  Cat(Cat(s, t), Cat(u, v)) = Cat(s, Cat(Cat(t, u), v))
  OBVIOUS
<1>1. Cat(u, v) \in Seq(A)
  BY CatThree
<1>2. Cat(Cat(s, t), Cat(u, v)) = Cat(s, Cat(t, Cat(u, v)))
  BY <1>1, CatThree
<1>3. Cat(t, Cat(u, v)) = Cat(Cat(t, u), v)
  BY CatThree
<1>. QED  BY <1>2, <1>3

LEMMA Flow ==
  ASSUME TypeOK, NEW p \in Party, NEW st, Replaced(p, st), NEW x \in EndsOf(p)
  PROVE  /\ Out(todo[p], x) = Written(todo[p][1], x) \o Out(Tail(todo[p]), x)
         /\ In(todo[p], x) = ReadFrom(todo[p][1], x) \o In(Tail(todo[p]), x)
         /\ Out(todo'[p], x) = Out(st, x) \o Out(Tail(todo[p]), x)
         /\ In(todo'[p], x) = In(st, x) \o In(Tail(todo[p]), x)
         /\ Written(todo[p][1], x) \in Seq(Bits) /\ ReadFrom(todo[p][1], x) \in Seq(Bits)
         /\ Out(Tail(todo[p]), x) \in Seq(Bits) /\ In(Tail(todo[p]), x) \in Seq(Bits)
<1>1. x \in End /\ x[1] = p
  BY OwnEnd
<1> DEFINE t == todo[p]
           r == Tail(t)
<1>2. t \in Seq(Item(x[1])) /\ t # <<>> /\ t[1] \in Item(x[1]) /\ st \in Seq(Item(x[1])) /\ r \in Seq(Item(x[1])) /\ todo'[p] = st \o r
  BY <1>1, ReplacedTodo DEF Replaced
<1>3. Head(t) = t[1]
  BY <1>2
<1> HIDE DEF t
<1>4. Out(t, x) = Written(t[1], x) \o Out(r, x) /\ In(t, x) = ReadFrom(t[1], x) \o In(r, x)
  BY <1>1, <1>2, <1>3, OutFacts, InFacts
<1>5. Written(t[1], x) \in Seq(Bits) /\ ReadFrom(t[1], x) \in Seq(Bits)
  BY <1>1, <1>2, OutFacts, InFacts DEF Bits
<1> HIDE DEF r
<1>6. Out(st \o r, x) = Out(st, x) \o Out(r, x) /\ In(st \o r, x) = In(st, x) \o In(r, x)
  BY <1>1, <1>2, OutFacts, InFacts
<1>7. Out(r, x) \in Seq(Bits) /\ In(r, x) \in Seq(Bits)
  BY <1>1, <1>2, OutFacts, InFacts DEF Bits
<1>. QED  BY <1>2, <1>4, <1>5, <1>6, <1>7 DEF r, t

LEMMA UnitKinds ==
  ASSUME NEW w \in Nat, NEW n \in Nat
  PROVE  Kinds([i \in 1 .. n |-> w + i]) = Ones(n)
<1> DEFINE u == [i \in 1 .. n |-> w + i]
<1>1. Len(u) = n
  BY UnitsTyped
<1>2. \A i \in 1 .. n : u[i] # 0
  OBVIOUS
<1> HIDE DEF u
<1>. QED  BY <1>1, <1>2 DEF Kinds, Ones, SyncByte, u

(* A step that writes exactly what it takes off its list, if anything.     *)
Puts(x, u) == buf'[x] = buf[x] \o u /\ \A y \in End \ {x} : buf'[y] = buf[y]
WritesUnits(p, st, x, u) ==
  \A y \in EndsOf(p) : /\ In(st, y) = ReadFrom(todo[p][1], y)
                       /\ Written(todo[p][1], y) = (IF y = x THEN Kinds(u) ELSE <<>>) \o Out(st, y)
                       /\ Out(st, y) \in Seq(Bits)

LEMMA WritingKeepsBalance ==
  ASSUME TypeOK, Balanced, NEW p \in Party, NEW st, Replaced(p, st), wire' = wire,
         NEW x \in EndsOf(p), NEW u \in Seq(Nat),
         Puts(x, u), WritesUnits(p, st, x, u)
  PROVE  Balanced'
<1> SUFFICES ASSUME NEW e \in End
             PROVE  Kinds(wire'[e] \o buf'[e]) \o Out(todo'[e[1]], e) = In(todo'[e[2]], Peer(e))
  BY DEF Balanced
<1>1. /\ e[1] \in Party /\ e[2] \in Party /\ e[1] # e[2] /\ Peer(e) \in End /\ Peer(e)[1] = e[2]
      /\ e \in EndsOf(e[1]) /\ Peer(e) \in EndsOf(e[2])
  BY EndFacts DEF EndsOf
<1>2. Kinds(wire[e] \o buf[e]) \o Out(todo[e[1]], e) = In(todo[e[2]], Peer(e))
  BY DEF Balanced
<1>3. wire[e] \in Seq(Nat) /\ buf[e] \in Seq(Nat) /\ wire[e] \o buf[e] \in Seq(Nat)
  BY ConcatFacts DEF TypeOK
<1>4. Kinds(wire[e] \o buf[e]) \in Seq(Bits)
  BY <1>3, KindsFacts DEF Bits
<1>5. \A q \in Party \ {p} : todo'[q] = todo[q]
  BY ReplacedTodo
<1>6. In(todo'[e[2]], Peer(e)) = In(todo[e[2]], Peer(e))
  <2>1. CASE e[2] # p
    BY <1>1, <1>5, <2>1
  <2>2. CASE e[2] = p
    <3>1. Peer(e) \in EndsOf(p)
      BY <1>1, <2>2
    <3>2. In(todo'[p], Peer(e)) = In(todo[p], Peer(e))
      <4> DEFINE y == Peer(e)
      <4>1. y \in EndsOf(p) /\ In(st, y) = ReadFrom(todo[p][1], y)
        BY <3>1 DEF WritesUnits
      <4> HIDE DEF y
      <4>2. /\ In(todo[p], y) = ReadFrom(todo[p][1], y) \o In(Tail(todo[p]), y)
            /\ In(todo'[p], y) = In(st, y) \o In(Tail(todo[p]), y)
        BY <4>1, Flow
      <4>. QED  BY <4>1, <4>2 DEF y
    <3>. QED  BY <2>2, <3>2
  <2>. QED  BY <2>1, <2>2
<1>7. CASE e[1] # p
  <2>1. todo'[e[1]] = todo[e[1]] /\ e # x
    BY <1>1, <1>5, <1>7 DEF EndsOf
  <2>2. buf'[e] = buf[e]
    BY <2>1 DEF Puts
  <2>. QED  BY <1>2, <1>6, <2>1, <2>2
<1>8. CASE e[1] = p
  <2>0. e \in EndsOf(p)
    BY <1>1, <1>8
  <2> DEFINE o == Out(Tail(todo[p]), e)
             w == Out(st, e)
             k == Kinds(wire[e] \o buf[e])
  <2>1. /\ Out(todo[p], e) = Written(todo[p][1], e) \o o /\ Out(todo'[p], e) = w \o o
        /\ o \in Seq(Bits) /\ w \in Seq(Bits)
    BY <2>0, Flow DEF WritesUnits
  <2>2. CASE e # x
    <3>1. Written(todo[p][1], e) = <<>> \o w
      BY <2>0, <2>2 DEF WritesUnits
    <3>2. <<>> \o w = w
      BY <2>1
    <3>3. buf'[e] = buf[e]
      BY <2>2 DEF Puts
    <3>. QED  BY <1>2, <1>6, <1>8, <2>1, <3>1, <3>2, <3>3
  <2>3. CASE e = x
    <3>1. Written(todo[p][1], e) = Kinds(u) \o w
      BY <2>0, <2>3 DEF WritesUnits
    <3>2. Kinds(u) \in Seq(Bits)
      BY KindsFacts DEF Bits
    <3>3. wire'[e] \o buf'[e] = (wire[e] \o buf[e]) \o u
      <4> DEFINE a == wire[e]
                 b == buf[e]
      <4>1. wire'[e] = a /\ buf'[e] = b \o u
        BY <2>3 DEF Puts
      <4>2. a \in Seq(Nat) /\ b \in Seq(Nat)
        BY <1>3
      <4> HIDE DEF a, b
      <4>3. Cat(Cat(a, b), u) = Cat(a, Cat(b, u))
        BY <4>2, CatThree
      <4>4. wire'[e] \o buf'[e] = (a \o b) \o u
        BY <4>1, <4>3 DEF Cat
      <4>. QED  BY <4>4 DEF a, b
    <3>4. Kinds(wire'[e] \o buf'[e]) = k \o Kinds(u)
      <4> DEFINE z == wire[e] \o buf[e]
      <4>1. z \in Seq(Nat) /\ u \in Seq(Nat)
        BY <1>3
      <4>2. wire'[e] \o buf'[e] = z \o u
        BY <3>3
      <4>3. k = Kinds(z)
        OBVIOUS
      <4> HIDE DEF z, k
      <4>4. Kinds(z \o u) = Kinds(z) \o Kinds(u)
        BY <4>1, KindsFacts
      <4>. QED  BY <4>2, <4>3, <4>4
    <3> HIDE DEF o, w, k
    <3>5. (k \o Kinds(u)) \o (w \o o) = k \o ((Kinds(u) \o w) \o o)
      <4>1. k \in Seq(Bits) /\ o \in Seq(Bits) /\ w \in Seq(Bits)
        BY <1>4, <2>1 DEF k
      <4>2. Cat(Cat(k, Kinds(u)), Cat(w, o)) = Cat(k, Cat(Cat(Kinds(u), w), o))
        BY <3>2, <4>1, CatFour
      <4>. QED  BY <4>2 DEF Cat
    <3>6. k \o ((Kinds(u) \o w) \o o) = In(todo[e[2]], Peer(e))
      BY <1>2, <1>8, <2>1, <3>1 DEF k
    <3>. QED  BY <1>6, <1>8, <2>1, <3>4, <3>5, <3>6
  <2>. QED  BY <2>2, <2>3
<1>. QED  BY <1>7, <1>8

LEMMA ConcatEmpty ==
  ASSUME NEW A
  PROVE  \A s \in Seq(A) : s \o <<>> = s /\ <<>> \o s = s
OBVIOUS

LEMMA QuietBalance ==
  ASSUME TypeOK, StepsInv, Balanced, NEW p \in Party, Quiet(p)
  PROVE  Balanced'
<1>1. PICK st : Replaced(p, st) /\ Keeps(p, st)
  BY QuietStep
<1>2. PICK x \in EndsOf(p) : TRUE
  <2>1. PICK q \in Party : p # q
    BY SessionAssumption
  <2>. QED  BY <2>1, OpenEnds
<1>3. UNCHANGED <<wire, buf>>
  BY DEF Quiet, Opened, Flush, LeaveSync, RecvNobody, SendNobody, FlushCall, Destroy, EnterSync, RecvCall, BeginRead
<1> DEFINE u == <<>>
<1>4. u \in Seq(Nat) /\ Kinds(u) = <<>>
  <2>1. u \in Seq(Nat) /\ Len(u) = 0
    OBVIOUS
  <2> HIDE DEF u
  <2>2. Kinds(u) \in Seq({0, 1}) /\ Len(Kinds(u)) = 0
    BY <2>1, KindsFacts
  <2>. QED  BY <2>1, <2>2
<1>5. Puts(x, u)
  <2>1. buf[x] \in Seq(Nat)
    BY OwnEnd DEF TypeOK
  <2>2. buf[x] \o u = buf[x]
    BY <2>1
  <2>. QED  BY <1>3, <2>2 DEF Puts
<1> HIDE DEF u
<1>6. WritesUnits(p, st, x, u)
  <2> SUFFICES ASSUME NEW y \in EndsOf(p)
               PROVE  /\ In(st, y) = ReadFrom(todo[p][1], y)
                      /\ Written(todo[p][1], y) = (IF y = x THEN Kinds(u) ELSE <<>>) \o Out(st, y)
                      /\ Out(st, y) \in Seq(Bits)
    BY DEF WritesUnits
  <2>1. In(st, y) = ReadFrom(todo[p][1], y) /\ Out(st, y) = Written(todo[p][1], y)
    BY <1>1 DEF Keeps
  <2>2. Written(todo[p][1], y) \in Seq(Bits)
    BY <1>1, Flow
  <2>3. <<>> \o Written(todo[p][1], y) = Written(todo[p][1], y)
    BY <2>2, ConcatEmpty
  <2>. QED  BY <1>4, <2>1, <2>2, <2>3
<1>7. wire' = wire
  BY <1>3
<1>. QED  BY <1>1, <1>2, <1>4, <1>5, <1>6, <1>7, WritingKeepsBalance

LEMMA SendingBalance ==
  ASSUME TypeOK, Balanced, NEW p \in Party, SendData(p)
  PROVE  Balanced'
<1>0. PICK q \in Party \ {p} : \E st :
           /\ q = Now(p).with /\ Now(p) = todo[p][1] /\ Now(p).len \in Nat /\ Now(p).op = "send"
           /\ SendEnd(p, q) \in EndsOf(p) /\ <<p, q>> \in Pair
           /\ Replaced(p, st)
           /\ \A x \in EndsOf(p) :
                /\ Out(st, x) = <<>>
                /\ In(st, x) = ReadFrom(todo[p][1], x)
                /\ Written(todo[p][1], x) = IF x = SendEnd(p, q) THEN Ones(Now(p).len) ELSE <<>>
  BY Sending
<1>1. PICK st :
           /\ q = Now(p).with /\ Now(p) = todo[p][1] /\ Now(p).len \in Nat /\ Now(p).op = "send"
           /\ SendEnd(p, q) \in EndsOf(p) /\ <<p, q>> \in Pair
           /\ Replaced(p, st)
           /\ \A x \in EndsOf(p) :
                /\ Out(st, x) = <<>>
                /\ In(st, x) = ReadFrom(todo[p][1], x)
                /\ Written(todo[p][1], x) = IF x = SendEnd(p, q) THEN Ones(Now(p).len) ELSE <<>>
  BY <1>0
<1> DEFINE x == SendEnd(p, q)
           n == Now(p).len
           u == [i \in 1 .. n |-> wrote[<<p, q>>] + i]
<1>2. x \in EndsOf(p) /\ n \in Nat /\ wrote[<<p, q>>] \in Nat
  BY <1>1 DEF TypeOK
<1>3. u \in Seq(Nat) /\ Kinds(u) = Ones(n)
  BY <1>2, UnitsTyped, UnitKinds
<1>4. WriteTo(x, u) /\ wire' = wire /\ \A y \in EndsOf(p) : due[y] = 0
  BY <1>1 DEF SendData, At
<1> HIDE DEF u
<1>5. Puts(x, u)
  BY <1>2, <1>3, <1>4, WriteKept DEF Puts
<1>6. WritesUnits(p, st, x, u)
  <2> SUFFICES ASSUME NEW y \in EndsOf(p)
               PROVE  /\ In(st, y) = ReadFrom(todo[p][1], y)
                      /\ Written(todo[p][1], y) = (IF y = x THEN Kinds(u) ELSE <<>>) \o Out(st, y)
                      /\ Out(st, y) \in Seq(Bits)
    BY DEF WritesUnits
  <2>1. Out(st, y) = <<>> /\ In(st, y) = ReadFrom(todo[p][1], y)
    BY <1>1
  <2>2. Written(todo[p][1], y) = IF y = x THEN Kinds(u) ELSE <<>>
    BY <1>1, <1>3
  <2>3. Written(todo[p][1], y) \in Seq(Bits)
    BY <1>1, Flow
  <2>4. Written(todo[p][1], y) \o <<>> = Written(todo[p][1], y) /\ <<>> \in Seq(Bits)
    BY <2>3, ConcatEmpty
  <2>. QED  BY <2>1, <2>2, <2>4
<1>7. Replaced(p, st) /\ wire' = wire
  BY <1>1, <1>4
<1> HIDE DEF x
<1>. QED  BY <1>2, <1>3, <1>5, <1>6, <1>7, WritingKeepsBalance

LEMMA SyncingBalance ==
  ASSUME TypeOK, Balanced, NEW p \in Party, SendSync(p)
  PROVE  Balanced'
<1> DEFINE st == <<>>
           x == Now(p).end
           u == <<SyncByte>>
<1>1. /\ x \in EndsOf(p) /\ Replaced(p, st)
      /\ \A y \in EndsOf(p) :
              /\ Out(st, y) = <<>>
              /\ In(st, y) = ReadFrom(todo[p][1], y)
              /\ Written(todo[p][1], y) = IF y = x THEN <<0>> ELSE <<>>
  BY Syncing
<1>2. u \in Seq(Nat) /\ Kinds(u) = <<0>>
  <2>1. SyncByte = 0 /\ <<0>> \in Seq(Nat)
    BY DEF SyncByte
  <2>. QED  BY <2>1, KindsFacts
<1>3. WriteTo(x, u) /\ wire' = wire /\ \A y \in EndsOf(p) : due[y] = 0
  BY DEF SendSync, At
<1> HIDE DEF u, st, x
<1>5. Puts(x, u)
  BY <1>1, <1>2, <1>3, WriteKept DEF Puts
<1>6. WritesUnits(p, st, x, u)
  <2> SUFFICES ASSUME NEW y \in EndsOf(p)
               PROVE  /\ In(st, y) = ReadFrom(todo[p][1], y)
                      /\ Written(todo[p][1], y) = (IF y = x THEN Kinds(u) ELSE <<>>) \o Out(st, y)
                      /\ Out(st, y) \in Seq(Bits)
    BY DEF WritesUnits
  <2>1. Out(st, y) = <<>> /\ In(st, y) = ReadFrom(todo[p][1], y)
    BY <1>1
  <2>2. Written(todo[p][1], y) = IF y = x THEN Kinds(u) ELSE <<>>
    BY <1>1, <1>2
  <2>3. Written(todo[p][1], y) \in Seq(Bits)
    BY <1>1, Flow
  <2>4. Written(todo[p][1], y) \o <<>> = Written(todo[p][1], y) /\ <<>> \in Seq(Bits)
    BY <2>3, ConcatEmpty
  <2>. QED  BY <2>1, <2>2, <2>4
<1>7. Replaced(p, st) /\ wire' = wire
  BY <1>1, <1>3
<1>. QED  BY <1>1, <1>2, <1>5, <1>6, <1>7, WritingKeepsBalance

(* What is handed over only moves from the buffer to the connection.       *)
LEMMA HandOverBalance ==
  ASSUME TypeOK, Balanced, NEW p \in Party, HandOver(p)
  PROVE  Balanced'
<1>1. PICK x \in EndsOf(p) :
          /\ todo' = todo
          /\ x \in End /\ buf[x] \in Seq(Nat) /\ buf[x] # <<>> /\ wire[x] \in Seq(Nat)
          /\ wire'[x] = Append(wire[x], Head(buf[x])) /\ buf'[x] = Tail(buf[x]) /\ due'[x] = due[x] - 1
          /\ \A y \in End \ {x} : wire'[y] = wire[y] /\ buf'[y] = buf[y] /\ due'[y] = due[y]
  BY HandingOver
<1>2. /\ x \in End /\ buf[x] \in Seq(Nat) /\ buf[x] # <<>> /\ wire[x] \in Seq(Nat)
      /\ wire'[x] = Append(wire[x], Head(buf[x])) /\ buf'[x] = Tail(buf[x])
      /\ \A y \in End \ {x} : wire'[y] = wire[y] /\ buf'[y] = buf[y]
  BY <1>1
<1>3. wire'[x] \o buf'[x] = wire[x] \o buf[x]
  <2> DEFINE b == buf[x]
             w == wire[x]
  <2>1. b \in Seq(Nat) /\ b # <<>> /\ w \in Seq(Nat) /\ wire'[x] = Append(w, Head(b)) /\ buf'[x] = Tail(b)
    BY <1>2
  <2> HIDE DEF b, w
  <2>2. Append(w, Head(b)) \o Tail(b) = w \o b
    BY <2>1, PassOn
  <2>. QED  BY <2>1, <2>2 DEF b, w
<1>4. \A e \in End : wire'[e] \o buf'[e] = wire[e] \o buf[e]
  BY <1>2, <1>3
<1>5. todo' = todo
  BY <1>1
<1>. QED  BY <1>4, <1>5 DEF Balanced

(* A read takes from the connection what it takes off its list; so it      *)
(* meets a unit of data exactly when it is to read data.                   *)
LEMMA HeadOfConcat ==
  ASSUME NEW A
  PROVE  \A s, t \in Seq(A) : s # <<>> =>
           s \o t # <<>> /\ Head(s \o t) = Head(s) /\ Tail(s \o t) = Tail(s) \o t /\ Tail(s) \in Seq(A)
OBVIOUS

LEMMA OwnPeer ==
  ASSUME NEW p \in Party, NEW x \in EndsOf(p)
  PROVE  /\ x \in End /\ x[1] = p /\ Peer(x) \in End /\ Peer(x)[1] = x[2] /\ x[2] \in Party
         /\ Peer(x)[2] = p /\ x[2] # p /\ Peer(Peer(x)) = x
<1>1. x \in End /\ x[1] = p
  BY OwnEnd
<1>. QED  BY <1>1, EndFacts

LEMMA ReadingBalance ==
  ASSUME TypeOK, StepsInv, Balanced, NEW p \in Party, ReadUnit(p)
  PROVE  /\ Balanced'
         /\ Peer(Now(p).end) \in End /\ wire[Peer(Now(p).end)] \in Seq(Nat)
         /\ (Head(wire[Peer(Now(p).end)]) = 0) <=> Now(p).op # "read"
<1> DEFINE x == Now(p).end
           f == Peer(x)
           c == todo[p][1]
           R == ReadFrom(c, x)
<1>1. PICK st :
         /\ x \in EndsOf(p) /\ Now(p).op \in {"read", "readSync"} /\ Now(p) = c
         /\ Replaced(p, st)
         /\ \A y \in EndsOf(p) :
              /\ Out(st, y) = Written(c, y)
              /\ y # x => In(st, y) = ReadFrom(c, y)
              /\ y = x => /\ ReadFrom(c, y) # <<>>
                          /\ Head(ReadFrom(c, y)) = IF Now(p).op = "read" THEN 1 ELSE 0
                          /\ In(st, y) = Tail(ReadFrom(c, y))
  BY Reading
<1>2. /\ x \in End /\ x[1] = p /\ f \in End /\ f[1] \in Party /\ f[2] = p /\ f[1] # p /\ Peer(f) = x
  <2>1. x \in EndsOf(p)
    BY <1>1
  <2> HIDE DEF x
  <2>. QED  BY <2>1, OwnPeer
<1>3. /\ wire[f] # <<>> /\ wire' = [wire EXCEPT ![f] = Tail(@)] /\ buf' = buf
  BY DEF ReadUnit
<1>4. /\ R # <<>> /\ Head(R) = (IF Now(p).op = "read" THEN 1 ELSE 0)
      /\ In(st, x) = Tail(R)
  BY <1>1
<1>5. /\ In(todo[p], x) = R \o In(Tail(todo[p]), x)
      /\ In(todo'[p], x) = In(st, x) \o In(Tail(todo[p]), x)
      /\ R \in Seq(Bits) /\ In(Tail(todo[p]), x) \in Seq(Bits)
  BY <1>1, Flow
<1>6. Kinds(wire[f] \o buf[f]) \o Out(todo[f[1]], f) = In(todo[p], x)
  BY <1>2 DEF Balanced
<1>7. wire[f] \in Seq(Nat) /\ buf[f] \in Seq(Nat) /\ wire \in [End -> Seq(Nat)]
  BY <1>2 DEF TypeOK
<1>8. /\ wire'[f] = Tail(wire[f]) /\ \A y \in End \ {f} : wire'[y] = wire[y]
  BY <1>2, <1>3, <1>7
<1>9. \A q \in Party \ {p} : todo'[q] = todo[q]
  BY <1>1, ReplacedTodo
<1>10. Out(todo[f[1]], f) \in Seq(Bits)
  <2>1. todo[f[1]] \in Seq(Item(f[1]))
    BY <1>2 DEF TypeOK, Item
  <2>. QED  BY <1>2, <2>1, OutFacts DEF Bits
<1> DEFINE s == wire[f] \o buf[f]
           O == Out(todo[f[1]], f)
           I == In(Tail(todo[p]), x)
           K == Kinds(s)
<1>11. /\ s \in Seq(Nat) /\ s # <<>> /\ Head(s) = Head(wire[f]) /\ Tail(s) = Tail(wire[f]) \o buf[f]
       /\ Tail(s) \in Seq(Nat)
  <2> DEFINE w == wire[f]
             b == buf[f]
  <2>1. w \in Seq(Nat) /\ b \in Seq(Nat) /\ w # <<>>
    BY <1>3, <1>7
  <2> HIDE DEF w, b
  <2>2. w \o b \in Seq(Nat)
    BY <2>1, ConcatFacts
  <2>3. w \o b # <<>> /\ Head(w \o b) = Head(w) /\ Tail(w \o b) = Tail(w) \o b
    BY <2>1, HeadOfConcat
  <2>4. Tail(w \o b) \in Seq(Nat)
    BY <2>2, <2>3, TailFacts
  <2>. QED  BY <2>2, <2>3, <2>4 DEF w, b
<1>12. /\ K \in Seq(Bits) /\ K # <<>> /\ Head(K) = (IF Head(s) = 0 THEN 0 ELSE 1)
       /\ Tail(K) = Kinds(Tail(s))
  <2> HIDE DEF s
  <2>. QED  BY <1>11, KindsFacts DEF Bits
<1>13. K \o O = R \o I /\ O \in Seq(Bits) /\ I \in Seq(Bits)
  BY <1>5, <1>6, <1>10
<1> HIDE DEF R, O, I, K
<1>14. Head(K \o O) = Head(K) /\ Tail(K \o O) = Tail(K) \o O
  <2>1. K \in Seq(Bits) /\ K # <<>>
    BY <1>12
  <2>2. O \in Seq(Bits)
    BY <1>13
  <2>. QED  BY <2>1, <2>2, HeadOfConcat
<1>15. Head(R \o I) = Head(R) /\ Tail(R \o I) = Tail(R) \o I
  <2>1. R \in Seq(Bits)
    BY <1>5
  <2>2. I \in Seq(Bits)
    BY <1>13
  <2>3. R # <<>>
    BY <1>4
  <2>. QED  BY <2>1, <2>2, <2>3, HeadOfConcat
<1>16. Head(K) = Head(R) /\ Tail(K) \o O = Tail(R) \o I
  BY <1>13, <1>14, <1>15
<1>17. (Head(wire[f]) = 0) <=> Now(p).op # "read"
  <2>1. Head(R) = IF Now(p).op = "read" THEN 1 ELSE 0
    BY <1>4
  <2>2. Head(K) = IF Head(wire[f]) = 0 THEN 0 ELSE 1
    BY <1>11, <1>12
  <2>3. Head(K) = Head(R)
    BY <1>16
  <2>. QED  BY <2>1, <2>2, <2>3
<1>18. Kinds(wire'[f] \o buf'[f]) \o Out(todo'[f[1]], f) = In(todo'[p], Peer(f))
  <2>1. wire'[f] \o buf'[f] = Tail(s)
    BY <1>3, <1>8, <1>11
  <2>2. Kinds(wire'[f] \o buf'[f]) = Tail(K)
    BY <1>12, <2>1
  <2>3. Out(todo'[f[1]], f) = O
    BY <1>2, <1>9 DEF O
  <2>4. In(todo'[p], Peer(f)) = Tail(R) \o I
    BY <1>2, <1>4, <1>5 DEF I
  <2>. QED  BY <1>16, <2>2, <2>3, <2>4
<1>19. ASSUME NEW e \in End, e # f
       PROVE  Kinds(wire'[e] \o buf'[e]) \o Out(todo'[e[1]], e) = In(todo'[e[2]], Peer(e))
  <2>1. /\ e[1] \in Party /\ e[2] \in Party /\ Peer(e) \in End /\ e \in EndsOf(e[1]) /\ Peer(e) \in EndsOf(e[2])
        /\ Peer(Peer(e)) = e
    BY EndFacts DEF EndsOf
  <2>2. wire'[e] = wire[e] /\ buf'[e] = buf[e]
    BY <1>3, <1>8, <1>19
  <2>3. Out(todo'[e[1]], e) = Out(todo[e[1]], e)
    <3>1. CASE e[1] # p
      BY <1>9, <2>1, <3>1
    <3>2. CASE e[1] = p
      <4>1. e \in EndsOf(p) /\ Out(st, e) = Written(todo[p][1], e)
        BY <1>1, <2>1, <3>2
      <4>2. Replaced(p, st) /\ e \in EndsOf(p)
        BY <1>1, <4>1
      <4>3. /\ Out(todo[p], e) = Written(todo[p][1], e) \o Out(Tail(todo[p]), e)
            /\ Out(todo'[p], e) = Out(st, e) \o Out(Tail(todo[p]), e)
        BY <4>2, Flow
      <4>. QED  BY <3>2, <4>1, <4>3
    <3>. QED  BY <3>1, <3>2
  <2>4. In(todo'[e[2]], Peer(e)) = In(todo[e[2]], Peer(e))
    <3>1. CASE e[2] # p
      BY <1>9, <2>1, <3>1
    <3>2. CASE e[2] = p
      <4> DEFINE y == Peer(e)
      <4>1. y # x
        BY <1>2, <1>19, <2>1
      <4>2. y \in EndsOf(p)
        BY <2>1, <3>2
      <4>3. In(st, y) = ReadFrom(todo[p][1], y)
        BY <1>1, <4>1, <4>2
      <4> HIDE DEF y
      <4>4. Replaced(p, st)
        BY <1>1
      <4>5. /\ In(todo[p], y) = ReadFrom(todo[p][1], y) \o In(Tail(todo[p]), y)
            /\ In(todo'[p], y) = In(st, y) \o In(Tail(todo[p]), y)
        BY <4>2, <4>4, Flow
      <4>. QED  BY <3>2, <4>3, <4>5 DEF y
    <3>. QED  BY <3>1, <3>2
  <2>5. Kinds(wire[e] \o buf[e]) \o Out(todo[e[1]], e) = In(todo[e[2]], Peer(e))
    BY DEF Balanced
  <2>. QED  BY <2>2, <2>3, <2>4, <2>5
<1>20. Balanced'
  <2> SUFFICES ASSUME NEW e \in End
             PROVE  Kinds(wire'[e] \o buf'[e]) \o Out(todo'[e[1]], e) = In(todo'[e[2]], Peer(e))
    BY DEF Balanced
  <2>1. CASE e = f
    BY <1>2, <1>18, <2>1
  <2>2. CASE e # f
    BY <1>19, <2>2
  <2>. QED  BY <2>1, <2>2
<1>. QED  BY <1>2, <1>7, <1>17, <1>20

LEMMA BalancedStep ==
  ASSUME TypeOK, StepsInv, Balanced, NEW p \in Party, PartyStep(p)
  PROVE  Balanced'
<1>1. CASE Listen(p) \/ Connect(p)
  <2>1. UNCHANGED <<todo, wire, buf>>
    BY <1>1 DEF Listen, Connect
  <2>. QED  BY <2>1 DEF Balanced
<1>2. CASE Quiet(p)
  BY <1>2, QuietBalance
<1>3. CASE ReadUnit(p)
  BY <1>3, ReadingBalance
<1>4. CASE SendData(p)
  BY <1>4, SendingBalance
<1>5. CASE SendSync(p)
  BY <1>5, SyncingBalance
<1>6. CASE HandOver(p)
  BY <1>6, HandOverBalance
<1>7. Listen(p) \/ Connect(p) \/ HandOver(p) \/ Quiet(p) \/ ReadUnit(p) \/ SendData(p) \/ SendSync(p)
  BY DEF PartyStep, Quiet
<1>. QED  BY <1>1, <1>2, <1>3, <1>4, <1>5, <1>6, <1>7
-----------------------------------------------------------------------------
(* Counting the bytes of sync on the way to a party: at least one for each *)
(* sync its partner has still to call, and one for each it has to itself,  *)
(* once it has only calls to make.                                         *)
LEMMA MarksOfOut ==
  ASSUME NEW e \in End
  PROVE  \A t \in Seq(Item(e[1])) : Marks(Out(t, e)) \in Nat /\ Syncs(e[1], t) <= Marks(Out(t, e))
<1> DEFINE A == Item(e[1])
           p == e[1]
           T == {t \in Seq(A) : Syncs(p, t) <= Marks(Out(t, e))}
<1>1. <<>> \in T
  <2>1. Out(<<>>, e) = <<>> /\ Marks(<<>>) = 0 /\ Syncs(p, <<>>) = 0
    BY OutFacts, MarksFacts, SyncsFacts
  <2>2. <<>> \in Seq(A)
    OBVIOUS
  <2>. QED  BY <2>1, <2>2
<1>2. ASSUME NEW s \in T, NEW c \in A PROVE Append(s, c) \in T
  <2> DEFINE l == <<c>>
  <2>1. s \in Seq(A) /\ l \in Seq(A) /\ Append(s, c) \in Seq(A) /\ Append(s, c) = s \o l
    BY <1>2, AppendAsConcat
  <2>2. Syncs(p, l) = (IF c.op = "sync" THEN 1 ELSE 0) /\ Out(l, e) = Written(c, e) /\ Written(c, e) \in Seq({0, 1})
    BY <1>2, SyncsFacts, OutFacts
  <2>3. Out(s, e) \in Seq({0, 1})
    BY <2>1, OutFacts
  <2> HIDE DEF l
  <2>4. Syncs(p, s \o l) = Syncs(p, s) + Syncs(p, l) /\ Syncs(p, s) \in Nat
    BY <2>1, SyncsFacts
  <2>5. Out(s \o l, e) = Out(s, e) \o Written(c, e)
    BY <2>1, <2>2, OutFacts
  <2>6. Marks(Out(s \o l, e)) = Marks(Out(s, e)) + Marks(Written(c, e))
    BY <2>2, <2>3, <2>5, MarksFacts
  <2>7. Marks(Written(c, e)) \in Nat /\ Marks(Out(s, e)) \in Nat
    BY <2>2, <2>3, MarksFacts
  <2>8. c.op = "sync" => Marks(Written(c, e)) = 1
    BY MarksFacts DEF Written
  <2>9. Syncs(p, s) <= Marks(Out(s, e))
    BY <1>2
  <2>10. Syncs(p, s \o l) <= Marks(Out(s \o l, e))
    <3> DEFINE a == Syncs(p, s)
               b == Marks(Out(s, e))
               w == Marks(Written(c, e))
    <3>1. a \in Nat /\ b \in Nat /\ w \in Nat /\ a <= b
      BY <2>4, <2>7, <2>9
    <3>2. Syncs(p, s \o l) = a + (IF c.op = "sync" THEN 1 ELSE 0) /\ Marks(Out(s \o l, e)) = b + w
      BY <2>2, <2>4, <2>6
    <3>3. c.op = "sync" => w = 1
      BY <2>8
    <3> HIDE DEF a, b, w
    <3>. QED  BY <3>1, <3>2, <3>3
  <2>. QED  BY <2>1, <2>10
<1>3. T = Seq(A)
  <2> HIDE DEF A
  <2>1. T \in SUBSET Seq(A)
    OBVIOUS
  <2> HIDE DEF T
  <2>. QED  BY <1>1, <1>2, <2>1, SeqInd
<1>4. \A t \in Seq(A) : Marks(Out(t, e)) \in Nat
  BY OutFacts, MarksFacts
<1>. QED  BY <1>3, <1>4

LEMMA MarksOfIn ==
  ASSUME NEW e \in End, NEW t \in Seq(Item(e[1])), \A i \in 1 .. Len(t) : t[i].op \in CallOps \cup {"leave"}
  PROVE  Marks(In(t, e)) = Syncs(e[1], t)
<1> DEFINE A == Item(e[1])
           p == e[1]
           C(s) == \A i \in 1 .. Len(s) : s[i].op \in CallOps \cup {"leave"}
           T == {s \in Seq(A) : C(s) => Marks(In(s, e)) = Syncs(p, s)}
<1>1. <<>> \in T
  <2>1. In(<<>>, e) = <<>> /\ Marks(<<>>) = 0 /\ Syncs(p, <<>>) = 0
    BY InFacts, MarksFacts, SyncsFacts
  <2>2. <<>> \in Seq(A)
    OBVIOUS
  <2>. QED  BY <2>1, <2>2
<1>2. ASSUME NEW s \in T, NEW c \in A PROVE Append(s, c) \in T
  <2> DEFINE l == <<c>>
             u == Append(s, c)
  <2>1. s \in Seq(A) /\ l \in Seq(A) /\ u \in Seq(A) /\ u = s \o l
    BY <1>2, AppendAsConcat
  <2>2. Syncs(p, l) = (IF c.op = "sync" THEN 1 ELSE 0) /\ In(l, e) = ReadFrom(c, e) /\ ReadFrom(c, e) \in Seq({0, 1})
    BY <1>2, SyncsFacts, InFacts
  <2>3. In(s, e) \in Seq({0, 1})
    BY <2>1, InFacts
  <2> HIDE DEF l
  <2>4. Syncs(p, s \o l) = Syncs(p, s) + Syncs(p, l) /\ Syncs(p, s) \in Nat
    BY <2>1, SyncsFacts
  <2>5. In(s \o l, e) = In(s, e) \o ReadFrom(c, e)
    BY <2>1, <2>2, InFacts
  <2>6. Marks(In(s \o l, e)) = Marks(In(s, e)) + Marks(ReadFrom(c, e))
    BY <2>2, <2>3, <2>5, MarksFacts
  <2>7. Marks(ReadFrom(c, e)) \in Nat /\ Marks(In(s, e)) \in Nat
    BY <2>2, <2>3, MarksFacts
  <2>8. C(u) => C(s) /\ c.op \in CallOps \cup {"leave"}
    <3>1. Len(u) \in Nat /\ Len(s) \in Nat /\ Len(u) = Len(s) + 1 /\ u[Len(u)] = c /\ \A i \in 1 .. Len(s) : i \in 1 .. Len(u) /\ u[i] = s[i]
      BY <2>1
    <3> HIDE DEF u
    <3>2. Len(u) \in 1 .. Len(u)
      BY <3>1
    <3>. QED  BY <3>1, <3>2
  <2>9. c.op \in CallOps \cup {"leave"} => Marks(ReadFrom(c, e)) = IF c.op = "sync" THEN 1 ELSE 0
    <3>1. CASE c.op = "sync"
      BY <3>1, MarksFacts DEF ReadFrom
    <3>2. CASE c.op = "recv"
      <4>1. c.len \in Nat
        BY <1>2, <3>2, ItemCases
      <4>2. ReadFrom(c, e) = Ones(c.len) \/ ReadFrom(c, e) = <<>>
        BY <3>2 DEF ReadFrom
      <4>. QED  BY <3>2, <4>1, <4>2, MarksFacts
    <3>3. CASE c.op \in {"send", "close", "flushEnds", "leave"}
      BY <3>3, MarksFacts DEF ReadFrom
    <3>. QED  BY <3>1, <3>2, <3>3 DEF CallOps
  <2>10. C(u) => Marks(In(s \o l, e)) = Syncs(p, s \o l)
    <3>1. C(s) => Marks(In(s, e)) = Syncs(p, s)
      BY <1>2
    <3> HIDE DEF C
    <3>. QED  BY <2>2, <2>4, <2>6, <2>8, <2>9, <3>1
  <2>. QED  BY <2>1, <2>10
<1>3. T = Seq(A)
  <2> HIDE DEF A
  <2>1. T \in SUBSET Seq(A)
    OBVIOUS
  <2> HIDE DEF T
  <2>. QED  BY <1>1, <1>2, <2>1, SeqInd
<1>. QED  BY <1>3

(* So a party that is about to leave a sync has seen all others enter it.  *)
LEMMA EnteredByAll ==
  ASSUME TypeOK, StepsInv, SyncInv, Balanced, Together, NEW p \in Party, LeaveSync(p)
  PROVE  /\ entered[p] = left[p] + 1
         /\ \A q \in Party : left[p] < entered[q]
<1>1. /\ todo[p] \in Seq(Item(p)) /\ todo[p] # <<>> /\ todo[p][1].op = "leave" /\ 1 \in 1 .. Len(todo[p])
  BY HeadFacts DEF LeaveSync
<1>2. /\ entered \in [Party -> Nat] /\ left \in [Party -> Nat]
  BY DEF TypeOK
<1>3. entered[p] = left[p] + 1
  <2>1. InSync(todo[p])
    BY <1>1 DEF InSync
  <2>. QED  BY <2>1 DEF SyncInv
<1>4. \A i \in 1 .. Len(todo[p]) : todo[p][i].op \in CallOps \cup {"leave"}
  <2> SUFFICES ASSUME NEW i \in 1 .. Len(todo[p]), i # 1 PROVE todo[p][i].op \in CallOps
    BY <1>1
  <2>1. 1 < i
    OBVIOUS
  <2>. QED  BY <1>1, <2>1 DEF StepsInv, CallsLast
<1>5. ASSUME NEW q \in Party, q # p PROVE left[p] < entered[q]
  <2> DEFINE e == SendEnd(q, p)
  <2>1. /\ e \in End /\ e[1] = q /\ e[2] = p /\ Peer(e) \in End /\ Peer(e)[1] = p
    <3>1. <<q, p>> \in Pair
      BY <1>5 DEF Pair
    <3>2. e \in End /\ e[1] = q /\ e[2] = p
      BY <3>1, PairFacts
    <3> HIDE DEF e
    <3>. QED  BY <3>2, EndFacts
  <2> HIDE DEF e
  <2>2. Kinds(wire[e] \o buf[e]) \o Out(todo[q], e) = In(todo[p], Peer(e))
    BY <2>1 DEF Balanced
  <2>3. Kinds(wire[e] \o buf[e]) \in Seq({0, 1})
    <3>1. wire[e] \o buf[e] \in Seq(Nat)
      BY <2>1, ConcatFacts DEF TypeOK
    <3>. QED  BY <3>1, KindsFacts
  <2>4. todo[q] \in Seq(Item(q)) /\ todo[q] \in Seq(Item(e[1]))
    BY <2>1 DEF TypeOK, Item
  <2>5. Out(todo[q], e) \in Seq({0, 1})
    BY <2>1, <2>4, OutFacts
  <2> DEFINE k == Marks(Kinds(wire[e] \o buf[e]))
             o == Marks(Out(todo[q], e))
             i == Marks(In(todo[p], Peer(e)))
             sp == Syncs(p, todo[p])
             sq == Syncs(q, todo[q])
  <2>6. i = k + o /\ k \in Nat
    <3> DEFINE x == Kinds(wire[e] \o buf[e])
               y == Out(todo[q], e)
    <3>1. x \in Seq({0, 1}) /\ y \in Seq({0, 1}) /\ i = Marks(x \o y)
      BY <2>2, <2>3, <2>5
    <3> HIDE DEF x, y, i
    <3>2. Marks(x \o y) = Marks(x) + Marks(y) /\ Marks(x) \in Nat
      BY <3>1, MarksFacts
    <3>. QED  BY <3>1, <3>2 DEF x, y
  <2>7. o \in Nat /\ sq <= o
    BY <2>1, <2>4, MarksOfOut
  <2>8. i = sp
    BY <1>1, <1>4, <2>1, MarksOfIn
  <2>9. sq \in Nat
    BY <2>4, SyncsFacts
  <2>10. entered[p] + sp = entered[q] + sq
    BY DEF Together
  <2> HIDE DEF k, o, i, sp, sq
  <2>11. sq <= sp /\ sp \in Nat
    BY <2>6, <2>7, <2>8, <2>9
  <2>12. entered[p] \in Nat /\ entered[q] \in Nat /\ left[p] \in Nat
    BY <1>2
  <2>13. entered[p] <= entered[q]
    BY <2>9, <2>10, <2>11, <2>12
  <2>. QED  BY <1>3, <2>12, <2>13
<1>6. left[p] < entered[p]
  BY <1>2, <1>3
<1>. QED  BY <1>3, <1>5, <1>6
-----------------------------------------------------------------------------
(* The invariant holds at first if the programs are matched, and it stays. *)
LEMMA CallsShape ==
  ASSUME NEW f \in Programs, NEW p \in Party
  PROVE  /\ f[p] \in Seq(Item(p)) /\ Shape(p, f[p])
         /\ \A i \in 1 .. Len(f[p]) : f[p][i].op \in CallOps
<1>1. f[p] \in Seq(Call(p)) /\ \A i \in 1 .. Len(f[p]) : f[p][i].op = "send" => f[p][i].len <= MaxSend
  BY NetAssumption
<1> DEFINE t == f[p]
<1> HIDE DEF t
<1>2. t \in Seq(Call(p)) /\ \A i \in 1 .. Len(t) : t[i].op = "send" => t[i].len <= MaxSend
  BY <1>1 DEF t
<1>3. t \in Seq(Item(p)) /\ \A i \in 1 .. Len(t) : t[i] \in Call(p) /\ t[i] \in Item(p)
  BY <1>2 DEF Item
<1>4. \A i \in 1 .. Len(t) : t[i].op \in CallOps
  BY <1>3, CallOp
<1>5. CallsLast(t)
  BY <1>4 DEF CallsLast
<1>6. ReadsRight(p, t)
  BY <1>2, <1>4 DEF ReadsRight, CallOps
<1>7. FlushedLater(p, t)
  BY <1>4 DEF FlushedLater, CallOps
<1>. QED  BY <1>3, <1>4, <1>5, <1>6, <1>7 DEF Shape, t

LEMMA MatchedSyncs ==
  ASSUME NEW f \in Programs, Matched(f), NEW p \in Party, NEW q \in Party, p # q
  PROVE  Syncs(p, f[p]) <= Syncs(q, f[q])
<1> DEFINE e == <<p, q, "ios">>
<1>1. e \in End /\ e[1] = p /\ e[2] = q
  BY OpenEnds
<1> HIDE DEF e
<1>2. Peer(e) \in End /\ Peer(e)[1] = q
  BY <1>1, EndFacts
<1>3. /\ f[p] \in Seq(Item(e[1])) /\ f[q] \in Seq(Item(Peer(e)[1]))
      /\ \A i \in 1 .. Len(f[q]) : f[q][i].op \in CallOps \cup {"leave"}
  BY <1>1, <1>2, CallsShape
<1>4. Syncs(p, f[p]) <= Marks(Out(f[p], e))
  BY <1>1, <1>3, MarksOfOut
<1>5. Marks(In(f[q], Peer(e))) = Syncs(q, f[q])
  BY <1>2, <1>3, MarksOfIn
<1>6. Out(f[p], e) = In(f[q], Peer(e))
  BY <1>1 DEF Matched
<1>. QED  BY <1>4, <1>5, <1>6

LEMMA InitInv ==
  ASSUME \A f \in Programs : Matched(f), Init
  PROVE  NetInv
<1>1. PICK f \in Programs : todo = [p \in Party |-> OpenAll(p) \o f[p]]
  BY DEF Init
<1>2. Matched(f)
  OBVIOUS
<1>3. ASSUME NEW p \in Party
      PROVE  /\ todo[p] = OpenAll(p) \o f[p] /\ todo[p] \in Seq(Item(p)) /\ Shape(p, todo[p]) /\ ~ InSync(todo[p])
             /\ Syncs(p, todo[p]) = Syncs(p, f[p])
             /\ \A x \in EndsOf(p) : Out(todo[p], x) = Out(f[p], x) /\ In(todo[p], x) = In(f[p], x)
  <2> DEFINE s == OpenAll(p)
             t == f[p]
             u == s \o t
  <2>1. todo[p] = u
    BY <1>1
  <2>2. t \in Seq(Item(p)) /\ Shape(p, t) /\ \A i \in 1 .. Len(t) : t[i].op \in CallOps
    BY CallsShape
  <2>3. s \in Seq(StepsOf(p)) /\ \A i \in 1 .. Len(s) : s[i].op = "open"
    BY AllEndsFacts
  <2> HIDE DEF s, t
  <2>4. s \in Seq(Item(p)) /\ Shape(p, s) /\ Syncs(p, s) = 0 /\ ~ InSync(s)
    <3>1. ReadsRight(p, s)
      BY <2>3 DEF ReadsRight
    <3> DEFINE c == [op |-> "open"]
    <3>2. Follows(p, c, s) /\ s \in Seq(Item(p))
      BY <2>3, <3>1, PlainFollows
    <3>. QED  BY <3>2 DEF Follows
  <2>5. u \in Seq(Item(p))
    BY <2>2, <2>4, ConcatFacts
  <2>6. Shape(p, u)
    BY <2>2, <2>4, JoinShape
  <2>7. ~ InSync(u)
    <3>1. \A i \in 1 .. Len(u) : i \in 1 .. Len(s) \/ \E k \in 1 .. Len(t) : i = Len(s) + k
      BY <2>2, <2>4, ConcatFacts
    <3>2. /\ \A i \in 1 .. Len(s) : u[i] = s[i]
          /\ \A k \in 1 .. Len(t) : u[Len(s) + k] = t[k]
      BY <2>2, <2>4, ConcatFacts
    <3> HIDE DEF u
    <3>3. \A i \in 1 .. Len(u) : u[i].op = "open" \/ u[i].op \in CallOps
      BY <2>2, <2>3, <3>1, <3>2
    <3>. QED  BY <3>3 DEF InSync, CallOps
  <2>8. Syncs(p, u) = Syncs(p, t)
    <3>1. Syncs(p, u) = Syncs(p, s) + Syncs(p, t) /\ Syncs(p, t) \in Nat
      BY <2>2, <2>4, SyncsFacts
    <3>. QED  BY <2>4, <3>1
  <2>9. ASSUME NEW x \in EndsOf(p) PROVE Out(u, x) = Out(t, x) /\ In(u, x) = In(t, x)
    <3>1. x \in End /\ x[1] = p
      BY OwnEnd
    <3>2. Out(u, x) = Out(s, x) \o Out(t, x) /\ In(u, x) = In(s, x) \o In(t, x)
      <4>1. s \in Seq(Item(x[1])) /\ t \in Seq(Item(x[1]))
        BY <2>2, <2>4, <3>1
      <4> HIDE DEF s, t
      <4>2. Out(s \o t, x) = Out(s, x) \o Out(t, x)
        BY <3>1, <4>1, OutFacts
      <4>3. In(s \o t, x) = In(s, x) \o In(t, x)
        BY <3>1, <4>1, InFacts
      <4>. QED  BY <4>2, <4>3 DEF u
    <3>3. Out(s, x) = <<>> /\ In(s, x) = <<>>
      BY <2>3, <2>4, QuietSteps
    <3>4. Out(t, x) \in Seq({0, 1}) /\ In(t, x) \in Seq({0, 1})
      BY <2>2, <3>1, OutFacts, InFacts
    <3>5. <<>> \o Out(t, x) = Out(t, x) /\ <<>> \o In(t, x) = In(t, x)
      BY <3>4, ConcatEmpty
    <3>. QED  BY <3>2, <3>3, <3>5
  <2>. QED  BY <2>1, <2>5, <2>6, <2>7, <2>8, <2>9 DEF s, t
<1>4. TypeOK
  <2>1. \A p \in Party : todo[p] \in Seq(Call(p) \cup StepsOf(p))
    BY <1>3 DEF Item
  <2>2. todo = [p \in Party |-> todo[p]]
    BY <1>1
  <2>3. /\ build \in Builds
        /\ status \in [End -> {"closed", "listening", "connected", "open"}]
        /\ buf \in [End -> Seq(Nat)] /\ wire \in [End -> Seq(Nat)]
        /\ due \in [End -> Nat] /\ hasSent \in [End -> BOOLEAN]
        /\ sent \in [Pair -> BOOLEAN]
        /\ wrote \in [Pair -> Nat] /\ got \in [Pair -> Seq(Nat)]
        /\ entered \in [Party -> Nat] /\ left \in [Party -> Nat]
    BY DEF Init
  <2>4. \A e \in End : buf[e] = <<>> /\ wire[e] = <<>> /\ due[e] = 0
    BY DEF Init
  <2>5. \A e \in End : due[e] <= Len(buf[e]) /\ Len(wire[e]) <= Capacity
    BY <2>4, NetAssumption
  <2>6. \A e, x \in End : e[1] = x[1] /\ due[e] > 0 /\ due[x] > 0 => e = x
    BY <2>4
  <2>. QED  BY <2>1, <2>2, <2>3, <2>5, <2>6 DEF TypeOK
<1>5. StepsInv
  BY <1>3 DEF StepsInv, Shape
<1>6. \A p \in Party : entered[p] = 0 /\ left[p] = 0
  BY DEF Init
<1>7. SyncInv
  BY <1>3, <1>6 DEF SyncInv
<1>8. FlushInv
  BY <1>3, PairFacts DEF FlushInv
<1>9. Balanced
  <2> SUFFICES ASSUME NEW e \in End
               PROVE  Kinds(wire[e] \o buf[e]) \o Out(todo[e[1]], e) = In(todo[e[2]], Peer(e))
    BY DEF Balanced
  <2>1. /\ e[1] \in Party /\ e[2] \in Party /\ Peer(e) \in End /\ Peer(e)[1] = e[2]
        /\ e \in EndsOf(e[1]) /\ Peer(e) \in EndsOf(e[2])
    BY EndFacts DEF EndsOf
  <2>2. Out(todo[e[1]], e) = Out(f[e[1]], e) /\ In(todo[e[2]], Peer(e)) = In(f[e[2]], Peer(e))
    BY <1>3, <2>1
  <2>3. Out(f[e[1]], e) = In(f[e[2]], Peer(e))
    BY <1>2 DEF Matched
  <2>4. Kinds(wire[e] \o buf[e]) = <<>>
    <3> DEFINE s == wire[e] \o buf[e]
    <3>1. wire[e] = <<>> /\ buf[e] = <<>>
      BY DEF Init
    <3>2. s \in Seq(Nat) /\ Len(s) = 0
      BY <3>1
    <3> HIDE DEF s
    <3>3. Kinds(s) \in Seq({0, 1}) /\ Len(Kinds(s)) = 0
      BY <3>2, KindsFacts
    <3>4. Kinds(s) = <<>>
      BY <3>3
    <3>. QED  BY <3>4 DEF s
  <2>5. Out(todo[e[1]], e) \in Seq({0, 1})
    BY <1>3, <2>1, OutFacts
  <2>6. <<>> \o Out(todo[e[1]], e) = Out(todo[e[1]], e)
    BY <2>5, ConcatEmpty
  <2>. QED  BY <2>2, <2>3, <2>4, <2>6
<1>10. Together
  <2> SUFFICES ASSUME NEW p \in Party, NEW q \in Party
               PROVE  entered[p] + Syncs(p, todo[p]) = entered[q] + Syncs(q, todo[q])
    BY DEF Together
  <2>1. Syncs(p, todo[p]) = Syncs(p, f[p]) /\ Syncs(q, todo[q]) = Syncs(q, f[q])
    BY <1>3
  <2>2. Syncs(p, f[p]) \in Nat /\ Syncs(q, f[q]) \in Nat
    BY CallsShape, SyncsFacts
  <2>3. Syncs(p, f[p]) = Syncs(q, f[q])
    <3>1. CASE p = q
      BY <3>1
    <3>2. CASE p # q
      <4>1. Syncs(p, f[p]) <= Syncs(q, f[q]) /\ Syncs(q, f[q]) <= Syncs(p, f[p])
        BY <1>2, <3>2, MatchedSyncs
      <4>. QED  BY <2>2, <4>1
    <3>. QED  BY <3>1, <3>2
  <2>. QED  BY <1>6, <2>1, <2>3
<1>. QED  BY <1>4, <1>5, <1>7, <1>8, <1>9, <1>10 DEF NetInv

LEMMA StepInv ==
  ASSUME NetInv, [Next]_vars
  PROVE  NetInv'
<1>1. ASSUME NEW p \in Party, PartyStep(p) PROVE NetInv'
  <2>1. TypeOK' /\ FlushInv' /\ Balanced'
    BY <1>1, TypeStep, FlushKept, BalancedStep DEF NetInv
  <2>2. StepsInv' /\ SyncInv' /\ Together'
    <3>1. CASE UNCHANGED <<todo, entered, left>>
      BY <3>1 DEF NetInv, StepsInv, SyncInv, Together
    <3>2. CASE \E st : Replaced(p, st)
      BY <3>2, ReplacedShape, ReplacedCounts DEF NetInv
    <3>. QED  BY <1>1, <3>1, <3>2, StepShape DEF NetInv
  <2>. QED  BY <2>1, <2>2 DEF NetInv
<1>2. CASE UNCHANGED vars
  BY <1>2 DEF vars, NetInv, TypeOK, StepsInv, SyncInv, FlushInv, Balanced, Together
<1>. QED  BY <1>1, <1>2 DEF Next, Done

LEMMA InvNothingLeft ==
  ASSUME NetInv PROVE NothingLeftOver
<1> SUFFICES ASSUME AllFinished, NEW e \in End PROVE wire[e] = <<>> /\ buf[e] = <<>>
  BY DEF NothingLeftOver, NetInv
<1>1. e[1] \in Party /\ e[2] \in Party /\ Peer(e) \in End
  BY EndFacts
<1>2. todo[e[1]] = <<>> /\ todo[e[2]] = <<>>
  BY <1>1 DEF AllFinished, Finished
<1>3. Out(<<>>, e) = <<>> /\ In(<<>>, Peer(e)) = <<>>
  BY <1>1, OutFacts, InFacts
<1> DEFINE s == wire[e] \o buf[e]
<1>4. Kinds(s) \o <<>> = <<>>
  BY <1>2, <1>3 DEF NetInv, Balanced
<1>5. wire[e] \in Seq(Nat) /\ buf[e] \in Seq(Nat)
  BY DEF NetInv, TypeOK
<1>6. s \in Seq(Nat) /\ Len(s) = Len(wire[e]) + Len(buf[e])
  BY <1>5, ConcatFacts
<1> HIDE DEF s
<1>7. Kinds(s) \in Seq({0, 1}) /\ Len(Kinds(s)) = Len(s)
  BY <1>6, KindsFacts
<1>8. Kinds(s) = <<>>
  BY <1>4, <1>7, ConcatEmpty
<1>9. Len(s) = 0
  BY <1>7, <1>8
<1>10. Len(wire[e]) = 0 /\ Len(buf[e]) = 0
  <2> DEFINE a == Len(wire[e])
             b == Len(buf[e])
  <2>1. a \in Nat /\ b \in Nat
    BY <1>5
  <2>2. a + b = 0
    BY <1>6, <1>9
  <2> HIDE DEF a, b
  <2>3. a = 0 /\ b = 0
    BY <2>1, <2>2
  <2>. QED  BY <2>3 DEF a, b
<1>. QED  BY <1>5, <1>10
-----------------------------------------------------------------------------
(* Every session is matched: what one party sends another receives, and    *)
(* every sync of one is a sync of the other.                               *)
Carries(e) == e = SendEnd(e[1], e[2])

LEMMA SendRecvFacts ==
  ASSUME NEW e \in End, NEW q \in Party, NEW n \in Nat
  PROVE  /\ Send(q, n) \in SendRecv /\ Send(q, n).op = "send" /\ Send(q, n).with = q
         /\ Recv(q, n) \in SendRecv /\ Recv(q, n).op = "recv" /\ Recv(q, n).with = q
         /\ \A p : SendRecv \subseteq Item(p) /\ Sync \in Item(p) /\ Close \in Item(p)
         /\ Written(Send(q, n), e) = IF q = e[2] /\ Carries(e) THEN Ones(n) ELSE <<>>
         /\ ReadFrom(Send(q, n), Peer(e)) = <<>> /\ Written(Recv(q, n), e) = <<>>
         /\ ReadFrom(Recv(q, n), Peer(e)) = IF q = e[1] /\ Carries(e) THEN Ones(n) ELSE <<>>
         /\ Written(Sync, e) = <<0>> /\ ReadFrom(Sync, Peer(e)) = <<0>>
         /\ Written(Close, e) = <<>> /\ ReadFrom(Close, Peer(e)) = <<>>
<1>1. /\ Send(q, n) \in SendRecv /\ Send(q, n).op = "send" /\ Send(q, n).with = q
      /\ Recv(q, n) \in SendRecv /\ Recv(q, n).op = "recv" /\ Recv(q, n).with = q
  BY DEF Send, Recv, SendRecv
<1>2. \A p : SendRecv \subseteq Item(p) /\ Sync \in Item(p) /\ Close \in Item(p)
  BY DEF Item, Call, SendRecv
<1>3. Written(Send(q, n), e) = IF q = e[2] /\ Carries(e) THEN Ones(n) ELSE <<>>
  BY DEF Written, Send, Carries
<1>4. ReadFrom(Send(q, n), Peer(e)) = <<>> /\ Written(Recv(q, n), e) = <<>>
  BY DEF Written, ReadFrom, Send, Recv
<1>5. /\ Written(Sync, e) = <<0>> /\ ReadFrom(Sync, Peer(e)) = <<0>>
      /\ Written(Close, e) = <<>> /\ ReadFrom(Close, Peer(e)) = <<>>
  BY DEF Written, ReadFrom, Sync, Close
<1>6. ReadFrom(Recv(q, n), Peer(e)) = IF q = e[1] /\ Carries(e) THEN Ones(n) ELSE <<>>
  <2>1. Peer(e)[1] = e[2] /\ Peer(e)[2] = e[1] /\ Peer(e) = <<e[2], e[1], e[3]>> /\ e = <<e[1], e[2], e[3]>>
    BY EndFacts DEF Peer
  <2>2. Peer(e) = RecvEnd(Peer(e)[1], Peer(e)[2]) <=> Carries(e)
    BY <2>1 DEF RecvEnd, SendEnd, Carries
  <2>3. ReadFrom(Recv(q, n), Peer(e)) = IF q = Peer(e)[2] /\ Peer(e) = RecvEnd(Peer(e)[1], Peer(e)[2]) THEN Ones(n) ELSE <<>>
    BY DEF ReadFrom, Recv
  <2>. QED  BY <2>1, <2>2, <2>3
<1>. QED  BY <1>1, <1>2, <1>3, <1>4, <1>5, <1>6

(* Calls that have nothing to do with an end.                              *)
LEMMA Silent ==
  ASSUME NEW e \in End, NEW t \in Seq(SendRecv)
  PROVE  /\ t \in Seq(Item(e[1])) /\ t \in Seq(Item(Peer(e)[1]))
         /\ (\A i \in 1 .. Len(t) : t[i].op = "recv" \/ t[i].with # e[2] \/ ~ Carries(e)) => Out(t, e) = <<>>
         /\ (\A i \in 1 .. Len(t) : t[i].op = "send" \/ t[i].with # e[1] \/ ~ Carries(e)) => In(t, Peer(e)) = <<>>
<1>0. Peer(e) \in End /\ Peer(e)[1] = e[2] /\ Peer(e)[2] = e[1] /\ 0 \in Nat /\ e[1] \in Party
  BY EndFacts
<1>1. SendRecv \subseteq Item(e[1]) /\ SendRecv \subseteq Item(Peer(e)[1])
  BY <1>0, SendRecvFacts
<1>2. t \in Seq(Item(e[1])) /\ t \in Seq(Item(Peer(e)[1]))
  BY <1>1
<1>3. \A i \in 1 .. Len(t) : t[i] \in Item(e[1]) /\ t[i] \in Item(Peer(e)[1]) /\ t[i] \in SendRecv
  BY <1>1
<1>4. Peer(e) = RecvEnd(Peer(e)[1], Peer(e)[2]) <=> Carries(e)
  <2>1. Peer(e) = <<e[2], e[1], e[3]>> /\ e = <<e[1], e[2], e[3]>>
    BY EndFacts DEF Peer
  <2>. QED  BY <1>0, <2>1 DEF RecvEnd, SendEnd, Carries
<1>5. ASSUME \A i \in 1 .. Len(t) : t[i].op = "recv" \/ t[i].with # e[2] \/ ~ Carries(e)
      PROVE  Out(t, e) = <<>>
  <2>1. \A i \in 1 .. Len(t) : Written(t[i], e) = <<>>
    BY <1>3, <1>5 DEF Written, SendRecv, Carries
  <2>2. \A i \in 1 .. Len(t) : WritesOf(e)[t[i]] = <<>>
    BY <1>3, <2>1 DEF WritesOf
  <2>. QED  BY <1>2, <2>2, WritesSplit, FlatMapNone DEF Out
<1>6. ASSUME \A i \in 1 .. Len(t) : t[i].op = "send" \/ t[i].with # e[1] \/ ~ Carries(e)
      PROVE  In(t, Peer(e)) = <<>>
  <2>1. \A i \in 1 .. Len(t) : ReadFrom(t[i], Peer(e)) = <<>>
    <3> SUFFICES ASSUME NEW i \in 1 .. Len(t) PROVE ReadFrom(t[i], Peer(e)) = <<>>
      OBVIOUS
    <3>1. t[i].op \in {"send", "recv"}
      BY <1>3 DEF SendRecv
    <3>2. t[i].op = "recv" => ~ (t[i].with = Peer(e)[2] /\ Peer(e) = RecvEnd(Peer(e)[1], Peer(e)[2]))
      BY <1>0, <1>4, <1>6
    <3>. QED  BY <3>1, <3>2 DEF ReadFrom
  <2>2. \A i \in 1 .. Len(t) : ReadsOf(Peer(e))[t[i]] = <<>>
    BY <1>3, <2>1 DEF ReadsOf
  <2>. QED  BY <1>0, <1>2, <2>2, ReadsSplit, FlatMapNone DEF In
<1>. QED  BY <1>2, <1>5, <1>6

(* Two lists of calls match on an end, call by call or part by part.       *)
Match(t, u, e) == /\ t \in Seq(Item(e[1])) /\ u \in Seq(Item(Peer(e)[1]))
                  /\ Out(t, e) = In(u, Peer(e))

LEMMA MatchEach ==
  ASSUME NEW e \in End, NEW t \in Seq(Item(e[1])), NEW u \in Seq(Item(Peer(e)[1])), Len(t) = Len(u),
         \A i \in 1 .. Len(t) : Written(t[i], e) = ReadFrom(u[i], Peer(e))
  PROVE  Match(t, u, e)
<1>1. /\ \A i \in 1 .. Len(t) : WritesOf(e)[t[i]] = Written(t[i], e)
      /\ \A i \in 1 .. Len(u) : ReadsOf(Peer(e))[u[i]] = ReadFrom(u[i], Peer(e))
  BY DEF WritesOf, ReadsOf
<1>2. \A i \in 1 .. Len(t) : WritesOf(e)[t[i]] = ReadsOf(Peer(e))[u[i]]
  BY <1>1
<1>3. [i \in 1 .. Len(t) |-> WritesOf(e)[t[i]]] = [i \in 1 .. Len(u) |-> ReadsOf(Peer(e))[u[i]]]
  BY <1>2
<1>4. FlatMap(WritesOf(e), t) = FlatMap(ReadsOf(Peer(e)), u)
  BY <1>3 DEF FlatMap
<1>. QED  BY <1>4 DEF Match, Out, In

LEMMA MatchConcat ==
  ASSUME NEW e \in End, NEW t, NEW u, NEW v, NEW w, Match(t, u, e), Match(v, w, e)
  PROVE  Match(t \o v, u \o w, e)
<1>0. Peer(e) \in End
  BY EndFacts
<1>1. /\ t \in Seq(Item(e[1])) /\ u \in Seq(Item(Peer(e)[1]))
      /\ v \in Seq(Item(e[1])) /\ w \in Seq(Item(Peer(e)[1]))
  BY DEF Match
<1>2. t \o v \in Seq(Item(e[1])) /\ u \o w \in Seq(Item(Peer(e)[1]))
  BY <1>1, ConcatFacts
<1>3. Out(t \o v, e) = Out(t, e) \o Out(v, e)
  BY <1>1, OutFacts
<1>4. In(u \o w, Peer(e)) = In(u, Peer(e)) \o In(w, Peer(e))
  BY <1>0, <1>1, InFacts
<1>5. Out(t, e) = In(u, Peer(e)) /\ Out(v, e) = In(w, Peer(e))
  BY DEF Match
<1>. QED  BY <1>2, <1>3, <1>4, <1>5 DEF Match

LEMMA OutFlatten ==
  ASSUME NEW e \in End, NEW f \in Seq(Seq(Item(e[1])))
  PROVE  Out(FlattenSeq(f), e) = FlattenSeq([k \in 1 .. Len(f) |-> Out(f[k], e)])
BY WritesSplit, FlatMapFlatten DEF Out

LEMMA InFlatten ==
  ASSUME NEW e \in End, NEW f \in Seq(Seq(Item(e[1])))
  PROVE  In(FlattenSeq(f), e) = FlattenSeq([k \in 1 .. Len(f) |-> In(f[k], e)])
BY ReadsSplit, FlatMapFlatten DEF In

Rows(f, n) == f = [i \in 1 .. n |-> f[i]]

LEMMA MatchFlatten ==
  ASSUME NEW e \in End, NEW n \in Nat, NEW f, NEW g, Rows(f, n), Rows(g, n),
         \A i \in 1 .. n : Match(f[i], g[i], e)
  PROVE  Match(FlattenSeq(f), FlattenSeq(g), e)
<1>0. Peer(e) \in End
  BY EndFacts
<1> DEFINE A == Item(e[1])
           B == Item(Peer(e)[1])
           SA == Seq(A)
           SB == Seq(B)
<1>1. f \in [1 .. n -> SA] /\ g \in [1 .. n -> SB]
  <2>1. \A i \in 1 .. n : f[i] \in SA /\ g[i] \in SB
    BY DEF Match
  <2> HIDE DEF SA, SB
  <2>. QED  BY <2>1 DEF Rows
<1> HIDE DEF SA, SB
<1>2. f \in Seq(SA) /\ Len(f) = n /\ g \in Seq(SB) /\ Len(g) = n
  BY <1>1, FunIsSeq
<1>3. f \in Seq(Seq(A)) /\ g \in Seq(Seq(B))
  BY <1>2 DEF SA, SB
<1> HIDE DEF A, B
<1>4. FlattenSeq(f) \in Seq(A) /\ FlattenSeq(g) \in Seq(B)
  BY <1>3, FlattenTyped
<1>5. Out(FlattenSeq(f), e) = FlattenSeq([k \in 1 .. Len(f) |-> Out(f[k], e)])
  BY <1>3, OutFlatten DEF A
<1>6. In(FlattenSeq(g), Peer(e)) = FlattenSeq([k \in 1 .. Len(g) |-> In(g[k], Peer(e))])
  BY <1>0, <1>3, InFlatten DEF B
<1>7. \A k \in 1 .. n : Out(f[k], e) = In(g[k], Peer(e))
  BY DEF Match
<1>8. [k \in 1 .. Len(f) |-> Out(f[k], e)] = [k \in 1 .. Len(g) |-> In(g[k], Peer(e))]
  BY <1>2, <1>7
<1>. QED  BY <1>4, <1>5, <1>6, <1>8 DEF Match, A, B
-----------------------------------------------------------------------------
(* The calls of a session.                                                 *)
LEMMA PiecesTyped ==
  ASSUME NEW n \in Nat, NEW size \in Nat \ {0}
  PROVE  /\ 1 + (n \div size) \in Nat
         /\ \A i \in 1 .. (1 + (n \div size)) : Pieces(n, size)[i] \in Nat
<1> DEFINE m == n \div size
           r == n % size
<1>1. m \in Nat /\ r \in Nat
  OBVIOUS
<1>2. Pieces(n, size) = [i \in 1 .. m |-> size] \o <<r>>
  BY DEF Pieces
<1> HIDE DEF m, r
<1> DEFINE a == [i \in 1 .. m |-> size]
           b == <<r>>
<1>3. a \in Seq(Nat) /\ Len(a) = m
  BY <1>1, FunIsSeq
<1>4. b \in Seq(Nat) /\ Len(b) = 1
  BY <1>1
<1>7. Pieces(n, size) = a \o b
  BY <1>2
<1> HIDE DEF a, b
<1>5. Pieces(n, size) \in Seq(Nat) /\ Len(Pieces(n, size)) = m + 1
  <2>1. a \in Seq(Nat) /\ b \in Seq(Nat)
    BY <1>3, <1>4
  <2>2. a \o b \in Seq(Nat) /\ Len(a \o b) = Len(a) + Len(b)
    BY <2>1, ConcatFacts
  <2>. QED  BY <1>3, <1>4, <1>7, <2>2
<1>6. \A i \in 1 .. (1 + m) : Pieces(n, size)[i] \in Nat
  BY <1>1, <1>5
<1>. QED  BY <1>1, <1>6 DEF m

LEMMA CallPieces ==
  ASSUME NEW q \in Party, NEW n \in Nat
  PROVE  LET m == 1 + (n \div ChunkSize)
             s == SendPieces(q, n)
             r == RecvPieces(q, n) IN
         /\ s \in Seq(SendRecv) /\ Len(s) = m /\ r \in Seq(SendRecv) /\ Len(r) = m
         /\ \A i \in 1 .. m : /\ Pieces(n, ChunkSize)[i] \in Nat
                              /\ s[i] = Send(q, Pieces(n, ChunkSize)[i])
                              /\ r[i] = Recv(q, Pieces(n, ChunkSize)[i])
<1> DEFINE m == 1 + (n \div ChunkSize)
           P == Pieces(n, ChunkSize)
<1>1. m \in Nat /\ \A i \in 1 .. m : P[i] \in Nat
  BY SessionAssumption, PiecesTyped
<1>2. SendPieces(q, n) = [i \in 1 .. m |-> Send(q, P[i])]
  BY DEF SendPieces
<1>3. RecvPieces(q, n) = [i \in 1 .. m |-> Recv(q, P[i])]
  BY DEF RecvPieces
<1> HIDE DEF m, P
<1>4. \A i \in 1 .. m : Send(q, P[i]) \in SendRecv /\ Recv(q, P[i]) \in SendRecv
  BY <1>1 DEF Send, Recv, SendRecv
<1>5. [i \in 1 .. m |-> Send(q, P[i])] \in [1 .. m -> SendRecv]
  BY <1>4
<1>6. [i \in 1 .. m |-> Recv(q, P[i])] \in [1 .. m -> SendRecv]
  BY <1>4
<1>7. SendPieces(q, n) \in Seq(SendRecv) /\ Len(SendPieces(q, n)) = m
  BY <1>1, <1>2, <1>5, FunIsSeq
<1>8. RecvPieces(q, n) \in Seq(SendRecv) /\ Len(RecvPieces(q, n)) = m
  BY <1>1, <1>3, <1>6, FunIsSeq
<1>9. \A i \in 1 .. m : /\ SendPieces(q, n)[i] = Send(q, P[i])
                        /\ RecvPieces(q, n)[i] = Recv(q, P[i])
  BY <1>2, <1>3
<1>. QED  BY <1>1, <1>7, <1>8, <1>9 DEF m, P

LEMMA EachPiece ==
  ASSUME NEW q \in Party, NEW n \in Nat
  PROVE  /\ SendPieces(q, n) \in Seq(SendRecv)
         /\ \A i \in 1 .. Len(SendPieces(q, n)) : \E k \in Nat : SendPieces(q, n)[i] = Send(q, k)
         /\ RecvPieces(q, n) \in Seq(SendRecv)
         /\ \A i \in 1 .. Len(RecvPieces(q, n)) : \E k \in Nat : RecvPieces(q, n)[i] = Recv(q, k)
<1> DEFINE m == 1 + (n \div ChunkSize)
           P == Pieces(n, ChunkSize)
           s == SendPieces(q, n)
           r == RecvPieces(q, n)
<1>1. /\ s \in Seq(SendRecv) /\ Len(s) = m /\ r \in Seq(SendRecv) /\ Len(r) = m
      /\ \A i \in 1 .. m : P[i] \in Nat /\ s[i] = Send(q, P[i]) /\ r[i] = Recv(q, P[i])
  BY CallPieces
<1> HIDE DEF m, P, s, r
<1>2. ASSUME NEW i \in 1 .. m PROVE \E k \in Nat : s[i] = Send(q, k)
  <2>1. P[i] \in Nat /\ s[i] = Send(q, P[i])
    BY <1>1
  <2>. QED  BY <2>1
<1>3. ASSUME NEW i \in 1 .. m PROVE \E k \in Nat : r[i] = Recv(q, k)
  <2>1. P[i] \in Nat /\ r[i] = Recv(q, P[i])
    BY <1>1
  <2>. QED  BY <2>1
<1>4. \A i \in 1 .. Len(s) : \E k \in Nat : s[i] = Send(q, k)
  BY <1>1, <1>2
<1>5. \A i \in 1 .. Len(r) : \E k \in Nat : r[i] = Recv(q, k)
  BY <1>1, <1>3
<1>. QED  BY <1>1, <1>4, <1>5 DEF s, r

LEMMA Parties == Party = {0, 1, 2} /\ 0 \in Nat /\ 1 \in Nat
BY SessionAssumption

(* Dealt data: what party 0 sends to one party, piece by piece, and what   *)
(* it sends to the other.                                                  *)
LEMMA MatchPieces ==
  ASSUME NEW e \in End, NEW n \in Nat, Carries(e)
  PROVE  /\ Match(SendPieces(e[2], n), RecvPieces(e[1], n), e)
         /\ \A q \in Party \ {e[2]} : Match(SendPieces(q, n), <<>>, e)
<1>0. e[1] \in Party /\ e[2] \in Party /\ Peer(e)[1] = e[2] /\ Peer(e) \in End
  BY EndFacts
<1>1. Match(SendPieces(e[2], n), RecvPieces(e[1], n), e)
  <2> DEFINE s == SendPieces(e[2], n)
             r == RecvPieces(e[1], n)
  <2> DEFINE m == 1 + (n \div ChunkSize)
             P == Pieces(n, ChunkSize)
  <2>4. /\ s \in Seq(SendRecv) /\ Len(s) = m
        /\ \A i \in 1 .. m : P[i] \in Nat /\ s[i] = Send(e[2], P[i])
    BY <1>0, CallPieces
  <2>5. /\ r \in Seq(SendRecv) /\ Len(r) = m
        /\ \A i \in 1 .. m : r[i] = Recv(e[1], P[i])
    BY <1>0, CallPieces
  <2> HIDE DEF s, r, m, P
  <2>1. /\ s \in Seq(SendRecv) /\ r \in Seq(SendRecv) /\ Len(s) = Len(r)
        /\ \A i \in 1 .. Len(s) : \E k \in Nat : s[i] = Send(e[2], k) /\ r[i] = Recv(e[1], k)
    BY <2>4, <2>5
  <2>2. s \in Seq(Item(e[1])) /\ r \in Seq(Item(Peer(e)[1]))
    BY <2>1, Silent
  <2>3. \A i \in 1 .. Len(s) : Written(s[i], e) = ReadFrom(r[i], Peer(e))
    <3> SUFFICES ASSUME NEW i \in 1 .. Len(s) PROVE Written(s[i], e) = ReadFrom(r[i], Peer(e))
      OBVIOUS
    <3>1. PICK k \in Nat : s[i] = Send(e[2], k) /\ r[i] = Recv(e[1], k)
      BY <2>1
    <3>2. Written(Send(e[2], k), e) = Ones(k)
      BY <1>0, SendRecvFacts
    <3>3. ReadFrom(Recv(e[1], k), Peer(e)) = Ones(k)
      BY <1>0, SendRecvFacts
    <3>. QED  BY <3>1, <3>2, <3>3
  <2>. QED  BY <2>1, <2>2, <2>3, MatchEach DEF s, r
<1>2. ASSUME NEW q \in Party \ {e[2]} PROVE Match(SendPieces(q, n), <<>>, e)
  <2> DEFINE s == SendPieces(q, n)
  <2>1. s \in Seq(SendRecv) /\ \A i \in 1 .. Len(s) : \E k \in Nat : s[i] = Send(q, k)
    BY EachPiece
  <2> HIDE DEF s
  <2>2. \A i \in 1 .. Len(s) : s[i].with # e[2]
    BY <2>1, SendRecvFacts
  <2>3. s \in Seq(Item(e[1])) /\ Out(s, e) = <<>>
    BY <2>1, <2>2, Silent
  <2>4. In(<<>>, Peer(e)) = <<>> /\ <<>> \in Seq(Item(Peer(e)[1]))
    BY <1>0, InFacts
  <2>. QED  BY <2>3, <2>4 DEF Match, s
<1>. QED  BY <1>1, <1>2

LEMMA MatchOne ==
  ASSUME NEW e \in End, NEW n \in Nat, Carries(e)
  PROVE  /\ Match(<<Send(e[2], n)>>, <<Recv(e[1], n)>>, e)
         /\ \A q \in Party \ {e[2]} :
              /\ Match(<<Send(q, n), Send(e[2], n)>>, <<Recv(e[1], n)>>, e)
              /\ Match(<<Send(e[2], n), Send(q, n)>>, <<Recv(e[1], n)>>, e)
              /\ Match(<<Send(q, n)>>, <<>>, e)
<1>0. e[1] \in Party /\ e[2] \in Party /\ Peer(e)[1] = e[2] /\ Peer(e) \in End
  BY EndFacts
<1> DEFINE a == Send(e[2], n)
           r == Recv(e[1], n)
<1>1. a \in Item(e[1]) /\ r \in Item(Peer(e)[1])
  BY <1>0, SendRecvFacts
<1>2. Written(a, e) = Ones(n) /\ ReadFrom(r, Peer(e)) = Ones(n)
  BY <1>0, SendRecvFacts
<1>9. Ones(n) \in Seq({0, 1})
  BY RunLengths
<1> HIDE DEF a, r
<1>3. /\ Out(<<a>>, e) = Ones(n) /\ In(<<r>>, Peer(e)) = Ones(n)
      /\ <<a>> \in Seq(Item(e[1])) /\ <<r>> \in Seq(Item(Peer(e)[1]))
  BY <1>0, <1>1, <1>2, OutFacts, InFacts
<1>4. ASSUME NEW q \in Party \ {e[2]}
      PROVE  /\ Match(<<Send(q, n), a>>, <<r>>, e) /\ Match(<<a, Send(q, n)>>, <<r>>, e)
             /\ Match(<<Send(q, n)>>, <<>>, e)
  <2> DEFINE b == Send(q, n)
  <2>1. b \in Item(e[1]) /\ Written(b, e) = <<>>
    BY SendRecvFacts
  <2> HIDE DEF b
  <2>2. Out(<<b, a>>, e) = <<>> \o Ones(n) /\ Out(<<a, b>>, e) = Ones(n) \o <<>>
    <3>1. Out(<<b, a>>, e) = Written(b, e) \o Written(a, e)
      BY <1>1, <2>1, OutIn2
    <3>2. Out(<<a, b>>, e) = Written(a, e) \o Written(b, e)
      BY <1>1, <2>1, OutIn2
    <3>. QED  BY <1>2, <2>1, <3>1, <3>2
  <2>3. <<>> \o Ones(n) = Ones(n) /\ Ones(n) \o <<>> = Ones(n)
    BY <1>9, ConcatEmpty
  <2>4. <<b, a>> \in Seq(Item(e[1])) /\ <<a, b>> \in Seq(Item(e[1])) /\ <<b>> \in Seq(Item(e[1]))
    BY <1>1, <2>1
  <2>5. Out(<<b>>, e) = <<>>
    BY <2>1, OutFacts
  <2>6. In(<<>>, Peer(e)) = <<>> /\ <<>> \in Seq(Item(Peer(e)[1]))
    BY <1>0, InFacts
  <2>7. Match(<<b, a>>, <<r>>, e) /\ Match(<<a, b>>, <<r>>, e)
    BY <1>3, <2>2, <2>3, <2>4 DEF Match
  <2>8. Match(<<b>>, <<>>, e)
    BY <2>4, <2>5, <2>6 DEF Match
  <2>. QED  BY <2>7, <2>8 DEF b
<1>5. Match(<<a>>, <<r>>, e)
  BY <1>3 DEF Match
<1>. QED  BY <1>4, <1>5 DEF a, r

(* Calls that are all silent on an end match.                              *)
LEMMA MatchSilent ==
  ASSUME NEW e \in End, NEW t \in Seq(SendRecv), NEW u \in Seq(SendRecv),
         \A i \in 1 .. Len(t) : t[i].op = "recv" \/ t[i].with # e[2] \/ ~ Carries(e),
         \A i \in 1 .. Len(u) : u[i].op = "send" \/ u[i].with # e[1] \/ ~ Carries(e)
  PROVE  Match(t, u, e)
<1>1. t \in Seq(Item(e[1])) /\ Out(t, e) = <<>>
  BY Silent
<1>2. u \in Seq(Item(Peer(e)[1])) /\ In(u, Peer(e)) = <<>>
  BY Silent
<1>. QED  BY <1>1, <1>2 DEF Match

(* All calls of dealing are sends of party 0 and receives from party 0.    *)
LEMMA DealTyped ==
  ASSUME NEW s \in SessionType, NEW p \in Party
  PROVE  /\ Deal(p, s) \in Seq(SendRecv)
         /\ \A i \in 1 .. Len(Deal(p, s)) :
              \/ Deal(p, s)[i].op = "send" /\ p = 0
              \/ Deal(p, s)[i].op = "recv" /\ Deal(p, s)[i].with = 0 /\ p # 0
<1> DEFINE S == IF p = 0 THEN {c \in SendRecv : c.op = "send"}
                         ELSE {c \in SendRecv : c.op = "recv" /\ c.with = 0}
<1>1. s.to1 \in Nat /\ s.to2 \in Nat /\ 0 \in Nat /\ 1 \in Nat
  BY DEF SessionType
<1>2. 0 \in Party /\ 1 \in Party /\ 2 \in Party
  BY Parties
<1>3. p = 0 => /\ \A q \in Party, n \in Nat : Send(q, n) \in S
               /\ \A q \in Party, n \in Nat : SendPieces(q, n) \in Seq(S)
  <2> SUFFICES ASSUME p = 0 PROVE /\ \A q \in Party, n \in Nat : Send(q, n) \in S
                                  /\ \A q \in Party, n \in Nat : SendPieces(q, n) \in Seq(S)
    OBVIOUS
  <2>1. \A q \in Party, n \in Nat : Send(q, n) \in S
    BY DEF Send, SendRecv
  <2>2. ASSUME NEW q \in Party, NEW n \in Nat PROVE SendPieces(q, n) \in Seq(S)
    <3> HIDE DEF S
    <3>1. /\ SendPieces(q, n) \in Seq(SendRecv)
          /\ \A i \in 1 .. Len(SendPieces(q, n)) : \E k \in Nat : SendPieces(q, n)[i] = Send(q, k)
      BY EachPiece
    <3>2. ASSUME NEW i \in 1 .. Len(SendPieces(q, n)) PROVE SendPieces(q, n)[i] \in S
      <4>1. PICK k \in Nat : SendPieces(q, n)[i] = Send(q, k)
        BY <3>1
      <4>2. Send(q, k) \in S
        BY <2>1
      <4>. QED  BY <4>1, <4>2
    <3> DEFINE u == SendPieces(q, n)
    <3> HIDE DEF u
    <3>3. u \in Seq(SendRecv) /\ \A i \in 1 .. Len(u) : u[i] \in S
      BY <3>1, <3>2 DEF u
    <3>4. u \in Seq(S)
      BY <3>3
    <3>. QED  BY <3>4 DEF u
  <2>. QED  BY <2>1, <2>2
<1>4. p # 0 => /\ \A n \in Nat : Recv(0, n) \in S
               /\ \A n \in Nat : RecvPieces(0, n) \in Seq(S)
  <2> SUFFICES ASSUME p # 0 PROVE /\ \A n \in Nat : Recv(0, n) \in S
                                  /\ \A n \in Nat : RecvPieces(0, n) \in Seq(S)
    OBVIOUS
  <2>1. \A n \in Nat : Recv(0, n) \in S
    BY <1>2 DEF Recv, SendRecv
  <2>2. ASSUME NEW n \in Nat PROVE RecvPieces(0, n) \in Seq(S)
    <3> HIDE DEF S
    <3>1. /\ RecvPieces(0, n) \in Seq(SendRecv)
          /\ \A i \in 1 .. Len(RecvPieces(0, n)) : \E k \in Nat : RecvPieces(0, n)[i] = Recv(0, k)
      BY <1>2, EachPiece
    <3>2. ASSUME NEW i \in 1 .. Len(RecvPieces(0, n)) PROVE RecvPieces(0, n)[i] \in S
      <4>1. PICK k \in Nat : RecvPieces(0, n)[i] = Recv(0, k)
        BY <3>1
      <4>2. Recv(0, k) \in S
        BY <2>1
      <4>. QED  BY <4>1, <4>2
    <3> DEFINE u == RecvPieces(0, n)
    <3> HIDE DEF u
    <3>3. u \in Seq(SendRecv) /\ \A i \in 1 .. Len(u) : u[i] \in S
      BY <3>1, <3>2 DEF u
    <3>4. u \in Seq(S)
      BY <3>3
    <3>. QED  BY <3>4 DEF u
  <2>. QED  BY <2>1, <2>2
<1>5. S \subseteq SendRecv
  OBVIOUS
<1>6. ASSUME NEW d \in Seq(S)
      PROVE  /\ d \in Seq(SendRecv)
             /\ \A i \in 1 .. Len(d) : \/ d[i].op = "send" /\ p = 0
                                       \/ d[i].op = "recv" /\ d[i].with = 0 /\ p # 0
  <2>1. d \in Seq(SendRecv)
    <3> HIDE DEF S
    <3>. QED  BY <1>5, <1>6
  <2>2. \A i \in 1 .. Len(d) : d[i] \in S
    <3> HIDE DEF S
    <3>. QED  BY <1>6
  <2>3. \A c \in S : (c.op = "send" /\ p = 0) \/ (c.op = "recv" /\ c.with = 0 /\ p # 0)
    OBVIOUS
  <2> HIDE DEF S
  <2>. QED  BY <2>1, <2>2, <2>3
<1> HIDE DEF S
<1>7. ASSUME NEW a \in S, NEW b \in S PROVE <<a, b>> \in Seq(S)
  BY <1>7, Tuples
<1>8. ASSUME NEW a \in S PROVE <<a>> \in Seq(S)
  OBVIOUS
<1>9. CASE p = 0
  <2> DEFINE A == <<Send(2, 1), Send(1, 1)>>
             B == SendPieces(2, s.to2)
             C == SendPieces(1, s.to1)
             D == <<Send(2, 0)>>
  <2>1. A \in Seq(S) /\ B \in Seq(S) /\ C \in Seq(S) /\ D \in Seq(S)
    BY <1>1, <1>2, <1>3, <1>7, <1>8, <1>9
  <2>2. Deal(p, s) = A \o B \o C \o D
    BY <1>9 DEF Deal
  <2> HIDE DEF A, B, C, D
  <2>3. Deal(p, s) \in Seq(S)
    BY <2>1, <2>2
  <2>. QED  BY <1>6, <2>3
<1>10. CASE p = 1
  <2> DEFINE A == <<Recv(0, 1)>>
             B == RecvPieces(0, s.to1)
  <2>1. A \in Seq(S) /\ B \in Seq(S)
    BY <1>1, <1>4, <1>8, <1>10
  <2>2. Deal(p, s) = A \o B
    BY <1>10 DEF Deal
  <2> HIDE DEF A, B
  <2>3. Deal(p, s) \in Seq(S)
    BY <2>1, <2>2
  <2>. QED  BY <1>6, <2>3
<1>11. CASE p = 2
  <2> DEFINE A == <<Recv(0, 1)>>
             B == RecvPieces(0, s.to2)
             C == <<Recv(0, 0)>>
  <2>1. A \in Seq(S) /\ B \in Seq(S) /\ C \in Seq(S)
    BY SMTT(30), <1>1, <1>4, <1>8, <1>11
  <2>2. Deal(p, s) = A \o B \o C
    BY <1>11 DEF Deal
  <2> HIDE DEF A, B, C
  <2>3. Deal(p, s) \in Seq(S)
    BY <2>1, <2>2
  <2>. QED  BY <1>6, <2>3
<1>. QED  BY <1>9, <1>10, <1>11, Parties

LEMMA MatchDeal ==
  ASSUME NEW e \in End, NEW s \in SessionType
  PROVE  Match(Deal(e[1], s), Deal(e[2], s), e)
<1>0. e[1] \in Party /\ e[2] \in Party /\ e[1] # e[2] /\ Peer(e)[1] = e[2] /\ Peer(e) \in End
  BY EndFacts
<1>1. s.to1 \in Nat /\ s.to2 \in Nat /\ 0 \in Nat /\ 1 \in Nat
  BY DEF SessionType
<1>2. /\ 0 \in Party /\ 1 \in Party /\ 2 \in Party
      /\ \A p \in Party : p = 0 \/ p = 1 \/ p = 2
  BY Parties
<1>3. CASE e[1] # 0 \/ ~ Carries(e)
  <2> DEFINE t == Deal(e[1], s)
             u == Deal(e[2], s)
  <2>1. /\ t \in Seq(SendRecv)
        /\ \A i \in 1 .. Len(t) : t[i].op = "recv" \/ ~ Carries(e)
    BY <1>0, <1>3, DealTyped
  <2>2. /\ u \in Seq(SendRecv)
        /\ \A i \in 1 .. Len(u) : u[i].op = "send" \/ u[i].with # e[1] \/ ~ Carries(e)
    BY <1>0, <1>3, DealTyped
  <2> HIDE DEF t, u
  <2>3. Match(t, u, e)
    BY <2>1, <2>2, MatchSilent
  <2>. QED  BY <2>3 DEF t, u
<1>4. CASE e[1] = 0 /\ Carries(e) /\ e[2] = 1
  <2> DEFINE A == <<Send(2, 1), Send(1, 1)>>
             B == SendPieces(2, s.to2)
             C == SendPieces(1, s.to1)
             D == <<Send(2, 0)>>
             X == <<Recv(0, 1)>>
             Y == RecvPieces(0, s.to1)
             O == <<>>
  <2>1. 2 \in Party \ {e[2]}
    BY <1>2, <1>4
  <2>2. Match(A, X, e)
    BY <1>1, <1>4, <2>1, MatchOne
  <2>3. Match(B, O, e) /\ Match(C, Y, e)
    BY <1>1, <1>4, <2>1, MatchPieces
  <2>4. Match(D, O, e)
    BY <1>1, <1>4, <2>1, MatchOne
  <2>5. Deal(e[1], s) = A \o B \o C \o D /\ Deal(e[2], s) = X \o Y
    BY <1>4 DEF Deal
  <2>6. \A r \in Seq(Item(Peer(e)[1])) : r \o O = r
    BY ConcatEmpty
  <2> HIDE DEF A, B, C, D, X, Y, O
  <2>7. Match(A \o B, X \o O, e)
    BY <2>2, <2>3, MatchConcat
  <2>8. X \o O = X
    BY <2>2, <2>6 DEF Match
  <2>9. Match((A \o B) \o C, X \o Y, e)
    BY <2>3, <2>7, <2>8, MatchConcat
  <2>10. Match(((A \o B) \o C) \o D, (X \o Y) \o O, e)
    BY <2>4, <2>9, MatchConcat
  <2>11. (X \o Y) \o O = X \o Y
    BY <2>6, <2>9 DEF Match
  <2>. QED  BY <2>5, <2>10, <2>11
<1>5. CASE e[1] = 0 /\ Carries(e) /\ e[2] = 2
  <2> DEFINE A == <<Send(2, 1), Send(1, 1)>>
             B == SendPieces(2, s.to2)
             C == SendPieces(1, s.to1)
             D == <<Send(2, 0)>>
             X == <<Recv(0, 1)>>
             Y == RecvPieces(0, s.to2)
             Z == <<Recv(0, 0)>>
             O == <<>>
  <2>1. 1 \in Party \ {e[2]}
    BY <1>2, <1>5
  <2>2. Match(A, X, e)
    BY <1>1, <1>5, <2>1, MatchOne
  <2>3. Match(B, Y, e) /\ Match(C, O, e)
    BY <1>1, <1>5, <2>1, MatchPieces
  <2>4. Match(D, Z, e)
    BY <1>1, <1>5, <2>1, MatchOne
  <2>5. Deal(e[1], s) = A \o B \o C \o D /\ Deal(e[2], s) = X \o Y \o Z
    BY <1>5 DEF Deal
  <2>6. \A r \in Seq(Item(Peer(e)[1])) : r \o O = r
    BY ConcatEmpty
  <2> HIDE DEF A, B, C, D, X, Y, Z, O
  <2>7. Match(A \o B, X \o Y, e)
    BY <2>2, <2>3, MatchConcat
  <2>9. Match((A \o B) \o C, (X \o Y) \o O, e)
    BY <2>3, <2>7, MatchConcat
  <2>11. (X \o Y) \o O = X \o Y
    BY <2>6, <2>7 DEF Match
  <2>10. Match(((A \o B) \o C) \o D, (X \o Y) \o Z, e)
    BY <2>4, <2>9, <2>11, MatchConcat
  <2>. QED  BY <2>5, <2>10
<1>. QED  BY <1>0, <1>2, <1>3, <1>4, <1>5
(* The exchange of parties 1 and 2, in which party 0 takes no part.        *)
Mate(p) == {c \in SendRecv : c.with = 3 - p}

LEMMA BothFacts ==
  ASSUME NEW p \in Online, NEW n \in Nat
  PROVE  /\ Both(p, n) \in Seq(Mate(p)) /\ 3 - p \in Online /\ 3 - (3 - p) = p
         /\ Both(p, n) = <<Send(3 - p, n), Recv(3 - p, n)>>
<1>1. 3 - p \in Online /\ 3 - (3 - p) = p /\ 3 - p \in Party
  BY Parties DEF Online
<1>2. Send(3 - p, n) \in Mate(p) /\ Recv(3 - p, n) \in Mate(p)
  BY <1>1 DEF Mate, Send, Recv, SendRecv
<1>3. Both(p, n) = <<Send(3 - p, n), Recv(3 - p, n)>>
  BY DEF Both
<1>. QED  BY <1>1, <1>2, <1>3, Tuples

LEMMA MatchBoth ==
  ASSUME NEW e \in End, NEW n \in Nat, e[1] \in Online, e[2] = 3 - e[1]
  PROVE  Match(Both(e[1], n), Both(e[2], n), e)
<1>0. e[1] \in Party /\ e[2] \in Party /\ Peer(e)[1] = e[2] /\ Peer(e) \in End
  BY EndFacts
<1>1. e[2] \in Online /\ 3 - e[2] = e[1]
  BY BothFacts
<1> DEFINE a == Send(e[2], n)
           b == Recv(e[2], n)
           c == Send(e[1], n)
           d == Recv(e[1], n)
<1>2. Both(e[1], n) = <<a, b>> /\ Both(e[2], n) = <<c, d>>
  BY <1>1 DEF Both
<1>3. a \in Item(e[1]) /\ b \in Item(e[1]) /\ c \in Item(Peer(e)[1]) /\ d \in Item(Peer(e)[1])
  BY <1>0, SendRecvFacts
<1>4. Written(a, e) = IF Carries(e) THEN Ones(n) ELSE <<>>
  BY <1>0, SendRecvFacts
<1>5. ReadFrom(d, Peer(e)) = IF Carries(e) THEN Ones(n) ELSE <<>>
  BY <1>0, SendRecvFacts
<1>6. Written(b, e) = <<>> /\ ReadFrom(c, Peer(e)) = <<>>
  BY <1>0, SendRecvFacts
<1> HIDE DEF a, b, c, d
<1> DEFINE x == IF Carries(e) THEN Ones(n) ELSE <<>>
<1>7. x \in Seq({0, 1})
  <2>1. Ones(n) \in Seq({0, 1}) /\ <<>> \in Seq({0, 1})
    BY RunLengths
  <2>. QED  BY <2>1
<1>8. Written(a, e) = x /\ ReadFrom(d, Peer(e)) = x
  BY <1>4, <1>5
<1> HIDE DEF x
<1>9. Out(<<a, b>>, e) = x \o <<>>
  <2>1. Out(<<a, b>>, e) = Written(a, e) \o Written(b, e)
    BY <1>3, OutIn2
  <2>. QED  BY <1>6, <1>8, <2>1
<1>10. In(<<c, d>>, Peer(e)) = <<>> \o x
  <2>1. In(<<c, d>>, Peer(e)) = ReadFrom(c, Peer(e)) \o ReadFrom(d, Peer(e))
    BY <1>0, <1>3, OutIn2
  <2>. QED  BY <1>6, <1>8, <2>1
<1>11. x \o <<>> = x /\ <<>> \o x = x
  BY <1>7, ConcatEmpty
<1>12. <<a, b>> \in Seq(Item(e[1])) /\ <<c, d>> \in Seq(Item(Peer(e)[1]))
  BY <1>3
<1>. QED  BY <1>2, <1>9, <1>10, <1>11, <1>12 DEF Match

LEMMA MatchExchange ==
  ASSUME NEW e \in End, NEW n \in Nat, e[1] \in Online, e[2] = 3 - e[1]
  PROVE  Match(Exchange(e[1], n), Exchange(e[2], n), e)
<1> DEFINE m == 1 + (n \div Segment)
           P == Pieces(n, Segment)
           f == [i \in 1 .. m |-> Both(e[1], P[i])]
           g == [i \in 1 .. m |-> Both(e[2], P[i])]
<1>1. m \in Nat /\ \A i \in 1 .. m : P[i] \in Nat
  BY SessionAssumption, PiecesTyped
<1>2. Exchange(e[1], n) = FlattenSeq(f) /\ Exchange(e[2], n) = FlattenSeq(g)
  BY DEF Exchange
<1> HIDE DEF m, P
<1>3. \A i \in 1 .. m : Match(f[i], g[i], e)
  BY <1>1, MatchBoth
<1>4. Rows(f, m) /\ Rows(g, m)
  BY DEF Rows
<1> HIDE DEF f, g
<1>. QED  BY <1>1, <1>2, <1>3, <1>4, MatchFlatten

LEMMA ExchangeTyped ==
  ASSUME NEW p \in Online, NEW n \in Nat
  PROVE  Exchange(p, n) \in Seq(Mate(p))
<1> DEFINE m == 1 + (n \div Segment)
           P == Pieces(n, Segment)
           f == [i \in 1 .. m |-> Both(p, P[i])]
           S == Seq(Mate(p))
<1>1. m \in Nat /\ \A i \in 1 .. m : P[i] \in Nat
  BY SessionAssumption, PiecesTyped
<1>2. Exchange(p, n) = FlattenSeq(f)
  BY DEF Exchange
<1> HIDE DEF m, P
<1>3. \A i \in 1 .. m : Both(p, P[i]) \in S
  BY <1>1, BothFacts
<1> HIDE DEF S
<1>4. f \in [1 .. m -> S]
  BY <1>3
<1> HIDE DEF f
<1>5. f \in Seq(S)
  BY <1>1, <1>4, FunIsSeq
<1>6. f \in Seq(Seq(Mate(p)))
  BY <1>5 DEF S
<1>. QED  BY <1>2, <1>6, FlattenTyped

LEMMA EvaluateTyped ==
  ASSUME NEW s \in SessionType, NEW p \in Online
  PROVE  Evaluate(p, s) \in Seq(Mate(p))
<1> DEFINE m == Len(s.levels)
           f == [i \in 1 .. m |-> Exchange(p, s.levels[i])]
           S == Seq(Mate(p))
           o == Outputs(p, s.outs)
<1>1. m \in Nat /\ (\A i \in 1 .. m : s.levels[i] \in Nat) /\ s.outs \in Nat
  BY DEF SessionType
<1>2. Evaluate(p, s) = FlattenSeq(f) \o o
  BY DEF Evaluate
<1> HIDE DEF m
<1>3. \A i \in 1 .. m : Exchange(p, s.levels[i]) \in S
  BY <1>1, ExchangeTyped
<1>4. o \in Seq(Mate(p))
  BY <1>1, BothFacts DEF Outputs
<1> HIDE DEF S, o
<1>5. f \in [1 .. m -> S]
  BY <1>3
<1> HIDE DEF f
<1>6. f \in Seq(S)
  BY <1>1, <1>5, FunIsSeq
<1>7. f \in Seq(Seq(Mate(p)))
  BY <1>6 DEF S
<1>8. FlattenSeq(f) \in Seq(Mate(p))
  BY <1>7, FlattenTyped
<1>. QED  BY <1>2, <1>4, <1>8, ConcatFacts

LEMMA MatchNothing ==
  ASSUME NEW e \in End
  PROVE  Match(<<>>, <<>>, e)
<1>1. Peer(e) \in End
  BY EndFacts
<1>2. Out(<<>>, e) = <<>> /\ In(<<>>, Peer(e)) = <<>>
  BY <1>1, OutFacts, InFacts
<1>. QED  BY <1>2 DEF Match

LEMMA MatchEvaluate ==
  ASSUME NEW e \in End, NEW s \in SessionType
  PROVE  Match(Evaluate(e[1], s), Evaluate(e[2], s), e)
<1>0. e[1] \in Party /\ e[2] \in Party /\ e[1] # e[2]
  BY EndFacts
<1>1. \A p \in Party : p = 0 \/ p \in Online
  BY Parties DEF Online
<1>2. CASE e[1] \in Online /\ e[2] \in Online
  <2>1. e[2] = 3 - e[1]
    BY <1>0, <1>2 DEF Online
  <2> DEFINE m == Len(s.levels)
             f == [i \in 1 .. m |-> Exchange(e[1], s.levels[i])]
             g == [i \in 1 .. m |-> Exchange(e[2], s.levels[i])]
             o == Outputs(e[1], s.outs)
             u == Outputs(e[2], s.outs)
  <2>2. m \in Nat /\ (\A i \in 1 .. m : s.levels[i] \in Nat) /\ s.outs \in Nat
    BY DEF SessionType
  <2>3. Evaluate(e[1], s) = FlattenSeq(f) \o o /\ Evaluate(e[2], s) = FlattenSeq(g) \o u
    BY <1>2 DEF Evaluate
  <2> HIDE DEF m
  <2>4. \A i \in 1 .. m : Match(f[i], g[i], e)
    BY <1>2, <2>1, <2>2, MatchExchange
  <2>5. Rows(f, m) /\ Rows(g, m)
    BY DEF Rows
  <2>6. Match(o, u, e)
    <3>1. CASE s.outs = 0
      BY <3>1, MatchNothing DEF Outputs
    <3>2. CASE s.outs # 0
      BY <1>2, <2>1, <2>2, <3>2, MatchBoth DEF Outputs
    <3>. QED  BY <3>1, <3>2
  <2> HIDE DEF f, g, o, u
  <2>7. Match(FlattenSeq(f), FlattenSeq(g), e)
    BY <2>2, <2>4, <2>5, MatchFlatten
  <2>. QED  BY <2>3, <2>6, <2>7, MatchConcat
<1>3. CASE e[1] = 0 /\ e[2] \in Online
  <2> DEFINE u == Evaluate(e[2], s)
  <2>1. Evaluate(e[1], s) = <<>>
    BY <1>3 DEF Evaluate, Online
  <2>2. u \in Seq(Mate(e[2])) /\ 3 - e[2] # e[1]
    BY <1>3, EvaluateTyped DEF Online
  <2> HIDE DEF u
  <2>3. Mate(e[2]) \subseteq SendRecv /\ \A c \in Mate(e[2]) : c.with = 3 - e[2]
    BY DEF Mate
  <2>4. u \in Seq(SendRecv) /\ \A i \in 1 .. Len(u) : u[i] \in Mate(e[2])
    BY <2>2, <2>3
  <2>5. \A i \in 1 .. Len(u) : u[i].with # e[1]
    BY <2>2, <2>3, <2>4
  <2>6. <<>> \in Seq(SendRecv) /\ \A i \in 1 .. Len(<<>>) : FALSE
    OBVIOUS
  <2>7. Match(<<>>, u, e)
    BY <2>4, <2>5, <2>6, MatchSilent
  <2>. QED  BY <2>1, <2>7 DEF u
<1>4. CASE e[2] = 0 /\ e[1] \in Online
  <2> DEFINE u == Evaluate(e[1], s)
  <2>1. Evaluate(e[2], s) = <<>>
    BY <1>4 DEF Evaluate, Online
  <2>2. u \in Seq(Mate(e[1])) /\ 3 - e[1] # e[2]
    BY <1>4, EvaluateTyped DEF Online
  <2> HIDE DEF u
  <2>3. Mate(e[1]) \subseteq SendRecv /\ \A c \in Mate(e[1]) : c.with = 3 - e[1]
    BY DEF Mate
  <2>4. u \in Seq(SendRecv) /\ \A i \in 1 .. Len(u) : u[i] \in Mate(e[1])
    BY <2>2, <2>3
  <2>5. \A i \in 1 .. Len(u) : u[i].with # e[2]
    BY <2>2, <2>3, <2>4
  <2>6. <<>> \in Seq(SendRecv) /\ \A i \in 1 .. Len(<<>>) : FALSE
    OBVIOUS
  <2>7. Match(u, <<>>, e)
    BY <2>4, <2>5, <2>6, MatchSilent
  <2>. QED  BY <2>1, <2>7 DEF u
<1>. QED  BY <1>0, <1>1, <1>2, <1>3, <1>4

LEMMA MatchSync ==
  ASSUME NEW e \in End
  PROVE  Match(<<Sync>>, <<Sync>>, e) /\ Match(<<Close>>, <<Close>>, e)
<1>0. e[1] \in Party /\ e[2] \in Party /\ Peer(e) \in End
  BY EndFacts
<1>1. /\ Sync \in Item(e[1]) /\ Sync \in Item(Peer(e)[1])
      /\ Close \in Item(e[1]) /\ Close \in Item(Peer(e)[1])
  BY DEF Item, Call
<1>2. Out(<<Sync>>, e) = Written(Sync, e) /\ Out(<<Close>>, e) = Written(Close, e)
  BY <1>1, OutFacts
<1>3. In(<<Sync>>, Peer(e)) = ReadFrom(Sync, Peer(e)) /\ In(<<Close>>, Peer(e)) = ReadFrom(Close, Peer(e))
  BY <1>0, <1>1, InFacts
<1>4. /\ Written(Sync, e) = <<0>> /\ ReadFrom(Sync, Peer(e)) = <<0>>
      /\ Written(Close, e) = <<>> /\ ReadFrom(Close, Peer(e)) = <<>>
  BY DEF Written, ReadFrom, Sync, Close
<1>5. /\ <<Sync>> \in Seq(Item(e[1])) /\ <<Sync>> \in Seq(Item(Peer(e)[1]))
      /\ <<Close>> \in Seq(Item(e[1])) /\ <<Close>> \in Seq(Item(Peer(e)[1]))
  BY <1>1
<1>. QED  BY <1>2, <1>3, <1>4, <1>5 DEF Match

LEMMA MatchRepetition ==
  ASSUME NEW e \in End, NEW s \in SessionType
  PROVE  Match(Repetition(e[1], s), Repetition(e[2], s), e)
<1> DEFINE A(p) == Deal(p, s)
           B == <<Sync>>
           C(p) == Evaluate(p, s)
           D == IF s.syncs THEN <<Sync>> ELSE <<>>
<1>1. Match(A(e[1]), A(e[2]), e) /\ Match(C(e[1]), C(e[2]), e)
  BY MatchDeal, MatchEvaluate
<1>2. Match(B, B, e) /\ Match(D, D, e)
  BY MatchSync, MatchNothing
<1>3. /\ Repetition(e[1], s) = ((A(e[1]) \o B) \o C(e[1])) \o D
      /\ Repetition(e[2], s) = ((A(e[2]) \o B) \o C(e[2])) \o D
  BY DEF Repetition
<1> HIDE DEF A, B, C, D
<1>4. Match(A(e[1]) \o B, A(e[2]) \o B, e)
  BY <1>1, <1>2, MatchConcat
<1>5. Match((A(e[1]) \o B) \o C(e[1]), (A(e[2]) \o B) \o C(e[2]), e)
  BY <1>1, <1>4, MatchConcat
<1>6. Match(((A(e[1]) \o B) \o C(e[1])) \o D, ((A(e[2]) \o B) \o C(e[2])) \o D, e)
  BY <1>2, <1>5, MatchConcat
<1>. QED  BY <1>3, <1>6

LEMMA SessionMatched ==
  ASSUME NEW s \in SessionType
  PROVE  Matched(Program(s))
<1> SUFFICES ASSUME NEW e \in End
             PROVE  Match(Program(s)[e[1]], Program(s)[e[2]], e)
  BY DEF Matched, Match
<1>0. e[1] \in Party /\ e[2] \in Party
  BY EndFacts
<1> DEFINE D == IF s.syncs THEN <<Sync>> ELSE <<>>
           n == s.reps
           f(p) == [r \in 1 .. n |-> Repetition(p, s)]
           Z == <<Close>>
<1>1. \A p \in Party : Program(s)[p] = D \o FlattenSeq(f(p)) \o Z
  BY DEF Program
<1>2. Match(D, D, e) /\ Match(Z, Z, e)
  BY MatchSync, MatchNothing
<1>3. n \in Nat
  BY DEF SessionType
<1> HIDE DEF D, n, Z
<1>4. Match(FlattenSeq(f(e[1])), FlattenSeq(f(e[2])), e)
  <2> DEFINE g == f(e[1])
             h == f(e[2])
  <2>1. \A i \in 1 .. n : Match(g[i], h[i], e)
    BY MatchRepetition
  <2>2. Rows(g, n) /\ Rows(h, n)
    BY DEF Rows
  <2> HIDE DEF g, h
  <2>3. Match(FlattenSeq(g), FlattenSeq(h), e)
    BY <1>3, <2>1, <2>2, MatchFlatten
  <2>. QED  BY <2>3 DEF g, h
<1> HIDE DEF f
<1>5. Match(D \o FlattenSeq(f(e[1])), D \o FlattenSeq(f(e[2])), e)
  BY <1>2, <1>4, MatchConcat
<1>6. Match((D \o FlattenSeq(f(e[1]))) \o Z, (D \o FlattenSeq(f(e[2]))) \o Z, e)
  BY <1>2, <1>5, MatchConcat
<1>. QED  BY <1>0, <1>1, <1>6

LEMMA AllMatched == \A f \in Programs : Matched(f)
BY SessionAssumption, SessionMatched

(* In every session what is on its way between two parties, followed by    *)
(* what the one will still write, is what the other will still read, unit  *)
(* by unit and sync by sync (netmp.h, as the drivers call it).             *)
THEOREM NetworkHolds == Spec => []NetInv
<1>1. Init => NetInv
  BY AllMatched, InitInv
<1>2. NetInv /\ [Next]_vars => NetInv'
  BY StepInv
<1>. QED  BY <1>1, <1>2, PTL DEF Spec

(* When all parties have finished, no byte is left unread on a connection  *)
(* or unsent in a buffer (NetIOMP, TLSNetIO).                              *)
THEOREM NothingLeft == Spec => []NothingLeftOver
<1>1. NetInv => NothingLeftOver
  BY InvNothingLeft
<1>. QED  BY <1>1, NetworkHolds, PTL
-----------------------------------------------------------------------------
(* The network keeps the promise of Pipes: what each pipe holds back and   *)
(* has on its way are the units of data in the sender's buffer and on its  *)
(* connection.                                                             *)
Held  == [d \in Pair |-> Data(buf[SendEnd(d[1], d[2])])]
OnWay == [d \in Pair |-> Data(wire[SendEnd(d[1], d[2])])]

LEMMA SamePairs == Promise!Pair = Pair /\ Promise!Party = Party
BY DEF Promise!Pair, Promise!Party, Pair, Party

LEMMA SendEndsDiffer ==
  ASSUME NEW d \in Pair, NEW c \in Pair, SendEnd(d[1], d[2]) = SendEnd(c[1], c[2])
  PROVE  d = c
<1>1. d[1] = c[1] /\ d[2] = c[2]
  BY PairFacts
<1>2. d = <<d[1], d[2]>> /\ c = <<c[1], c[2]>>
  BY PairFacts
<1>. QED  BY <1>1, <1>2

LEMMA DataHead ==
  ASSUME NEW s \in Seq(Nat), s # <<>>
  PROVE  IF Head(s) = 0 THEN Data(s) = Data(Tail(s))
         ELSE Data(s) # <<>> /\ Head(Data(s)) = Head(s) /\ Tail(Data(s)) = Data(Tail(s))
<1> DEFINE u == Head(s)
           r == Tail(s)
<1>1. u \in Nat /\ r \in Seq(Nat) /\ <<u>> \in Seq(Nat) /\ s = <<u>> \o r
  OBVIOUS
<1> HIDE DEF u, r
<1>2. Data(s) = Data(<<u>>) \o Data(r) /\ Data(r) \in Seq(Nat)
  BY <1>1, DataFacts
<1>3. CASE u = 0
  <2>1. Data(<<u>>) = <<>>
    BY <1>3, DataFacts
  <2>2. Data(s) = Data(r)
    BY <1>2, <2>1, ConcatEmpty
  <2>. QED  BY <1>3, <2>2 DEF u, r
<1>4. CASE u # 0
  <2>1. Data(<<u>>) = <<u>>
    BY <1>1, <1>4, DataFacts
  <2> DEFINE b == Data(r)
  <2>2. b \in Seq(Nat) /\ Data(s) = <<u>> \o b
    BY <1>2, <2>1
  <2> HIDE DEF b
  <2>3. <<u>> \o b # <<>> /\ Head(<<u>> \o b) = u /\ Tail(<<u>> \o b) = b
    BY SMTT(30), <1>1, <2>2
  <2>. QED  BY <1>4, <2>2, <2>3 DEF u, r, b
<1>. QED  BY <1>3, <1>4

LEMMA DataAppend ==
  ASSUME NEW s \in Seq(Nat), NEW u \in Nat
  PROVE  Data(Append(s, u)) = IF u = 0 THEN Data(s) ELSE Append(Data(s), u)
<1>1. Append(s, u) = s \o <<u>> /\ <<u>> \in Seq(Nat)
  BY AppendAsConcat
<1>2. Data(s \o <<u>>) = Data(s) \o Data(<<u>>) /\ Data(s) \in Seq(Nat)
  BY <1>1, DataFacts
<1>3. CASE u = 0
  <2>1. Data(<<u>>) = <<>>
    BY <1>3, DataFacts
  <2>. QED  BY <1>1, <1>2, <1>3, <2>1, ConcatEmpty
<1>4. CASE u # 0
  <2>1. Data(<<u>>) = <<u>>
    BY <1>4, DataFacts
  <2>2. Append(Data(s), u) = Data(s) \o <<u>>
    BY <1>2, AppendAsConcat
  <2>. QED  BY <1>1, <1>2, <1>4, <2>1, <2>2
<1>. QED  BY <1>3, <1>4

(* A step that appends to one buffer.                                      *)
LEMMA HeldWrites ==
  ASSUME TypeOK, NEW x \in End, NEW u \in Seq(Nat), Puts(x, u), wire' = wire
  PROVE  /\ OnWay' = OnWay
         /\ \A d \in Pair : Held'[d] = IF SendEnd(d[1], d[2]) = x THEN Held[d] \o Data(u) ELSE Held[d]
         /\ \A d \in Pair : Held[d] \in Seq(Nat)
<1>1. OnWay' = OnWay
  BY DEF OnWay
<1>2. ASSUME NEW d \in Pair
      PROVE  /\ Held'[d] = IF SendEnd(d[1], d[2]) = x THEN Held[d] \o Data(u) ELSE Held[d]
             /\ Held[d] \in Seq(Nat)
  <2> DEFINE e == SendEnd(d[1], d[2])
  <2>1. e \in End
    BY PairFacts
  <2>2. Held'[d] = Data(buf'[e]) /\ Held[d] = Data(buf[e])
    BY DEF Held
  <2> HIDE DEF e
  <2>3. buf[e] \in Seq(Nat)
    BY <2>1 DEF TypeOK
  <2>4. Data(buf[e] \o u) = Data(buf[e]) \o Data(u) /\ Data(buf[e]) \in Seq(Nat)
    BY <2>3, DataFacts
  <2>5. buf'[e] = IF e = x THEN buf[e] \o u ELSE buf[e]
    BY <2>1 DEF Puts
  <2>6. Held'[d] = IF e = x THEN Held[d] \o Data(u) ELSE Held[d]
    BY <2>2, <2>4, <2>5
  <2>. QED  BY <2>2, <2>4, <2>6 DEF e
<1>. QED  BY <1>1, <1>2

LEMMA HeldIs == /\ Held = [d \in Pair |-> Held[d]] /\ Held' = [d \in Pair |-> Held'[d]]
                /\ OnWay = [d \in Pair |-> OnWay[d]] /\ OnWay' = [d \in Pair |-> OnWay'[d]]
BY DEF Held, OnWay

Stays == UNCHANGED <<Held, OnWay, wrote, got, entered, left>>

LEMMA SendPuts ==
  ASSUME TypeOK, StepsInv, NEW p \in Party, SendData(p)
  PROVE  Promise!Next
<1>1. PICK q \in Party \ {p} :
           /\ q = Now(p).with /\ Now(p) = todo[p][1] /\ Now(p).len \in Nat /\ Now(p).op = "send"
           /\ SendEnd(p, q) \in EndsOf(p) /\ <<p, q>> \in Pair
  BY Sending
<1> DEFINE d == <<p, q>>
           x == SendEnd(p, q)
           n == Now(p).len
           u == [i \in 1 .. n |-> wrote[d] + i]
<1>2. d \in Pair /\ x \in End /\ x \in EndsOf(p) /\ n \in Nat /\ wrote[d] \in Nat /\ x = SendEnd(d[1], d[2])
  BY <1>1, OwnEnd DEF TypeOK
<1>3. n \in 0 .. MaxSend
  <2>1. 1 \in 1 .. Len(todo[p]) /\ todo[p][1].op = "send"
    BY HeadFacts DEF SendData
  <2>2. todo[p][1].len <= MaxSend
    BY <2>1 DEF StepsInv, ReadsRight
  <2>. QED  BY <1>1, <2>2, NetAssumption
<1>4. /\ WriteTo(x, u) /\ wire' = wire /\ (\A y \in EndsOf(p) : due[y] = 0)
      /\ wrote' = [wrote EXCEPT ![d] = @ + n] /\ UNCHANGED <<got, entered, left>>
  BY <1>1 DEF SendData, At
<1>5. u \in Seq(Nat) /\ u \in Seq(Nat \ {0})
  BY <1>2, UnitsTyped
<1>6. Data(u) = u
  BY <1>5, DataFacts
<1> HIDE DEF d, x, n
<1>7. Puts(x, u)
  <2> HIDE DEF u
  <2>. QED  BY <1>2, <1>4, <1>5, WriteKept DEF Puts
<1>8. /\ OnWay' = OnWay
      /\ \A c \in Pair : Held'[c] = IF SendEnd(c[1], c[2]) = x THEN Held[c] \o u ELSE Held[c]
  <2> HIDE DEF u
  <2>1. wire' = wire
    BY <1>4
  <2>. QED  BY <1>2, <1>5, <1>6, <1>7, <2>1, HeldWrites
<1>9. \A c \in Pair : SendEnd(c[1], c[2]) = x <=> c = d
  BY <1>2, SendEndsDiffer
<1>10. \A c \in Pair : Held'[c] = IF c = d THEN Held[d] \o u ELSE Held[c]
  BY <1>8, <1>9
<1>11. Held' = [Held EXCEPT ![d] = @ \o u]
  <2> HIDE DEF u
  <2>. QED  BY <1>2, <1>10, HeldIs
<1>12. Promise!Put(d, n)
  BY <1>4, <1>8, <1>11 DEF Promise!Put, Held, OnWay
<1>. QED  BY <1>2, <1>3, <1>12, SamePairs DEF Promise!Next

LEMMA SyncStays ==
  ASSUME TypeOK, NEW p \in Party, SendSync(p)
  PROVE  Stays
<1> DEFINE x == Now(p).end
           u == <<SyncByte>>
<1>1. x \in EndsOf(p)
  BY Syncing
<1>2. u \in Seq(Nat) /\ Data(u) = <<>>
  BY DataFacts DEF SyncByte
<1>3. /\ WriteTo(x, u) /\ wire' = wire /\ (\A y \in EndsOf(p) : due[y] = 0)
      /\ UNCHANGED <<wrote, got, entered, left>>
  BY DEF SendSync, At, history
<1> HIDE DEF u, x
<1>4. x \in End
  BY <1>1, OwnEnd
<1>5. Puts(x, u)
  BY <1>1, <1>2, <1>3, WriteKept DEF Puts
<1>6. /\ OnWay' = OnWay
      /\ \A d \in Pair : Held'[d] = IF SendEnd(d[1], d[2]) = x THEN Held[d] \o Data(u) ELSE Held[d]
      /\ \A d \in Pair : Held[d] \in Seq(Nat)
  <2>1. wire' = wire
    BY <1>3
  <2>. QED  BY <1>2, <1>4, <1>5, <2>1, HeldWrites
<1>7. \A d \in Pair : Held'[d] = Held[d]
  BY <1>2, <1>6, ConcatEmpty
<1>8. Held' = Held
  BY <1>7, HeldIs
<1>. QED  BY <1>3, <1>6, <1>8 DEF Stays

LEMMA HandOverPasses ==
  ASSUME TypeOK, NEW p \in Party, HandOver(p)
  PROVE  Promise!Next \/ Stays
<1>1. PICK x \in EndsOf(p) :
          /\ todo' = todo
          /\ x \in End /\ buf[x] \in Seq(Nat) /\ buf[x] # <<>> /\ wire[x] \in Seq(Nat)
          /\ wire'[x] = Append(wire[x], Head(buf[x])) /\ buf'[x] = Tail(buf[x]) /\ due'[x] = due[x] - 1
          /\ \A y \in End \ {x} : wire'[y] = wire[y] /\ buf'[y] = buf[y] /\ due'[y] = due[y]
  BY HandingOver
<1>2. UNCHANGED <<wrote, got, entered, left>>
  BY DEF HandOver, history
<1>3. /\ x \in End /\ buf[x] \in Seq(Nat) /\ buf[x] # <<>> /\ wire[x] \in Seq(Nat)
      /\ wire'[x] = Append(wire[x], Head(buf[x])) /\ buf'[x] = Tail(buf[x])
      /\ \A y \in End \ {x} : wire'[y] = wire[y] /\ buf'[y] = buf[y]
  BY <1>1
<1> DEFINE u == Head(buf[x])
<1>4. u \in Nat
  BY <1>3
<1>5. Data(wire'[x]) = IF u = 0 THEN Data(wire[x]) ELSE Append(Data(wire[x]), u)
  BY <1>3, <1>4, DataAppend
<1>6. IF u = 0 THEN Data(buf[x]) = Data(buf'[x])
      ELSE Data(buf[x]) # <<>> /\ Head(Data(buf[x])) = u /\ Tail(Data(buf[x])) = Data(buf'[x])
  BY <1>3, DataHead
<1> HIDE DEF u
<1>7. ASSUME NEW c \in Pair
      PROVE  /\ SendEnd(c[1], c[2]) \in End
             /\ Held[c] = Data(buf[SendEnd(c[1], c[2])]) /\ Held'[c] = Data(buf'[SendEnd(c[1], c[2])])
             /\ OnWay[c] = Data(wire[SendEnd(c[1], c[2])]) /\ OnWay'[c] = Data(wire'[SendEnd(c[1], c[2])])
  BY PairFacts DEF Held, OnWay
<1>8. CASE u = 0 \/ \A c \in Pair : SendEnd(c[1], c[2]) # x
  <2>1. \A c \in Pair : Held'[c] = Held[c] /\ OnWay'[c] = OnWay[c]
    BY <1>3, <1>5, <1>6, <1>7, <1>8
  <2>2. Held' = Held /\ OnWay' = OnWay
    BY <2>1, HeldIs
  <2>. QED  BY <1>2, <2>2 DEF Stays
<1>9. ASSUME u # 0, NEW d \in Pair, SendEnd(d[1], d[2]) = x
      PROVE  Promise!Next
  <2>1. \A c \in Pair : SendEnd(c[1], c[2]) = x <=> c = d
    BY <1>9, SendEndsDiffer
  <2>2. Held[d] # <<>> /\ Head(Held[d]) = u /\ Held'[d] = Tail(Held[d]) /\ OnWay'[d] = Append(OnWay[d], u)
    BY <1>5, <1>6, <1>7, <1>9
  <2>3. \A c \in Pair : c # d => Held'[c] = Held[c] /\ OnWay'[c] = OnWay[c]
    BY <1>3, <1>7, <2>1
  <2>4. Held' = [Held EXCEPT ![d] = Tail(@)]
    BY <2>2, <2>3, HeldIs
  <2>5. OnWay' = [OnWay EXCEPT ![d] = Append(@, Head(Held[d]))]
    BY <2>2, <2>3, HeldIs
  <2>6. Promise!Pass(d)
    BY <1>2, <2>2, <2>4, <2>5 DEF Promise!Pass, Held, OnWay
  <2>. QED  BY <2>6, SamePairs DEF Promise!Next
<1>. QED  BY <1>8, <1>9

LEMMA ReadTakes ==
  ASSUME TypeOK, StepsInv, Balanced, NEW p \in Party, ReadUnit(p)
  PROVE  Promise!Next \/ Stays
<1> DEFINE x == Now(p).end
           f == Peer(x)
<1>1. /\ f \in End /\ wire[f] \in Seq(Nat)
      /\ (Head(wire[f]) = 0) <=> Now(p).op # "read"
  BY ReadingBalance
<1>2. x \in EndsOf(p)
  BY ReadsOwnEnd
<1>3. /\ wire[f] # <<>> /\ wire' = [wire EXCEPT ![f] = Tail(@)]
      /\ got' = IF Now(p).op = "read" THEN [got EXCEPT ![PairOf(f)] = Append(@, Head(wire[f]))] ELSE got
      /\ UNCHANGED <<buf, wrote, entered, left>>
  BY DEF ReadUnit
<1>4. Held' = Held
  BY <1>3 DEF Held
<1>5. /\ f[1] = x[2] /\ f[2] = p /\ x[2] \in Party /\ x[2] # p /\ Peer(f) = x /\ x[1] = p
  <2> HIDE DEF x
  <2>. QED  BY <1>2, OwnPeer
<1>6. Now(p).op = "read" => x = RecvEnd(p, x[2])
  <2>1. \E op \in {"read", "readSync"} : At(p, op)
    BY DEF ReadUnit
  <2>2. 1 \in 1 .. Len(todo[p]) /\ Now(p) = todo[p][1]
    BY <2>1, HeadFacts
  <2>3. ReadsRight(p, todo[p])
    BY DEF StepsInv
  <2>. QED  BY <2>2, <2>3 DEF ReadsRight
<1> HIDE DEF x, f
<1>7. wire'[f] = Tail(wire[f]) /\ \A y \in End \ {f} : wire'[y] = wire[y]
  BY <1>1, <1>3 DEF TypeOK
<1>8. IF Head(wire[f]) = 0 THEN Data(wire[f]) = Data(wire'[f])
      ELSE /\ Data(wire[f]) # <<>> /\ Head(Data(wire[f])) = Head(wire[f])
           /\ Tail(Data(wire[f])) = Data(wire'[f])
  BY <1>1, <1>3, <1>7, DataHead
<1>9. ASSUME NEW c \in Pair
      PROVE  /\ SendEnd(c[1], c[2]) \in End
             /\ OnWay[c] = Data(wire[SendEnd(c[1], c[2])]) /\ OnWay'[c] = Data(wire'[SendEnd(c[1], c[2])])
  BY PairFacts DEF OnWay
<1>10. CASE Now(p).op # "read"
  <2>1. \A c \in Pair : OnWay'[c] = OnWay[c]
    BY <1>1, <1>7, <1>8, <1>9, <1>10
  <2>2. OnWay' = OnWay
    BY <2>1, HeldIs
  <2>. QED  BY <1>3, <1>4, <1>10, <2>2 DEF Stays
<1>11. CASE Now(p).op = "read"
  <2> DEFINE d == <<x[2], p>>
  <2>1. d \in Pair /\ d[1] = x[2] /\ d[2] = p
    BY <1>5 DEF Pair
  <2>2. SendEnd(d[1], d[2]) = f
    <3>1. RecvEnd(p, x[2]) = Peer(SendEnd(d[1], d[2])) /\ SendEnd(d[1], d[2]) \in End
      BY <2>1, PairFacts
    <3>2. Peer(Peer(SendEnd(d[1], d[2]))) = SendEnd(d[1], d[2])
      BY <3>1, EndFacts
    <3>. QED  BY <1>6, <1>11, <3>1, <3>2 DEF f
  <2>3. PairOf(f) = d
    BY <1>5 DEF PairOf
  <2> HIDE DEF d
  <2>4. \A c \in Pair : SendEnd(c[1], c[2]) = f <=> c = d
    BY <2>1, <2>2, SendEndsDiffer
  <2>5. OnWay[d] # <<>> /\ Head(OnWay[d]) = Head(wire[f]) /\ OnWay'[d] = Tail(OnWay[d])
    BY <1>1, <1>8, <1>9, <1>11, <2>1, <2>2
  <2>6. \A c \in Pair : c # d => OnWay'[c] = OnWay[c]
    BY <1>7, <1>9, <2>4
  <2>7. OnWay' = [OnWay EXCEPT ![d] = Tail(@)]
    BY <2>5, <2>6, HeldIs
  <2>8. got' = [got EXCEPT ![d] = Append(@, Head(OnWay[d]))]
    BY <1>3, <1>11, <2>3, <2>5
  <2>9. Promise!Take(d)
    BY <1>3, <1>4, <2>5, <2>7, <2>8 DEF Promise!Take, Held, OnWay
  <2>. QED  BY <2>1, <2>9, SamePairs DEF Promise!Next
<1>. QED  BY <1>10, <1>11

LEMMA EnterEnters ==
  ASSUME TypeOK, StepsInv, SyncInv, NEW p \in Party, EnterSync(p)
  PROVE  Promise!Next
<1>1. todo[p] # <<>> /\ todo[p][1].op = "sync" /\ 1 \in 1 .. Len(todo[p])
  BY HeadFacts DEF EnterSync
<1>2. ~ InSync(todo[p])
  <2> SUFFICES ASSUME NEW i \in 1 .. Len(todo[p]) PROVE todo[p][i].op # "leave"
    BY DEF InSync
  <2>1. CASE i = 1
    BY <1>1, <2>1
  <2>2. CASE i # 1
    <3>1. 1 < i /\ todo[p][1].op \in CallOps \cup {"leave"}
      BY <1>1, <2>2 DEF CallOps
    <3>2. todo[p][i].op \in CallOps
      BY <1>1, <3>1 DEF StepsInv, CallsLast
    <3>. QED  BY <3>2 DEF CallOps
  <2>. QED  BY <2>1, <2>2
<1>3. entered[p] = left[p]
  BY <1>2 DEF SyncInv
<1>4. Held' = Held /\ OnWay' = OnWay
  BY DEF EnterSync, Held, OnWay
<1>5. entered' = [entered EXCEPT ![p] = @ + 1] /\ UNCHANGED <<wrote, got, left>>
  BY DEF EnterSync
<1>6. Promise!Enter(p)
  BY <1>3, <1>4, <1>5 DEF Promise!Enter, Held, OnWay
<1>. QED  BY <1>6, SamePairs DEF Promise!Next

LEMMA LeaveLeaves ==
  ASSUME NetInv, NEW p \in Party, LeaveSync(p)
  PROVE  Promise!Next
<1>1. /\ todo[p] # <<>> /\ todo[p][1].op = "leave" /\ 1 \in 1 .. Len(todo[p])
      /\ \A e \in EndsOf(p) : due[e] = 0
  BY HeadFacts DEF LeaveSync, NetInv
<1>2. /\ entered[p] = left[p] + 1 /\ \A q \in Party : left[p] < entered[q]
  BY EnteredByAll DEF NetInv
<1>3. InSync(todo[p])
  BY <1>1 DEF InSync
<1>4. \A i \in 1 .. Len(todo[p]) : todo[p][i].op # "flush"
  <2> SUFFICES ASSUME NEW i \in 1 .. Len(todo[p]) PROVE todo[p][i].op # "flush"
    OBVIOUS
  <2>1. CASE i = 1
    BY <1>1, <2>1
  <2>2. CASE i # 1
    <3>1. 1 < i
      BY <2>2
    <3>2. todo[p][i].op \in CallOps
      BY <1>1, <3>1 DEF NetInv, StepsInv, CallsLast
    <3>. QED  BY <3>2 DEF CallOps
  <2>. QED  BY <2>1, <2>2
<1>5. ASSUME NEW d \in Pair, d[1] = p PROVE Held[d] = <<>>
  <2> DEFINE e == SendEnd(d[1], d[2])
  <2>1. e \in End /\ e \in EndsOf(p)
    BY <1>5, PairFacts DEF EndsOf
  <2>2. \/ \E i \in 1 .. Len(todo[p]) : todo[p][i] = Step("flush", e)
        \/ due[e] = Len(buf[e])
    BY <1>3, <1>5 DEF NetInv, FlushInv
  <2>3. Held[d] = Data(buf[e])
    BY DEF Held
  <2> HIDE DEF e
  <2>4. Step("flush", e).op = "flush"
    BY DEF Step
  <2>5. Len(buf[e]) = 0 /\ buf[e] \in Seq(Nat)
    BY <1>1, <1>4, <2>1, <2>2, <2>4 DEF NetInv, TypeOK
  <2>6. buf[e] = <<>>
    BY <2>5
  <2>. QED  BY <2>3, <2>6, DataFacts
<1>6. Held' = Held /\ OnWay' = OnWay
  BY DEF LeaveSync, Held, OnWay
<1>7. left' = [left EXCEPT ![p] = @ + 1] /\ UNCHANGED <<wrote, got, entered>>
  BY DEF LeaveSync
<1>8. left[p] < entered[p]
  BY <1>2
<1>9. Promise!Leave(p)
  BY <1>2, <1>5, <1>6, <1>7, <1>8, SamePairs DEF Promise!Leave, Held, OnWay
<1>. QED  BY <1>9, SamePairs DEF Promise!Next

LEMMA StepKept ==
  ASSUME NetInv, [Next]_vars
  PROVE  [Promise!Next]_(Promise!vars)
<1>1. Stays => UNCHANGED Promise!vars
  BY DEF Stays, Promise!vars, Held, OnWay
<1>2. ASSUME NEW p \in Party, PartyStep(p) PROVE Promise!Next \/ Stays
  <2>1. CASE SendData(p)
    BY <2>1, SendPuts DEF NetInv
  <2>2. CASE SendSync(p)
    BY <2>2, SyncStays DEF NetInv
  <2>3. CASE HandOver(p)
    BY <2>3, HandOverPasses DEF NetInv
  <2>4. CASE ReadUnit(p)
    BY <2>4, ReadTakes DEF NetInv
  <2>5. CASE EnterSync(p)
    BY <2>5, EnterEnters DEF NetInv
  <2>6. CASE LeaveSync(p)
    BY <2>6, LeaveLeaves
  <2>7. CASE \/ Listen(p) \/ Connect(p) \/ Opened(p) \/ Flush(p) \/ SendNobody(p) \/ RecvNobody(p)
             \/ RecvCall(p) \/ BeginRead(p) \/ FlushCall(p) \/ Destroy(p)
    <3>1. UNCHANGED <<buf, wire, wrote, got, entered, left>>
      BY <2>7 DEF Listen, Connect, Opened, Flush, SendNobody, RecvNobody, RecvCall, BeginRead,
                  FlushCall, Destroy, history
    <3>. QED  BY <3>1 DEF Stays, Held, OnWay
  <2>. QED  BY <1>2, <2>1, <2>2, <2>3, <2>4, <2>5, <2>6, <2>7 DEF PartyStep
<1>3. CASE UNCHANGED vars
  BY <1>3 DEF vars, history, Promise!vars
<1>. QED  BY <1>1, <1>2, <1>3 DEF Next, Done

LEMMA InitKept ==
  ASSUME Init PROVE Promise!Init
<1>1. \A d \in Pair : buf[SendEnd(d[1], d[2])] = <<>> /\ wire[SendEnd(d[1], d[2])] = <<>>
  BY PairFacts DEF Init
<1>2. Held = [d \in Pair |-> <<>>] /\ OnWay = [d \in Pair |-> <<>>]
  BY <1>1, DataFacts DEF Held, OnWay
<1>3. /\ wrote = [d \in Pair |-> 0] /\ got = [d \in Pair |-> <<>>]
      /\ entered = [p \in Party |-> 0] /\ left = [p \in Party |-> 0]
  BY DEF Init
<1>. QED  BY <1>2, <1>3, SamePairs DEF Promise!Init, Held, OnWay

(* Data arrive complete, in order and unmixed with the bytes of sync,      *)
(* whichever connection and buffer they pass; nobody leaves a sync before  *)
(* everybody has entered it, nor with data left behind in a buffer: the    *)
(* network implements the pipes of module Pipes (NetIOMP).                 *)
THEOREM KeptPromise == Spec => KeepsPromise
<1>1. Init => Promise!Init
  BY InitKept
<1>2. NetInv /\ [Next]_vars => [Promise!Next]_(Promise!vars)
  BY StepKept
<1>. QED  BY <1>1, <1>2, NetworkHolds, PTL DEF Spec, KeepsPromise, Promise!Spec
-----------------------------------------------------------------------------
(***************************************************************************)
(* Below the network layer: the loops of module Transfer, for every        *)
(* sequence of messages and every width of size_t and int.  The invariant  *)
(* counts the bytes each end has moved since the connection began: while no*)
(* call has failed, the bytes under way are those between the receiver's   *)
(* count and the sender's, and the byte at each place is the one the       *)
(* sender's messages have there.                                           *)
(***************************************************************************)
(* The smallest length an int cannot hold.                                 *)
Half == IntMod \div 2

(* Bytes of the first m messages.                                          *)
Total == LET f[m \in 0 .. Len(lens)] == IF m = 0 THEN 0 ELSE f[m - 1] + lens[m]
         IN  f
(* Bytes a side has moved, provided no call of it has failed.              *)
Moved(s) == Total[msg[s] - 1] + pos[s]

Byte == Nat \X Nat
QuietTo(s, m) == \A k \in 1 .. Len(lens) : k <= m => failed[s][k] = 0

TypeInv ==
  /\ lens \in Messages
  /\ msg \in [Side -> Nat] /\ \A s \in Side : msg[s] \in 1 .. (Len(lens) + 1)
  /\ pos \in [Side -> 0 .. (SizeMod - 1)]
  /\ state \in [Side -> {"runs", "exited", "finished"}]
  /\ pipe \in Seq(Byte)
  /\ DOMAIN buffer = 1 .. Len(lens)
  /\ buffer = [m \in 1 .. Len(lens) |-> buffer[m]]
  /\ \A m \in 1 .. Len(lens) : buffer[m] = [i \in 1 .. lens[m] |-> buffer[m][i]]
  /\ failed \in [Side -> [1 .. Len(lens) -> Nat]]

(* A loop whose calls have not failed has moved a part of its message.     *)
CountsInv ==
  \A s \in Side :
    /\ msg[s] = Len(lens) + 1 => pos[s] = 0
    /\ msg[s] <= Len(lens) /\ failed[s][msg[s]] = 0 => pos[s] <= lens[msg[s]]

(* Of a message too long for an int at least Half bytes stay behind.       *)
LongInv ==
  \A m \in 1 .. Len(lens) : lens[m] >= Half /\ failed["send"][m] = 0 =>
    /\ msg["send"] <= m
    /\ msg["send"] = m => lens[m] - pos["send"] >= Half

(* Byte i of message m has been sent.                                      *)
Sent(m, i) == m < msg["send"] \/ (m = msg["send"] /\ i <= pos["send"])
StreamInv ==
  QuietTo("recv", msg["recv"]) =>
    /\ QuietTo("send", msg["send"]) => Moved("recv") + Len(pipe) = Moved("send")
    /\ \A m \in 1 .. Len(lens) : QuietTo("send", m) =>
         \A i \in 1 .. lens[m] :
           Sent(m, i) /\ Total[m - 1] + i > Moved("recv") =>
             /\ Total[m - 1] + i - Moved("recv") \in 1 .. Len(pipe)
             /\ pipe[Total[m - 1] + i - Moved("recv")] = <<m, i>>

BufferInv ==
  \A m \in 1 .. Len(lens) : QuietTo("send", m) /\ QuietTo("recv", m) =>
    \A i \in 1 .. lens[m] :
      m < msg["recv"] \/ (m = msg["recv"] /\ i <= pos["recv"]) =>
        buffer[m][i] = <<m, i>>

TransferInv == TypeInv /\ CountsInv /\ LongInv /\ StreamInv /\ BufferInv
-----------------------------------------------------------------------------
LEMMA LensFacts ==
  ASSUME lens \in Messages
  PROVE  /\ lens \in Seq(Nat) /\ Len(lens) \in Nat
         /\ \A m \in 1 .. Len(lens) : lens[m] \in Nat /\ lens[m] <= SizeMod - 2
<1>1. lens \in Seq(0 .. (SizeMod - 2))
  BY TransferAssumption
<1>2. SizeMod \in Nat
  BY TransferAssumption
<1>. QED  BY <1>1, <1>2

LEMMA HalfFacts == Half \in Nat \ {0} /\ IntMod \in Nat \ {0} /\ Half <= IntMod
BY TransferAssumption DEF Half

(* What one call moves of what is left to move.                            *)
LEMMA AskedFacts ==
  ASSUME NEW x \in Nat, AsInt(x) > 0
  PROVE  /\ AsInt(x) \in Nat /\ AsInt(x) <= x
         /\ x >= Half => x - AsInt(x) >= Half
<1> DEFINE y == x % IntMod
<1>1. PICK q \in Int : y \in 0 .. (IntMod - 1) /\ x = IntMod * q + y
  <2>1. IntMod \in Nat \ {0} /\ x \in Int
    BY HalfFacts
  <2>2. (x % IntMod) \in 0 .. (IntMod - 1) /\ \E q \in Int : x = IntMod * q + (x % IntMod)
    BY <2>1, ModSplit
  <2>. QED  BY <2>2
<1>2. AsInt(x) = IF y >= Half THEN y - IntMod ELSE y
  BY DEF AsInt, Half
<1> HIDE DEF y
<1>3. y < Half /\ AsInt(x) = y
  BY <1>1, <1>2, HalfFacts
<1>4. q >= 0
  <2> SUFFICES ASSUME q <= -1 PROVE FALSE
    OBVIOUS
  <2>1. IntMod * q <= - IntMod
    BY HalfFacts
  <2>. QED  BY <1>1, <2>1, HalfFacts
<1>5. IntMod * q >= 0 /\ IntMod * q \in Int
  BY <1>4, HalfFacts
<1>6. x >= Half => IntMod * q >= IntMod
  <2> SUFFICES ASSUME x >= Half PROVE IntMod * q >= IntMod
    OBVIOUS
  <2>1. q # 0
    BY <1>1, <1>3, HalfFacts
  <2>2. q >= 1
    BY <1>4, <2>1
  <2>. QED  BY <2>2, HalfFacts
<1> DEFINE z == IntMod * q
<1>7. z \in Int /\ z >= 0 /\ (x >= Half => z >= IntMod) /\ x = z + y
  BY <1>1, <1>5, <1>6
<1> HIDE DEF z
<1>. QED  BY <1>1, <1>3, <1>7, HalfFacts

LEMMA AdvanceFacts ==
  ASSUME NEW x \in Nat, NEW n \in Int
  PROVE  /\ Advance(x, n) \in 0 .. (SizeMod - 1)
         /\ 0 <= x + n /\ x + n <= SizeMod - 1 => Advance(x, n) = x + n
<1>1. SizeMod \in Nat \ {0}
  BY TransferAssumption
<1>2. x + n \in Int
  OBVIOUS
<1>3. Advance(x, n) \in 0 .. (SizeMod - 1)
  BY <1>1, <1>2, ModSplit DEF Advance
<1>4. ASSUME 0 <= x + n, x + n <= SizeMod - 1
      PROVE  Advance(x, n) = x + n
  <2> DEFINE r == x + n
  <2>1. r \in 0 .. (SizeMod - 1) /\ r = SizeMod * 0 + r
    BY <1>1, <1>2, <1>4
  <2> HIDE DEF r
  <2>2. r % SizeMod = r
    BY <1>1, <2>1, ModUnique
  <2>. QED  BY <2>2 DEF Advance, r
<1>. QED  BY <1>3, <1>4

(* The recursive function Total exists.                                    *)
LEMMA TotalUnfold ==
  ASSUME Len(lens) \in Nat
  PROVE  Total = [m \in 0 .. Len(lens) |-> IF m = 0 THEN 0 ELSE Total[m - 1] + lens[m]]
<1> DEFINE Def(f, n) == f = [m \in 0 .. n |-> IF m = 0 THEN 0 ELSE f[m - 1] + lens[m]]
           T == {n \in Nat : \E f : Def(f, n)}
<1>1. 0 \in T
  <2>1. Def([m \in 0 .. 0 |-> 0], 0)
    OBVIOUS
  <2>. QED  BY <2>1
<1>2. ASSUME NEW n \in T PROVE n + 1 \in T
  <2>1. PICK f : Def(f, n)
    OBVIOUS
  <2> DEFINE g == [m \in 0 .. (n + 1) |-> IF m = n + 1 THEN f[n] + lens[n + 1] ELSE f[m]]
  <2>2. \A m \in 0 .. n : g[m] = f[m]
    OBVIOUS
  <2>3. \A m \in 0 .. (n + 1) : g[m] = IF m = 0 THEN 0 ELSE g[m - 1] + lens[m]
    <3> TAKE m \in 0 .. (n + 1)
    <3>1. CASE m = n + 1
      <4>1. g[m - 1] = f[n] /\ m # 0
        BY <3>1
      <4>. QED  BY <4>1, <3>1
    <3>2. CASE m # n + 1
      <4>1. m \in 0 .. n
        BY <3>2
      <4>2. g[m] = f[m]
        BY <4>1, <2>2
      <4>3. m # 0 => g[m - 1] = f[m - 1]
        BY <4>1
      <4>4. f[m] = IF m = 0 THEN 0 ELSE f[m - 1] + lens[m]
        BY <4>1, <2>1
      <4>. QED  BY <4>2, <4>3, <4>4
    <3>. QED  BY <3>1, <3>2
  <2>4. Def(g, n + 1)
    BY <2>3
  <2> HIDE DEF g, Def
  <2>5. n + 1 \in Nat
    OBVIOUS
  <2>. QED  BY <2>4, <2>5
<1>3. Len(lens) \in T
  <2> HIDE DEF T
  <2>1. T \in SUBSET Nat
    BY DEF T
  <2>. QED  BY <1>1, <1>2, <2>1, NatInd
<1>4. \E f : Def(f, Len(lens))
  BY <1>3
<1>. QED  BY <1>4 DEF Total

LEMMA TotalFacts ==
  ASSUME lens \in Messages
  PROVE  /\ \A m \in 0 .. Len(lens) : Total[m] \in Nat
         /\ Total[0] = 0
         /\ \A m \in 1 .. Len(lens) : Total[m] = Total[m - 1] + lens[m]
         /\ \A m \in 0 .. Len(lens) : \A n \in 0 .. Len(lens) :
              m <= n => Total[m] <= Total[n]
<1> DEFINE l == Len(lens)
<1>1. l \in Nat /\ \A m \in 1 .. l : lens[m] \in Nat
  BY LensFacts
<1>2. \A m \in 0 .. l : Total[m] = IF m = 0 THEN 0 ELSE Total[m - 1] + lens[m]
  BY <1>1, TotalUnfold
<1> HIDE DEF l
<1>3. Total[0] = 0
  BY <1>1, <1>2
<1>4. \A m \in 1 .. l : Total[m] = Total[m - 1] + lens[m]
  BY <1>1, <1>2
<1> DEFINE T == {n \in Nat : n <= l => /\ Total[n] \in Nat
                                       /\ \A m \in 0 .. n : Total[m] <= Total[n]}
<1>5. 0 \in T
  BY <1>3
<1>6. ASSUME NEW n \in T PROVE n + 1 \in T
  <2> SUFFICES ASSUME n + 1 <= l
               PROVE  /\ Total[n + 1] \in Nat
                      /\ \A m \in 0 .. (n + 1) : Total[m] <= Total[n + 1]
    OBVIOUS
  <2>1. n \in Nat /\ n <= l /\ n + 1 \in 1 .. l /\ (n + 1) - 1 = n
    BY <1>1
  <2>2. Total[n] \in Nat /\ \A m \in 0 .. n : Total[m] <= Total[n]
    BY <2>1
  <2>3. Total[n + 1] = Total[n] + lens[n + 1] /\ lens[n + 1] \in Nat
    BY <1>1, <1>4, <2>1
  <2>4. \A m \in 0 .. n : Total[m] \in Nat
    <3> DEFINE S == {k \in Nat : k <= n => Total[k] \in Nat}
    <3>1. 0 \in S
      BY <1>3
    <3>2. ASSUME NEW k \in S PROVE k + 1 \in S
      <4> SUFFICES ASSUME k + 1 <= n PROVE Total[k + 1] \in Nat
        OBVIOUS
      <4>1. k + 1 \in 1 .. l /\ (k + 1) - 1 = k /\ Total[k] \in Nat
        BY <1>1, <2>1
      <4>. QED  BY <1>1, <1>4, <4>1
    <3> HIDE DEF S
    <3>3. S \in SUBSET Nat
      BY DEF S
    <3>4. S = Nat
      BY <3>1, <3>2, <3>3, NatInd
    <3>. QED  BY <2>1, <3>4 DEF S
  <2>5. ASSUME NEW m \in 0 .. (n + 1) PROVE Total[m] <= Total[n + 1]
    <3>1. CASE m = n + 1
      BY <2>2, <2>3, <3>1
    <3>2. CASE m # n + 1
      <4>1. m \in 0 .. n
        BY <2>1, <3>2
      <4>. QED  BY <2>2, <2>3, <2>4, <4>1
    <3>. QED  BY <3>1, <3>2
  <2>. QED  BY <2>2, <2>3, <2>5
<1>7. T = Nat
  <2> HIDE DEF T
  <2>1. T \in SUBSET Nat
    BY DEF T
  <2>. QED  BY <1>5, <1>6, <2>1, NatInd
<1>8. \A n \in 0 .. l : Total[n] \in Nat /\ \A m \in 0 .. n : Total[m] <= Total[n]
  BY <1>1, <1>7
<1>9. \A m, n \in 0 .. l : m <= n => m \in 0 .. n
  BY <1>1
<1>. QED  BY <1>3, <1>4, <1>8, <1>9 DEF l

-----------------------------------------------------------------------------
(* What both ends' loops rely on, in one place.                            *)
LEMMA SideFacts ==
  ASSUME TypeInv, NEW s \in Side
  PROVE  /\ lens \in Messages /\ Len(lens) \in Nat
         /\ msg[s] \in Nat /\ msg[s] >= 1 /\ msg[s] <= Len(lens) + 1
         /\ pos[s] \in Nat /\ pos[s] <= SizeMod - 1
         /\ msg[s] <= Len(lens) =>
              /\ msg[s] \in 1 .. Len(lens)
              /\ lens[msg[s]] \in Nat /\ lens[msg[s]] <= SizeMod - 2
              /\ failed[s][msg[s]] \in Nat
<1>1. lens \in Messages
  BY DEF TypeInv
<1>2. Len(lens) \in Nat /\ SizeMod \in Nat
  BY <1>1, LensFacts, TransferAssumption
<1>3. msg[s] \in 1 .. (Len(lens) + 1)
  BY DEF TypeInv
<1>4. pos[s] \in 0 .. (SizeMod - 1)
  BY DEF TypeInv
<1>5. ASSUME msg[s] <= Len(lens)
      PROVE  /\ msg[s] \in 1 .. Len(lens)
             /\ lens[msg[s]] \in Nat /\ lens[msg[s]] <= SizeMod - 2
             /\ failed[s][msg[s]] \in Nat
  <2>1. msg[s] \in 1 .. Len(lens)
    BY <1>2, <1>3, <1>5
  <2>2. lens[msg[s]] \in Nat /\ lens[msg[s]] <= SizeMod - 2
    BY <1>1, <2>1, LensFacts
  <2>3. failed[s] \in [1 .. Len(lens) -> Nat]
    BY DEF TypeInv
  <2>. QED  BY <2>1, <2>2, <2>3
<1>. QED  BY <1>1, <1>2, <1>3, <1>4, <1>5

LEMMA TotalSame ==
  ASSUME lens' = lens
  PROVE  Total' = Total
BY DEF Total

LEMMA MovedFacts ==
  ASSUME TypeInv, NEW s \in Side
  PROVE  /\ msg[s] - 1 \in 0 .. Len(lens) /\ Total[msg[s] - 1] \in Nat
         /\ Moved(s) = Total[msg[s] - 1] + pos[s] /\ Moved(s) \in Nat
<1>1. /\ lens \in Messages /\ Len(lens) \in Nat
      /\ msg[s] \in Nat /\ msg[s] >= 1 /\ msg[s] <= Len(lens) + 1 /\ pos[s] \in Nat
  BY SideFacts
<1>2. msg[s] - 1 \in 0 .. Len(lens)
  BY <1>1
<1>3. Total[msg[s] - 1] \in Nat
  BY <1>1, <1>2, TotalFacts
<1>. QED  BY <1>1, <1>2, <1>3 DEF Moved

LEMMA InitTransfer ==
  ASSUME TransferInit
  PROVE  TransferInv
<1>0. lens \in Messages /\ Len(lens) \in Nat /\ SizeMod \in Nat \ {0}
      /\ \A m \in 1 .. Len(lens) : lens[m] \in Nat
  BY LensFacts, TransferAssumption DEF TransferInit
<1>1. /\ msg = [s \in Side |-> 1] /\ pos = [s \in Side |-> 0]
      /\ failed = [s \in Side |-> [m \in 1 .. Len(lens) |-> 0]]
      /\ pipe = <<>> /\ state = [s \in Side |-> "runs"]
      /\ buffer = [m \in 1 .. Len(lens) |-> [i \in 1 .. lens[m] |-> None]]
  BY DEF TransferInit
<1>2. "send" \in Side /\ "recv" \in Side
  BY DEF Side
<1>3. TypeInv
  <2>1. \A s \in Side : msg[s] \in 1 .. (Len(lens) + 1)
    BY <1>0, <1>1
  <2>2. pos \in [Side -> 0 .. (SizeMod - 1)]
    BY <1>0, <1>1
  <2>3. /\ DOMAIN buffer = 1 .. Len(lens)
        /\ buffer = [m \in 1 .. Len(lens) |-> buffer[m]]
        /\ \A m \in 1 .. Len(lens) : buffer[m] = [i \in 1 .. lens[m] |-> buffer[m][i]]
    BY <1>1
  <2>4. pipe \in Seq(Byte)
    BY <1>1
  <2>. QED  BY <1>0, <1>1, <2>1, <2>2, <2>3, <2>4 DEF TypeInv
<1>4. CountsInv
  BY <1>0, <1>1 DEF CountsInv
<1>5. LongInv
  <2>1. \A m \in 1 .. Len(lens) : 1 <= m
    BY <1>0
  <2>2. \A m \in 1 .. Len(lens) : lens[m] >= Half => lens[m] - 0 >= Half
    BY <1>0
  <2>. QED  BY <1>1, <1>2, <2>1, <2>2 DEF LongInv
<1>6. StreamInv
  <2>1. Moved("recv") = 0 /\ Moved("send") = 0
    <3>1. Total[0] = 0
      BY <1>0, TotalFacts
    <3>. QED  BY <1>1, <1>2, <3>1 DEF Moved
  <2>2. \A m \in 1 .. Len(lens) : \A i \in 1 .. lens[m] : ~ Sent(m, i)
    <3> SUFFICES ASSUME NEW m \in 1 .. Len(lens), NEW i \in 1 .. lens[m], Sent(m, i)
                 PROVE  FALSE
      OBVIOUS
    <3>1. m \in Nat /\ m >= 1 /\ i \in Nat /\ i >= 1
      BY <1>0
    <3>2. m < 1 \/ i <= 0
      BY <1>1, <1>2 DEF Sent
    <3>. QED  BY <3>1, <3>2
  <2>3. Len(pipe) = 0
    BY <1>1
  <2>. QED  BY <2>1, <2>2, <2>3 DEF StreamInv
<1>7. BufferInv
  <2> SUFFICES ASSUME NEW m \in 1 .. Len(lens), NEW i \in 1 .. lens[m],
                      m < msg["recv"] \/ (m = msg["recv"] /\ i <= pos["recv"])
               PROVE  FALSE
    BY DEF BufferInv
  <2>1. m \in Nat /\ m >= 1 /\ i \in Nat /\ i >= 1
    BY <1>0
  <2>2. m < 1 \/ i <= 0
    BY <1>1, <1>2
  <2>. QED  BY <2>1, <2>2
<1>. QED  BY <1>3, <1>4, <1>5, <1>6, <1>7 DEF TransferInv

-----------------------------------------------------------------------------
(* Steps that only change a side's state change nothing else.              *)
LEMMA StateOnly ==
  ASSUME TransferInv, UNCHANGED <<lens, msg, pos, pipe, buffer, failed>>,
         state' \in [Side -> {"runs", "exited", "finished"}]
  PROVE  TransferInv'
<1>1. TypeInv'
  BY DEF TransferInv, TypeInv
<1>2. CountsInv' /\ LongInv'
  BY DEF TransferInv, CountsInv, LongInv
<1>3. Total' = Total
  BY TotalSame
<1>4. StreamInv'
  <2>1. Moved("recv")' = Moved("recv") /\ Moved("send")' = Moved("send")
    BY <1>3 DEF Moved
  <2>2. \A s, m : QuietTo(s, m)' <=> QuietTo(s, m)
    BY DEF QuietTo
  <2>3. \A m, i : Sent(m, i)' <=> Sent(m, i)
    BY DEF Sent
  <2>4. StreamInv
    BY DEF TransferInv
  <2>. QED  BY <1>3, <2>1, <2>2, <2>3, <2>4 DEF StreamInv
<1>5. BufferInv'
  BY DEF TransferInv, BufferInv, QuietTo
<1>. QED  BY <1>1, <1>2, <1>4, <1>5 DEF TransferInv

LEMMA ErrorKeeps ==
  ASSUME TransferInv, NEW s \in Side, Error(s)
  PROVE  TransferInv'
<1>1. state' \in [Side -> {"runs", "exited", "finished"}]
  BY DEF Error, TransferInv, TypeInv
<1>. QED  BY <1>1, StateOnly DEF Error

LEMMA FinishKeeps ==
  ASSUME TransferInv, NEW s \in Side, Finish(s)
  PROVE  TransferInv'
<1>1. state' \in [Side -> {"runs", "exited", "finished"}]
  BY DEF Finish, TransferInv, TypeInv
<1>. QED  BY <1>1, StateOnly DEF Finish

(* What StreamInv says of the next state, with the primes spelled out.      *)
QuietNext(s, m) == \A k \in 1 .. Len(lens) : k <= m => failed'[s][k] = 0
LEMMA StreamNext ==
  ASSUME lens' = lens,
         QuietNext("recv", msg'["recv"]) =>
           /\ QuietNext("send", msg'["send"]) => Moved("recv")' + Len(pipe') = Moved("send")'
           /\ \A m \in 1 .. Len(lens) : QuietNext("send", m) =>
                \A i \in 1 .. lens[m] :
                  /\ m < msg'["send"] \/ (m = msg'["send"] /\ i <= pos'["send"])
                  /\ Total[m - 1] + i > Moved("recv")'
                  => /\ Total[m - 1] + i - Moved("recv")' \in 1 .. Len(pipe')
                     /\ pipe'[Total[m - 1] + i - Moved("recv")'] = <<m, i>>
  PROVE  StreamInv'
<1>1. Total' = Total
  BY TotalSame
<1>2. /\ QuietTo("recv", msg["recv"])' <=> QuietNext("recv", msg'["recv"])
      /\ QuietTo("send", msg["send"])' <=> QuietNext("send", msg'["send"])
  BY DEF QuietTo, QuietNext
<1>3. \A m : QuietTo("send", m)' <=> QuietNext("send", m)
  BY DEF QuietTo, QuietNext
<1>4. \A m, i : Sent(m, i)' <=> m < msg'["send"] \/ (m = msg'["send"] /\ i <= pos'["send"])
  BY DEF Sent
<1> SUFFICES ASSUME QuietTo("recv", msg["recv"])'
             PROVE  /\ (QuietTo("send", msg["send"]) => Moved("recv") + Len(pipe) = Moved("send"))'
                    /\ (\A m \in 1 .. Len(lens) : QuietTo("send", m) =>
                          \A i \in 1 .. lens[m] :
                            Sent(m, i) /\ Total[m - 1] + i > Moved("recv") =>
                              /\ Total[m - 1] + i - Moved("recv") \in 1 .. Len(pipe)
                              /\ pipe[Total[m - 1] + i - Moved("recv")] = <<m, i>>)'
  BY DEF StreamInv
<1>5. QuietNext("recv", msg'["recv"])
  BY <1>2
<1>6. (QuietTo("send", msg["send"]) => Moved("recv") + Len(pipe) = Moved("send"))'
  BY <1>2, <1>5
<1>7. ASSUME NEW m \in 1 .. Len(lens), QuietTo("send", m)', NEW i \in 1 .. lens[m],
             Sent(m, i)', Total[m - 1] + i > Moved("recv")'
      PROVE  /\ Total[m - 1] + i - Moved("recv")' \in 1 .. Len(pipe')
             /\ pipe'[Total[m - 1] + i - Moved("recv")'] = <<m, i>>
  BY <1>3, <1>4, <1>5, <1>7
<1>. QED  BY <1>1, <1>6, <1>7

(* A failing call ends the quiet of its side for this message and all the  *)
(* messages after it.                                                      *)
LEMMA FailFacts ==
  ASSUME TypeInv, NEW s \in Side, Fail(s)
  PROVE  /\ UNCHANGED <<lens, msg, state, pipe, buffer>>
         /\ msg[s] \in 1 .. Len(lens)
         /\ \A t \in Side \ {s} : pos'[t] = pos[t] /\ failed'[t] = failed[t]
         /\ pos' \in [Side -> 0 .. (SizeMod - 1)]
         /\ failed' \in [Side -> [1 .. Len(lens) -> Nat]]
         /\ failed'[s][msg[s]] # 0
         /\ \A m \in 1 .. Len(lens) : m # msg[s] => failed'[s][m] = failed[s][m]
<1> DEFINE k == msg[s]
           x == Advance(pos[s], -1)
           y == failed[s][k] + 1
<1>1. /\ UNCHANGED <<lens, msg, state, pipe, buffer>>
      /\ k \in 1 .. Len(lens)
      /\ pos' = [pos EXCEPT ![s] = x]
      /\ failed' = [failed EXCEPT ![s][k] = @ + 1]
  BY SideFacts DEF Fail, InLoop
<1>2. pos[s] \in Nat /\ failed[s][k] \in Nat
  BY <1>1, SideFacts
<1>3. x \in 0 .. (SizeMod - 1)
  <2>1. \A n \in Int : Advance(pos[s], n) \in 0 .. (SizeMod - 1)
    BY <1>2, AdvanceFacts
  <2>2. -1 \in Int
    OBVIOUS
  <2>. QED  BY <2>1, <2>2
<1>4. y \in Nat /\ y # 0
  BY <1>2
<1>5. /\ pos \in [Side -> 0 .. (SizeMod - 1)] /\ failed \in [Side -> [1 .. Len(lens) -> Nat]]
  BY DEF TypeInv
<1>6. failed' = [failed EXCEPT ![s] = [failed[s] EXCEPT ![k] = y]]
  BY <1>1, <1>5
<1> HIDE DEF k, x, y
<1>7. [failed[s] EXCEPT ![k] = y] \in [1 .. Len(lens) -> Nat]
  BY <1>1, <1>4, <1>5
<1>8. failed'[s] = [failed[s] EXCEPT ![k] = y]
  BY <1>5, <1>6
<1>9. failed'[s][k] = y /\ \A m \in 1 .. Len(lens) : m # k => failed'[s][m] = failed[s][m]
  BY <1>1, <1>5, <1>8
<1>10. /\ failed' \in [Side -> [1 .. Len(lens) -> Nat]]
       /\ \A t \in Side \ {s} : failed'[t] = failed[t]
  BY <1>5, <1>6, <1>7
<1>11. pos' \in [Side -> 0 .. (SizeMod - 1)] /\ \A t \in Side \ {s} : pos'[t] = pos[t]
  BY <1>1, <1>3, <1>5
<1>. QED  BY <1>1, <1>4, <1>9, <1>10, <1>11 DEF k

LEMMA FailKeeps ==
  ASSUME TransferInv, NEW s \in Side, Fail(s)
  PROVE  TransferInv'
<1>0. TypeInv /\ CountsInv /\ LongInv /\ StreamInv /\ BufferInv
  BY DEF TransferInv
<1>1. /\ UNCHANGED <<lens, msg, state, pipe, buffer>>
      /\ msg[s] \in 1 .. Len(lens)
      /\ \A t \in Side \ {s} : pos'[t] = pos[t] /\ failed'[t] = failed[t]
      /\ pos' \in [Side -> 0 .. (SizeMod - 1)]
      /\ failed' \in [Side -> [1 .. Len(lens) -> Nat]]
      /\ failed'[s][msg[s]] # 0
      /\ \A m \in 1 .. Len(lens) : m # msg[s] => failed'[s][m] = failed[s][m]
  BY <1>0, FailFacts
<1>2. Len(lens) \in Nat /\ \A t \in Side : msg[t] \in Nat /\ msg[t] >= 1
  BY <1>0, SideFacts
<1>3. TypeInv'
  BY SMTT(30), <1>0, <1>1 DEF TypeInv
<1>4. CountsInv'
  <2> SUFFICES ASSUME NEW t \in Side
               PROVE  /\ msg[t] = Len(lens) + 1 => pos'[t] = 0
                      /\ msg[t] <= Len(lens) /\ failed'[t][msg[t]] = 0 =>
                           pos'[t] <= lens[msg[t]]
    BY <1>1 DEF CountsInv
  <2>1. CASE t = s
    BY <1>1, <1>2, <2>1
  <2>2. CASE t # s
    BY <1>0, <1>1, <2>2 DEF CountsInv
  <2>. QED  BY <2>1, <2>2
<1>5. LongInv'
  <2> SUFFICES ASSUME NEW m \in 1 .. Len(lens), lens[m] >= Half, failed'["send"][m] = 0
               PROVE  /\ msg["send"] <= m
                      /\ msg["send"] = m => lens[m] - pos'["send"] >= Half
    BY <1>1 DEF LongInv
  <2>1. CASE s = "send"
    <3>1. m # msg["send"] /\ failed["send"][m] = 0
      BY <1>1, <2>1
    <3>. QED  BY <1>0, <3>1 DEF LongInv
  <2>2. CASE s # "send"
    <3>1. failed["send"][m] = 0 /\ pos'["send"] = pos["send"]
      BY <1>1, <2>2 DEF Side
    <3>. QED  BY <1>0, <3>1 DEF LongInv
  <2>. QED  BY <2>1, <2>2
<1>6. \A m : QuietTo(s, m)' => QuietTo(s, m) /\ ~ (msg[s] <= m)
  <2> SUFFICES ASSUME NEW m, QuietTo(s, m)' PROVE QuietTo(s, m) /\ ~ (msg[s] <= m)
    OBVIOUS
  <2>1. \A k \in 1 .. Len(lens) : k <= m => failed'[s][k] = 0
    BY <1>1 DEF QuietTo
  <2>2. ~ (msg[s] <= m)
    BY <1>1, <2>1
  <2>. QED  BY <1>1, <2>1, <2>2 DEF QuietTo
<1>7. \A t \in Side \ {s} : \A m : QuietTo(t, m)' <=> QuietTo(t, m)
  BY <1>1 DEF QuietTo
<1>8. StreamInv'
  <2>1. CASE s = "recv"
    <3>1. ~ (msg["recv"] <= msg["recv"]) \/ ~ QuietTo("recv", msg["recv"])'
      BY <1>1, <1>6, <2>1
    <3>. QED  BY <1>2, <2>1, <3>1 DEF StreamInv
  <2>2. CASE s = "send"
    <3>0. Moved("recv")' = Moved("recv") /\ msg' = msg /\ pipe' = pipe /\ lens' = lens
      BY <1>1, <2>2, TotalSame DEF Moved, Side
    <3>1. ASSUME QuietNext("recv", msg["recv"]) PROVE QuietTo("recv", msg["recv"])
      BY <1>1, <2>2, <3>1 DEF QuietTo, QuietNext, Side
    <3>2. \A m : QuietNext("send", m) => QuietTo("send", m) /\ ~ (msg["send"] <= m)
      BY <1>1, <1>6, <2>2 DEF QuietTo, QuietNext
    <3>3. msg["send"] <= msg["send"]
      BY <1>2, <2>2
    <3>4. \A m \in 1 .. Len(lens) : QuietNext("send", m) => m < msg["send"]
      BY <1>2, <2>2, <3>2
    <3>5. \A m \in 1 .. Len(lens) : QuietNext("send", m) => \A i : Sent(m, i)
      BY <3>4 DEF Sent
    <3>6. QuietTo("recv", msg["recv"]) =>
           \A m \in 1 .. Len(lens) : QuietTo("send", m) =>
             \A i \in 1 .. lens[m] :
               Sent(m, i) /\ Total[m - 1] + i > Moved("recv") =>
                 /\ Total[m - 1] + i - Moved("recv") \in 1 .. Len(pipe)
                 /\ pipe[Total[m - 1] + i - Moved("recv")] = <<m, i>>
      BY <1>0 DEF StreamInv
    <3>. QED  BY <3>0, <3>1, <3>2, <3>3, <3>5, <3>6, StreamNext
  <2>. QED  BY <2>1, <2>2 DEF Side
<1>9. BufferInv'
  <2> SUFFICES ASSUME NEW m \in 1 .. Len(lens), QuietTo("send", m)', QuietTo("recv", m)',
                      NEW i \in 1 .. lens[m],
                      m < msg["recv"] \/ (m = msg["recv"] /\ i <= pos'["recv"])
               PROVE  buffer[m][i] = <<m, i>>
    BY <1>1 DEF BufferInv
  <2>1. QuietTo("send", m) /\ QuietTo("recv", m)
    BY <1>6, <1>7 DEF Side
  <2>2. m < msg["recv"] \/ (m = msg["recv"] /\ i <= pos["recv"])
    <3>1. CASE s = "recv"
      <4>1. ~ (msg["recv"] <= m)
        BY <1>6, <3>1
      <4>. QED  BY <1>2, <3>1, <4>1
    <3>2. CASE s # "recv"
      BY <1>1, <3>2 DEF Side
    <3>. QED  BY <3>1, <3>2
  <2>. QED  BY <1>0, <2>1, <2>2 DEF BufferInv
<1>. QED  BY <1>3, <1>4, <1>5, <1>8, <1>9 DEF TransferInv
-----------------------------------------------------------------------------
(* Returning from a loop none of whose calls failed moves no count.        *)
LEMMA ReturnFacts ==
  ASSUME TypeInv, CountsInv, NEW s \in Side, Return(s)
  PROVE  /\ UNCHANGED <<lens, state, pipe, buffer, failed>>
         /\ msg[s] \in 1 .. Len(lens) /\ msg'[s] = msg[s] + 1 /\ pos'[s] = 0
         /\ \A t \in Side \ {s} : msg'[t] = msg[t] /\ pos'[t] = pos[t]
         /\ msg' \in [Side -> Nat] /\ pos' \in [Side -> 0 .. (SizeMod - 1)]
         /\ pos[s] >= lens[msg[s]]
         /\ failed[s][msg[s]] = 0 => pos[s] = lens[msg[s]] /\ Moved(s)' = Moved(s)
         /\ \A t \in Side \ {s} : Moved(t)' = Moved(t)
<1>1. /\ UNCHANGED <<lens, state, pipe, buffer, failed>>
      /\ msg[s] <= Len(lens) /\ ~ (pos[s] < lens[msg[s]])
      /\ msg' = [msg EXCEPT ![s] = @ + 1] /\ pos' = [pos EXCEPT ![s] = 0]
  BY DEF Return, InLoop
<1>2. /\ lens \in Messages /\ Len(lens) \in Nat
      /\ msg[s] \in 1 .. Len(lens) /\ lens[msg[s]] \in Nat /\ pos[s] \in Nat
  BY <1>1, SideFacts
<1>3. /\ msg \in [Side -> Nat] /\ pos \in [Side -> 0 .. (SizeMod - 1)]
      /\ 0 \in 0 .. (SizeMod - 1)
  BY TransferAssumption DEF TypeInv
<1>4. /\ msg'[s] = msg[s] + 1 /\ pos'[s] = 0
      /\ \A t \in Side \ {s} : msg'[t] = msg[t] /\ pos'[t] = pos[t]
      /\ msg' \in [Side -> Nat] /\ pos' \in [Side -> 0 .. (SizeMod - 1)]
  BY <1>1, <1>2, <1>3
<1>5. pos[s] >= lens[msg[s]]
  BY <1>1, <1>2
<1>6. Total' = Total
  BY <1>1, TotalSame
<1>7. ASSUME failed[s][msg[s]] = 0
      PROVE  pos[s] = lens[msg[s]] /\ Moved(s)' = Moved(s)
  <2>1. pos[s] <= lens[msg[s]]
    BY <1>1, <1>7 DEF CountsInv
  <2>2. pos[s] = lens[msg[s]]
    BY <1>2, <1>5, <2>1
  <2>3. Total[msg[s]] = Total[msg[s] - 1] + lens[msg[s]] /\ Total[msg[s]] \in Nat
    <3>1. msg[s] \in 0 .. Len(lens)
      BY <1>2
    <3>. QED  BY <1>2, <3>1, TotalFacts
  <2>4. Moved(s)' = Total[msg[s]] + 0
    <3>1. Moved(s)' = Total'[msg'[s] - 1] + pos'[s]
      BY DEF Moved
    <3>2. msg'[s] - 1 = msg[s]
      BY <1>2, <1>4
    <3>3. Moved(s)' = Total[msg'[s] - 1] + pos'[s]
      BY <1>6, <3>1
    <3>. QED  BY <1>4, <3>2, <3>3
  <2>. QED  BY <1>2, <2>2, <2>3, <2>4 DEF Moved
<1>8. \A t \in Side \ {s} : Moved(t)' = Moved(t)
  BY <1>4, <1>6 DEF Moved
<1>. QED  BY <1>1, <1>2, <1>4, <1>5, <1>7, <1>8

LEMMA ReturnKeeps ==
  ASSUME TransferInv, NEW s \in Side, Return(s)
  PROVE  TransferInv'
<1>0. TypeInv /\ CountsInv /\ LongInv /\ StreamInv /\ BufferInv
  BY DEF TransferInv
<1>1. /\ UNCHANGED <<lens, state, pipe, buffer, failed>>
      /\ msg[s] \in 1 .. Len(lens) /\ msg'[s] = msg[s] + 1 /\ pos'[s] = 0
      /\ \A t \in Side \ {s} : msg'[t] = msg[t] /\ pos'[t] = pos[t]
      /\ msg' \in [Side -> Nat] /\ pos' \in [Side -> 0 .. (SizeMod - 1)]
      /\ pos[s] >= lens[msg[s]]
      /\ failed[s][msg[s]] = 0 => pos[s] = lens[msg[s]] /\ Moved(s)' = Moved(s)
      /\ \A t \in Side \ {s} : Moved(t)' = Moved(t)
  BY <1>0, ReturnFacts
<1>2. /\ Len(lens) \in Nat /\ \A m \in 1 .. Len(lens) : lens[m] \in Nat
      /\ \A t \in Side : msg[t] \in Nat /\ msg[t] >= 1 /\ pos[t] \in Nat
  BY <1>0, SideFacts, LensFacts DEF TypeInv
<1>3. TypeInv'
  <2>1. \A t \in Side : msg'[t] \in 1 .. (Len(lens) + 1)
    <3> SUFFICES ASSUME NEW t \in Side PROVE msg'[t] \in 1 .. (Len(lens) + 1)
      OBVIOUS
    <3>1. CASE t = s
      BY <1>1, <1>2, <3>1
    <3>2. CASE t # s
      <4>1. msg'[t] = msg[t] /\ msg[t] \in 1 .. (Len(lens) + 1)
        BY <1>0, <1>1, <3>2 DEF TypeInv
      <4>. QED  BY <4>1
    <3>. QED  BY <3>1, <3>2
  <2>. QED  BY SMTT(30), <1>0, <1>1, <2>1 DEF TypeInv
<1>4. CountsInv'
  <2> SUFFICES ASSUME NEW t \in Side
               PROVE  /\ msg'[t] = Len(lens) + 1 => pos'[t] = 0
                      /\ msg'[t] <= Len(lens) /\ failed[t][msg'[t]] = 0 =>
                           pos'[t] <= lens[msg'[t]]
    BY <1>1 DEF CountsInv
  <2>1. CASE t = s
    <3>1. msg'[t] <= Len(lens) => msg'[t] \in 1 .. Len(lens)
      BY <1>1, <1>2, <2>1
    <3>. QED  BY <1>1, <1>2, <2>1, <3>1
  <2>2. CASE t # s
    BY <1>0, <1>1, <2>2 DEF CountsInv
  <2>. QED  BY <2>1, <2>2
<1>5. LongInv'
  <2> SUFFICES ASSUME NEW m \in 1 .. Len(lens), lens[m] >= Half, failed["send"][m] = 0
               PROVE  /\ msg'["send"] <= m
                      /\ msg'["send"] = m => lens[m] - pos'["send"] >= Half
    BY <1>1 DEF LongInv
  <2>1. /\ msg["send"] <= m
        /\ msg["send"] = m => lens[m] - pos["send"] >= Half
    BY <1>0 DEF LongInv
  <2>2. CASE s = "send"
    <3>1. msg["send"] # m
      BY <1>1, <1>2, <2>1, <2>2, HalfFacts
    <3>2. msg["send"] + 1 <= m
      BY <1>2, <2>1, <2>2, <3>1
    <3>. QED  BY <1>1, <1>2, <2>2, <3>2
  <2>3. CASE s # "send"
    BY <1>1, <2>1, <2>3 DEF Side
  <2>. QED  BY <2>2, <2>3
<1>6. \A t, m : QuietNext(t, m) <=> QuietTo(t, m)
  BY <1>1 DEF QuietTo, QuietNext
<1>7. ASSUME QuietTo(s, msg[s]) PROVE pos[s] = lens[msg[s]] /\ Moved(s)' = Moved(s)
  <2>1. failed[s][msg[s]] = 0
    BY <1>1, <1>2, <1>7 DEF QuietTo
  <2>. QED  BY <1>1, <2>1
<1>8. QuietTo(s, msg[s] + 1) => QuietTo(s, msg[s])
  BY <1>1, <1>2 DEF QuietTo
<1>9. StreamInv'
  <2> SUFFICES ASSUME QuietTo("recv", msg'["recv"])
               PROVE  /\ QuietTo("send", msg'["send"]) =>
                            Moved("recv")' + Len(pipe) = Moved("send")'
                      /\ \A m \in 1 .. Len(lens) : QuietTo("send", m) =>
                           \A i \in 1 .. lens[m] :
                             /\ m < msg'["send"] \/ (m = msg'["send"] /\ i <= pos'["send"])
                             /\ Total[m - 1] + i > Moved("recv")'
                             => /\ Total[m - 1] + i - Moved("recv")' \in 1 .. Len(pipe)
                                /\ pipe[Total[m - 1] + i - Moved("recv")'] = <<m, i>>
    BY <1>1, <1>6, StreamNext
  <2>1. QuietTo("recv", msg["recv"]) /\ Moved("recv")' = Moved("recv")
    <3>1. CASE s = "recv"
      BY <1>1, <1>7, <1>8, <3>1
    <3>2. CASE s # "recv"
      BY <1>1, <3>2 DEF Side
    <3>. QED  BY <3>1, <3>2
  <2>2. QuietTo("send", msg'["send"]) =>
          QuietTo("send", msg["send"]) /\ Moved("send")' = Moved("send")
    <3>1. CASE s = "send"
      BY <1>1, <1>7, <1>8, <3>1
    <3>2. CASE s # "send"
      BY <1>1, <3>2 DEF Side
    <3>. QED  BY <3>1, <3>2
  <2>3. ASSUME NEW m \in 1 .. Len(lens), QuietTo("send", m), NEW i \in 1 .. lens[m],
               m < msg'["send"] \/ (m = msg'["send"] /\ i <= pos'["send"])
        PROVE  Sent(m, i)
    <3>1. CASE s = "send"
      <4>1. i \in Nat /\ i >= 1 /\ i <= lens[m] /\ m \in Nat
        BY <1>2
      <4>2. m <= msg["send"]
        BY <1>1, <1>2, <2>3, <3>1, <4>1
      <4>3. m = msg["send"] => i <= pos["send"]
        BY <1>7, <2>3, <3>1, <4>1
      <4>. QED  BY <1>2, <3>1, <4>1, <4>2, <4>3 DEF Sent
    <3>2. CASE s # "send"
      BY <1>1, <2>3, <3>2 DEF Side, Sent
    <3>. QED  BY <3>1, <3>2
  <2>4. /\ QuietTo("send", msg["send"]) => Moved("recv") + Len(pipe) = Moved("send")
        /\ \A m \in 1 .. Len(lens) : QuietTo("send", m) =>
             \A i \in 1 .. lens[m] :
               Sent(m, i) /\ Total[m - 1] + i > Moved("recv") =>
                 /\ Total[m - 1] + i - Moved("recv") \in 1 .. Len(pipe)
                 /\ pipe[Total[m - 1] + i - Moved("recv")] = <<m, i>>
    BY <1>0, <2>1 DEF StreamInv
  <2>. QED  BY <2>1, <2>2, <2>3, <2>4
<1>10. BufferInv'
  <2> SUFFICES ASSUME NEW m \in 1 .. Len(lens), QuietTo("send", m), QuietTo("recv", m),
                      NEW i \in 1 .. lens[m],
                      m < msg'["recv"] \/ (m = msg'["recv"] /\ i <= pos'["recv"])
               PROVE  buffer[m][i] = <<m, i>>
    BY <1>1 DEF BufferInv, QuietTo
  <2>1. m < msg["recv"] \/ (m = msg["recv"] /\ i <= pos["recv"])
    <3>1. CASE s = "recv"
      <4>1. i \in Nat /\ i >= 1 /\ i <= lens[m] /\ m \in Nat
        BY <1>2
      <4>2. m <= msg["recv"]
        BY <1>1, <1>2, <3>1, <4>1
      <4>3. m = msg["recv"] => i <= pos["recv"]
        BY <1>7, <3>1, <4>1
      <4>. QED  BY <1>2, <3>1, <4>1, <4>2, <4>3
    <3>2. CASE s # "recv"
      BY <1>1, <3>2 DEF Side
    <3>. QED  BY <3>1, <3>2
  <2>. QED  BY <1>0, <2>1 DEF BufferInv
<1>. QED  BY <1>3, <1>4, <1>5, <1>9, <1>10 DEF TransferInv

-----------------------------------------------------------------------------
(* One call's worth of bytes: it fits what is left, and the count does not *)
(* wrap.                                                                   *)
LEMMA CallFacts ==
  ASSUME TypeInv, NEW s \in Side, InLoop(s), NEW n \in 1 .. Asked(s), Asked(s) > 0
  PROVE  LET k == msg[s] IN
         /\ k \in 1 .. Len(lens) /\ n \in Nat /\ n >= 1
         /\ pos[s] \in Nat /\ lens[k] \in Nat
         /\ pos[s] + n <= lens[k]
         /\ Advance(pos[s], n) = pos[s] + n /\ pos[s] + n \in 0 .. (SizeMod - 1)
         /\ lens[k] - pos[s] >= Half => lens[k] - (pos[s] + n) >= Half
<1> DEFINE k == msg[s]
           x == Rest(s)
           a == AsInt(x)
           p == pos[s]
           l == lens[k]
<1>1. /\ k \in 1 .. Len(lens) /\ l \in Nat /\ l <= SizeMod - 2 /\ p \in Nat /\ p < l
      /\ SizeMod \in Nat
  BY SideFacts, TransferAssumption DEF InLoop
<1>2. x = l - p /\ n \in 1 .. a /\ a > 0
  BY DEF Rest, Asked
<1> HIDE DEF k, a, p, l
<1>3. x \in Nat
  BY <1>1, <1>2
<1> HIDE DEF x
<1>4. a \in Nat /\ a <= x /\ (x >= Half => x - a >= Half)
  BY <1>2, <1>3, AskedFacts DEF a
<1>5. n \in Nat /\ n >= 1 /\ n <= a
  BY <1>2, <1>4
<1>6. p + n <= l /\ p + n \in 0 .. (SizeMod - 1) /\ n \in Int /\ 0 <= p + n /\ p + n <= SizeMod - 1
  BY <1>1, <1>2, <1>4, <1>5
<1>7. Advance(p, n) = p + n
  BY <1>1, <1>6, AdvanceFacts
<1>8. l - p >= Half => l - (p + n) >= Half
  BY <1>1, <1>2, <1>4, <1>5, HalfFacts
<1>. QED  BY <1>1, <1>5, <1>6, <1>7, <1>8 DEF k, p, l

(* Moving n bytes at one side.                                             *)
LEMMA MoveFacts ==
  ASSUME TypeInv, NEW s \in Side, InLoop(s), NEW n \in 1 .. Asked(s), Asked(s) > 0,
         pos' = [pos EXCEPT ![s] = Advance(@, n)], lens' = lens, msg' = msg
  PROVE  /\ pos' \in [Side -> 0 .. (SizeMod - 1)]
         /\ pos'[s] = pos[s] + n
         /\ \A t \in Side \ {s} : pos'[t] = pos[t]
         /\ Moved(s)' = Moved(s) + n
         /\ \A t \in Side \ {s} : Moved(t)' = Moved(t)
<1>1. /\ pos \in [Side -> 0 .. (SizeMod - 1)]
      /\ Advance(pos[s], n) = pos[s] + n /\ pos[s] + n \in 0 .. (SizeMod - 1)
      /\ n \in Nat /\ pos[s] \in Nat
  BY CallFacts DEF TypeInv
<1>2. pos' = [pos EXCEPT ![s] = pos[s] + n]
  BY <1>1
<1> DEFINE y == pos[s] + n
<1>3. /\ pos' \in [Side -> 0 .. (SizeMod - 1)] /\ pos'[s] = y
      /\ \A t \in Side \ {s} : pos'[t] = pos[t]
  <2> HIDE DEF y
  <2>1. y \in 0 .. (SizeMod - 1) /\ pos' = [pos EXCEPT ![s] = y]
    BY <1>1, <1>2 DEF y
  <2>. QED  BY <1>1, <2>1
<1>4. Total' = Total
  BY TotalSame
<1>5. \A t \in Side : Moved(t)' = Total[msg[t] - 1] + pos'[t]
  BY <1>4 DEF Moved
<1>6. Total[msg[s] - 1] \in Nat
  BY MovedFacts
<1>7. Moved(s)' = Moved(s) + n
  BY <1>1, <1>3, <1>5, <1>6 DEF Moved
<1>. QED  BY <1>3, <1>5, <1>7 DEF Moved

(* A sequence given place by place, and one sequence after another.        *)
LEMMA BlockFacts ==
  ASSUME NEW S, NEW n \in Nat, NEW f, NEW b, b = [i \in 1 .. n |-> f[i]],
         \A i \in 1 .. n : f[i] \in S
  PROVE  b \in Seq(S) /\ Len(b) = n
OBVIOUS

LEMMA AppendFacts ==
  ASSUME NEW S, NEW a \in Seq(S), NEW b \in Seq(S)
  PROVE  /\ a \o b \in Seq(S) /\ Len(a \o b) = Len(a) + Len(b)
         /\ \A j \in 1 .. Len(a) : (a \o b)[j] = a[j]
         /\ \A j \in 1 .. Len(b) : (a \o b)[Len(a) + j] = b[j]
<1>1. /\ a \o b \in Seq(S) /\ Len(a \o b) = Len(a) + Len(b)
      /\ \A j \in 1 .. Len(a) : (a \o b)[j] = a[j]
  OBVIOUS
<1>2. ASSUME NEW j \in 1 .. Len(b) PROVE (a \o b)[Len(a) + j] = b[j]
  <2>1. Len(a) + j \in 1 .. (Len(a) + Len(b)) /\ (Len(a) + j) - Len(a) = j /\ Len(a) + j > Len(a)
    OBVIOUS
  <2>. QED  BY <2>1
<1>. QED  BY <1>1, <1>2

(* WriteSome puts the next bytes of its message at the end of the pipe.        *)
LEMMA WriteKeeps ==
  ASSUME TransferInv, WriteSome
  PROVE  TransferInv'
<1> DEFINE k == msg["send"]
           p == pos["send"]
<1>0. /\ TypeInv /\ CountsInv /\ LongInv /\ StreamInv /\ BufferInv
      /\ "send" \in Side /\ "recv" \in Side \ {"send"}
  BY DEF TransferInv, Side
<1>1. PICK n \in 1 .. Asked("send") : /\ pipe' = pipe \o BytesFrom(k, p, n)
                                     /\ pos' = [pos EXCEPT !["send"] = Advance(@, n)]
  BY DEF WriteSome
<1>2. /\ InLoop("send") /\ Asked("send") > 0 /\ UNCHANGED <<lens, msg, state, buffer, failed>>
  BY DEF WriteSome
<1>3. /\ k \in 1 .. Len(lens) /\ n \in Nat /\ n >= 1 /\ p \in Nat /\ lens[k] \in Nat
      /\ p + n <= lens[k]
      /\ lens[k] - p >= Half => lens[k] - (p + n) >= Half
  BY <1>0, <1>2, CallFacts
<1>4. /\ pos' \in [Side -> 0 .. (SizeMod - 1)]
      /\ pos'["send"] = p + n /\ pos'["recv"] = pos["recv"]
      /\ Moved("send")' = Moved("send") + n /\ Moved("recv")' = Moved("recv")
  BY <1>0, <1>1, <1>2, MoveFacts
<1>5. /\ Len(lens) \in Nat /\ \A m \in 1 .. Len(lens) : lens[m] \in Nat
      /\ msg["recv"] \in Nat /\ msg["recv"] >= 1
      /\ Moved("send") = Total[k - 1] + p /\ Moved("recv") \in Nat /\ Total[k - 1] \in Nat
  BY <1>0, SideFacts, LensFacts, MovedFacts DEF TypeInv
<1> HIDE DEF k, p
<1>6. /\ pipe' \in Seq(Byte) /\ pipe \in Seq(Byte)
      /\ Len(pipe) \in Nat /\ Len(pipe') = Len(pipe) + n
      /\ \A j \in 1 .. Len(pipe) : pipe'[j] = pipe[j]
      /\ \A j \in 1 .. n : pipe'[Len(pipe) + j] = <<k, p + j>>
  <2> DEFINE b == BytesFrom(k, p, n)
  <2>1. b = [i \in 1 .. n |-> <<k, p + i>>]
    BY DEF BytesFrom
  <2>2. ASSUME NEW i \in 1 .. n PROVE <<k, p + i>> \in Byte
    <3>1. k \in Nat /\ p + i \in Nat
      BY <1>3, <1>5
    <3>. QED  BY <3>1 DEF Byte
  <2>3. b \in Seq(Byte) /\ Len(b) = n
    <3>1. n \in Nat /\ b = [i \in 1 .. n |-> b[i]] /\ \A i \in 1 .. n : b[i] \in Byte
      BY <1>3, <2>1, <2>2
    <3> HIDE DEF b
    <3>. QED  BY <3>1, BlockFacts
  <2>4. pipe \in Seq(Byte)
    BY <1>0 DEF TypeInv
  <2>5. pipe' = pipe \o b
    BY <1>1
  <2>6. \A j \in 1 .. n : b[j] = <<k, p + j>>
    BY <2>1
  <2> HIDE DEF b
  <2>7. /\ pipe \o b \in Seq(Byte) /\ Len(pipe \o b) = Len(pipe) + Len(b)
        /\ \A j \in 1 .. Len(pipe) : (pipe \o b)[j] = pipe[j]
        /\ \A j \in 1 .. Len(b) : (pipe \o b)[Len(pipe) + j] = b[j]
    <3>1. b \in Seq(Byte)
      BY <2>3
    <3>2. \A x \in Seq(Byte), y \in Seq(Byte) :
            /\ x \o y \in Seq(Byte) /\ Len(x \o y) = Len(x) + Len(y)
            /\ \A j \in 1 .. Len(x) : (x \o y)[j] = x[j]
            /\ \A j \in 1 .. Len(y) : (x \o y)[Len(x) + j] = y[j]
      BY AppendFacts
    <3>. QED  BY <2>4, <3>1, <3>2, Zenon
  <2>8. Len(pipe) \in Nat
    BY <2>4
  <2> DEFINE q == pipe \o b
  <2>9. pipe' = q /\ q \in Seq(Byte) /\ Len(q) = Len(pipe) + n
    BY <2>3, <2>5, <2>7
  <2>10. \A j \in 1 .. Len(pipe) : q[j] = pipe[j]
    BY <2>7
  <2>11. \A j \in 1 .. n : q[Len(pipe) + j] = <<k, p + j>>
    BY <2>3, <2>6, <2>7
  <2> HIDE DEF q
  <2>. QED  BY <2>4, <2>8, <2>9, <2>10, <2>11
<1>7. TypeInv'
  BY <1>0, <1>2, <1>4, <1>6 DEF TypeInv
<1>8. CountsInv'
  <2> SUFFICES ASSUME NEW t \in Side
               PROVE  /\ msg[t] = Len(lens) + 1 => pos'[t] = 0
                      /\ msg[t] <= Len(lens) /\ failed[t][msg[t]] = 0 =>
                           pos'[t] <= lens[msg[t]]
    BY <1>2 DEF CountsInv
  <2>1. CASE t = "send"
    <3>1. msg[t] = k /\ k # Len(lens) + 1 /\ pos'[t] = p + n
      BY <1>3, <1>4, <1>5, <2>1 DEF k
    <3>. QED  BY <1>3, <3>1
  <2>2. CASE t # "send"
    BY <1>0, <1>4, <2>2 DEF CountsInv, Side
  <2>. QED  BY <2>1, <2>2
<1>9. LongInv'
  <2> SUFFICES ASSUME NEW m \in 1 .. Len(lens), lens[m] >= Half, failed["send"][m] = 0
               PROVE  /\ k <= m
                      /\ k = m => lens[m] - pos'["send"] >= Half
    BY <1>2 DEF LongInv, k
  <2>1. k <= m /\ (k = m => lens[m] - p >= Half)
    BY <1>0 DEF LongInv, k, p
  <2>. QED  BY <1>3, <1>4, <2>1
<1>10. \A t, m : QuietNext(t, m) <=> QuietTo(t, m)
  BY <1>2 DEF QuietTo, QuietNext
<1>11. StreamInv'
  <2> SUFFICES ASSUME QuietTo("recv", msg["recv"])
               PROVE  /\ QuietTo("send", k) => Moved("recv") + Len(pipe') = Moved("send") + n
                      /\ \A m \in 1 .. Len(lens) : QuietTo("send", m) =>
                           \A i \in 1 .. lens[m] :
                             /\ m < k \/ (m = k /\ i <= p + n)
                             /\ Total[m - 1] + i > Moved("recv")
                             => /\ Total[m - 1] + i - Moved("recv") \in 1 .. Len(pipe')
                                /\ pipe'[Total[m - 1] + i - Moved("recv")] = <<m, i>>
    BY <1>2, <1>4, <1>10, StreamNext DEF k
  <2>1. /\ QuietTo("send", k) => Moved("recv") + Len(pipe) = Moved("send")
        /\ \A m \in 1 .. Len(lens) : QuietTo("send", m) =>
             \A i \in 1 .. lens[m] :
               Sent(m, i) /\ Total[m - 1] + i > Moved("recv") =>
                 /\ Total[m - 1] + i - Moved("recv") \in 1 .. Len(pipe)
                 /\ pipe[Total[m - 1] + i - Moved("recv")] = <<m, i>>
    BY <1>0 DEF StreamInv, k
  <2>2. QuietTo("send", k) => Moved("recv") + Len(pipe') = Moved("send") + n
    BY <1>3, <1>5, <1>6, <2>1
  <2>3. ASSUME NEW m \in 1 .. Len(lens), QuietTo("send", m), NEW i \in 1 .. lens[m],
               m < k \/ (m = k /\ i <= p + n), Total[m - 1] + i > Moved("recv")
        PROVE  /\ Total[m - 1] + i - Moved("recv") \in 1 .. Len(pipe')
               /\ pipe'[Total[m - 1] + i - Moved("recv")] = <<m, i>>
    <3>1. CASE Sent(m, i)
      <4> DEFINE j == Total[m - 1] + i - Moved("recv")
      <4>1. j \in 1 .. Len(pipe) /\ pipe[j] = <<m, i>>
        BY <2>1, <2>3, <3>1
      <4> HIDE DEF j
      <4>2. pipe'[j] = <<m, i>>
        BY <1>6, <4>1
      <4>3. j \in 1 .. Len(pipe')
        <5> DEFINE l == Len(pipe)
        <5>1. l \in Nat /\ n \in Nat /\ Len(pipe') = l + n /\ j \in 1 .. l
          BY <1>3, <1>6, <4>1
        <5> HIDE DEF l
        <5>. QED  BY <5>1
      <4>. QED  BY <4>2, <4>3 DEF j
    <3>2. CASE ~ Sent(m, i)
      <4>1. m = k /\ ~ (i <= p) /\ i <= p + n /\ i \in Nat
        BY <1>5, <2>3, <3>2 DEF Sent, k, p
      <4>2. i - p \in 1 .. n /\ p + (i - p) = i
        BY <1>3, <4>1
      <4>3. Moved("recv") + Len(pipe) = Total[k - 1] + p
        BY <1>5, <2>1, <2>3, <4>1
      <4>4. Total[m - 1] + i - Moved("recv") = Len(pipe) + (i - p)
        <5> DEFINE t == Total[k - 1]
                   r == Moved("recv")
                   l == Len(pipe)
        <5>1. t \in Nat /\ r \in Nat /\ l \in Nat /\ r + l = t + p /\ p \in Nat /\ i \in Nat
          BY <1>3, <1>5, <1>6, <4>1, <4>3
        <5> HIDE DEF t, r, l
        <5>2. t + i - r = l + (i - p)
          BY <5>1
        <5>3. Total[m - 1] = t
          BY <4>1 DEF t
        <5>. QED  BY <5>2, <5>3 DEF r, l
      <4>5. Len(pipe) + (i - p) \in 1 .. Len(pipe')
        <5> DEFINE l == Len(pipe)
                   j == i - p
        <5>1. l \in Nat /\ Len(pipe') = l + n /\ j \in 1 .. n /\ n \in Nat
          BY <1>3, <1>6, <4>2
        <5> HIDE DEF l, j
        <5>2. l + j \in 1 .. (l + n)
          BY <5>1
        <5>. QED  BY <5>1, <5>2 DEF l, j
      <4>6. pipe'[Len(pipe) + (i - p)] = <<k, p + (i - p)>>
        BY <1>6, <4>2
      <4>. QED  BY <4>1, <4>2, <4>4, <4>5, <4>6
    <3>. QED  BY <3>1, <3>2
  <2>. QED  BY <2>2, <2>3
<1>12. BufferInv'
  BY <1>0, <1>2, <1>4 DEF BufferInv, QuietTo
<1>. QED  BY <1>7, <1>8, <1>9, <1>11, <1>12 DEF TransferInv

(* A read takes the first n bytes of the pipe.                             *)
LEMMA TakeFacts ==
  ASSUME NEW S, NEW a \in Seq(S), NEW n \in Nat, n <= Len(a)
  PROVE  /\ SubSeq(a, n + 1, Len(a)) \in Seq(S)
         /\ Len(SubSeq(a, n + 1, Len(a))) = Len(a) - n
         /\ \A j \in 1 .. (Len(a) - n) : SubSeq(a, n + 1, Len(a))[j] = a[n + j]
OBVIOUS

LEMMA ReadFacts ==
  ASSUME TypeInv, NEW n \in 1 .. Asked("recv"), Asked("recv") > 0, InLoop("recv"),
         n <= Len(pipe),
         buffer' = [buffer EXCEPT ![msg["recv"]] =
            [i \in DOMAIN @ |-> IF i \in pos["recv"] + 1 .. pos["recv"] + n
                                THEN pipe[i - pos["recv"]] ELSE @[i]]],
         pipe' = SubSeq(pipe, n + 1, Len(pipe))
  PROVE  LET k == msg["recv"]  p == pos["recv"] IN
         /\ pipe \in Seq(Byte) /\ pipe' \in Seq(Byte)
         /\ Len(pipe) \in Nat /\ Len(pipe') = Len(pipe) - n
         /\ \A j \in 1 .. Len(pipe') : pipe'[j] = pipe[n + j]
         /\ DOMAIN buffer' = 1 .. Len(lens)
         /\ buffer' = [m \in 1 .. Len(lens) |-> buffer'[m]]
         /\ \A m \in 1 .. Len(lens) : buffer'[m] = [i \in 1 .. lens[m] |-> buffer'[m][i]]
         /\ \A m \in 1 .. Len(lens) : m # k => buffer'[m] = buffer[m]
         /\ \A i \in 1 .. lens[k] :
              buffer'[k][i] = IF p < i /\ i <= p + n THEN pipe[i - p] ELSE buffer[k][i]
<1> DEFINE k == msg["recv"]
           p == pos["recv"]
<1>1. /\ k \in 1 .. Len(lens) /\ n \in Nat /\ n >= 1 /\ p \in Nat /\ lens[k] \in Nat
  BY CallFacts DEF Side
<1>2. pipe \in Seq(Byte)
  BY DEF TypeInv
<1>3. Len(pipe) \in Nat
  BY <1>2
<1>4. /\ pipe' \in Seq(Byte) /\ Len(pipe') = Len(pipe) - n
      /\ \A j \in 1 .. (Len(pipe) - n) : pipe'[j] = pipe[n + j]
  BY <1>1, <1>2, TakeFacts
<1>5. /\ DOMAIN buffer = 1 .. Len(lens)
      /\ buffer = [m \in 1 .. Len(lens) |-> buffer[m]]
      /\ \A m \in 1 .. Len(lens) : buffer[m] = [i \in 1 .. lens[m] |-> buffer[m][i]]
  BY DEF TypeInv
<1> DEFINE b == [i \in 1 .. lens[k] |-> IF i \in p + 1 .. p + n
                                        THEN pipe[i - p] ELSE buffer[k][i]]
<1>6. DOMAIN buffer[k] = 1 .. lens[k]
  BY <1>1, <1>5
<1>7. buffer' = [buffer EXCEPT ![k] = b]
  BY <1>6
<1>8. \A i \in 1 .. lens[k] : b[i] = IF p < i /\ i <= p + n THEN pipe[i - p] ELSE buffer[k][i]
  BY <1>1
<1>9. b = [i \in 1 .. lens[k] |-> b[i]]
  OBVIOUS
<1> HIDE DEF b, k, p
<1>10. /\ DOMAIN buffer' = 1 .. Len(lens) /\ buffer' = [m \in 1 .. Len(lens) |-> buffer'[m]]
       /\ buffer'[k] = b /\ \A m \in 1 .. Len(lens) : m # k => buffer'[m] = buffer[m]
  BY <1>1, <1>5, <1>7
<1>11. \A m \in 1 .. Len(lens) : buffer'[m] = [i \in 1 .. lens[m] |-> buffer'[m][i]]
  <2> SUFFICES ASSUME NEW m \in 1 .. Len(lens)
               PROVE  buffer'[m] = [i \in 1 .. lens[m] |-> buffer'[m][i]]
    OBVIOUS
  <2>1. CASE m = k
    BY <1>9, <1>10, <2>1, Zenon
  <2>2. CASE m # k
    <3>1. buffer'[m] = buffer[m]
      BY <1>10, <2>2
    <3>2. buffer[m] = [i \in 1 .. lens[m] |-> buffer[m][i]]
      BY <1>5
    <3>. QED  BY <3>1, <3>2, Zenon
  <2>. QED  BY <2>1, <2>2
<1>12. \A j \in 1 .. Len(pipe') : pipe'[j] = pipe[n + j]
  BY <1>4
<1>. QED  BY <1>2, <1>3, <1>4, <1>8, <1>10, <1>11, <1>12 DEF k, p

(* ReadSome moves every byte under way n places on, and what it has put in the *)
(* buffer is what the sender put in at that place.                         *)
LEMMA ReadKeeps ==
  ASSUME TransferInv, ReadSome
  PROVE  TransferInv'
<1> DEFINE k == msg["recv"]
           p == pos["recv"]
           h == msg["send"]
<1>0. /\ TypeInv /\ CountsInv /\ LongInv /\ StreamInv /\ BufferInv
      /\ "recv" \in Side /\ "send" \in Side \ {"recv"}
  BY DEF TransferInv, Side
<1>1. PICK n \in 1 .. Asked("recv") :
        /\ n <= Len(pipe)
        /\ buffer' = [buffer EXCEPT ![msg["recv"]] =
             [i \in DOMAIN @ |-> IF i \in pos["recv"] + 1 .. pos["recv"] + n
                                 THEN pipe[i - pos["recv"]] ELSE @[i]]]
        /\ pipe' = SubSeq(pipe, n + 1, Len(pipe))
        /\ pos' = [pos EXCEPT !["recv"] = Advance(@, n)]
  BY DEF ReadSome
<1>2. /\ InLoop("recv") /\ Asked("recv") > 0 /\ UNCHANGED <<lens, msg, state, failed>>
  BY DEF ReadSome
<1>3. /\ k \in 1 .. Len(lens) /\ n \in Nat /\ n >= 1 /\ p \in Nat /\ lens[k] \in Nat
      /\ p + n <= lens[k]
  BY <1>0, <1>2, CallFacts
<1>4. /\ pos' \in [Side -> 0 .. (SizeMod - 1)]
      /\ pos'["recv"] = p + n /\ pos'["send"] = pos["send"]
      /\ Moved("recv")' = Moved("recv") + n /\ Moved("send")' = Moved("send")
  BY <1>0, <1>1, <1>2, MoveFacts
<1>5. /\ lens \in Messages /\ Len(lens) \in Nat /\ \A m \in 1 .. Len(lens) : lens[m] \in Nat
      /\ h \in Nat /\ h >= 1 /\ h <= Len(lens) + 1 /\ pos["send"] \in Nat
      /\ Moved("recv") = Total[k - 1] + p /\ Moved("recv") \in Nat /\ Total[k - 1] \in Nat
      /\ Moved("send") = Total[h - 1] + pos["send"] /\ Moved("send") \in Nat
      /\ Total[h - 1] \in Nat
  BY <1>0, SideFacts, LensFacts, MovedFacts DEF TypeInv
<1>6. /\ pipe \in Seq(Byte) /\ pipe' \in Seq(Byte)
      /\ Len(pipe) \in Nat /\ Len(pipe') = Len(pipe) - n
      /\ \A j \in 1 .. Len(pipe') : pipe'[j] = pipe[n + j]
      /\ DOMAIN buffer' = 1 .. Len(lens)
      /\ buffer' = [m \in 1 .. Len(lens) |-> buffer'[m]]
      /\ \A m \in 1 .. Len(lens) : buffer'[m] = [i \in 1 .. lens[m] |-> buffer'[m][i]]
      /\ \A m \in 1 .. Len(lens) : m # k => buffer'[m] = buffer[m]
      /\ \A i \in 1 .. lens[k] :
           buffer'[k][i] = IF p < i /\ i <= p + n THEN pipe[i - p] ELSE buffer[k][i]
  BY <1>0, <1>1, <1>2, ReadFacts
<1> HIDE DEF k, p, h
<1>7. TypeInv'
  BY <1>0, <1>2, <1>4, <1>6 DEF TypeInv
<1>8. CountsInv'
  <2> SUFFICES ASSUME NEW t \in Side
               PROVE  /\ msg[t] = Len(lens) + 1 => pos'[t] = 0
                      /\ msg[t] <= Len(lens) /\ failed[t][msg[t]] = 0 =>
                           pos'[t] <= lens[msg[t]]
    BY <1>2 DEF CountsInv
  <2>1. CASE t = "recv"
    <3>1. k # Len(lens) + 1
      BY <1>3, <1>5
    <3>2. pos'[t] <= lens[k]
      BY <1>3, <1>4, <2>1
    <3>. QED  BY <2>1, <3>1, <3>2 DEF k
  <2>2. CASE t # "recv"
    BY <1>0, <1>4, <2>2 DEF CountsInv, Side
  <2>. QED  BY <2>1, <2>2
<1>9. LongInv'
  BY <1>0, <1>2, <1>4 DEF LongInv
<1>10. \A t, m : QuietNext(t, m) <=> QuietTo(t, m)
  BY <1>2 DEF QuietTo, QuietNext
<1>11. StreamInv'
  <2> SUFFICES ASSUME QuietTo("recv", k)
               PROVE  /\ QuietTo("send", h) =>
                           Moved("recv") + n + Len(pipe') = Moved("send")
                      /\ \A m \in 1 .. Len(lens) : QuietTo("send", m) =>
                           \A i \in 1 .. lens[m] :
                             /\ m < h \/ (m = h /\ i <= pos["send"])
                             /\ Total[m - 1] + i > Moved("recv") + n
                             => /\ Total[m - 1] + i - (Moved("recv") + n) \in 1 .. Len(pipe')
                                /\ pipe'[Total[m - 1] + i - (Moved("recv") + n)] = <<m, i>>
    BY <1>2, <1>4, <1>10, StreamNext DEF k, h
  <2>1. /\ QuietTo("send", h) => Moved("recv") + Len(pipe) = Moved("send")
        /\ \A m \in 1 .. Len(lens) : QuietTo("send", m) =>
             \A i \in 1 .. lens[m] :
               Sent(m, i) /\ Total[m - 1] + i > Moved("recv") =>
                 /\ Total[m - 1] + i - Moved("recv") \in 1 .. Len(pipe)
                 /\ pipe[Total[m - 1] + i - Moved("recv")] = <<m, i>>
    BY <1>0 DEF StreamInv, k, h
  <2>2. QuietTo("send", h) => Moved("recv") + n + Len(pipe') = Moved("send")
    BY <1>3, <1>5, <1>6, <2>1
  <2>3. ASSUME NEW m \in 1 .. Len(lens), QuietTo("send", m), NEW i \in 1 .. lens[m],
               m < h \/ (m = h /\ i <= pos["send"]), Total[m - 1] + i > Moved("recv") + n
        PROVE  /\ Total[m - 1] + i - (Moved("recv") + n) \in 1 .. Len(pipe')
               /\ pipe'[Total[m - 1] + i - (Moved("recv") + n)] = <<m, i>>
    <3> DEFINE x == Total[m - 1] + i
               r == Moved("recv")
               l == Len(pipe)
    <3>1. /\ Total[m - 1] \in Nat /\ i \in Nat
      BY <1>5, TotalFacts
    <3>2. x \in Nat /\ r \in Nat /\ l \in Nat /\ x > r + n
      <4>1. x \in Nat
        BY <3>1
      <4>. QED  BY <1>5, <1>6, <2>3, <4>1
    <3>3. x > r
      <4> HIDE DEF x, r
      <4>. QED  BY <1>3, <3>2
    <3>4. x - r \in 1 .. l /\ pipe[x - r] = <<m, i>>
      <4>1. Sent(m, i)
        BY <2>3 DEF Sent, h
      <4>2. Total[m - 1] + i > Moved("recv")
        BY <3>3
      <4>3. /\ Total[m - 1] + i - Moved("recv") \in 1 .. Len(pipe)
            /\ pipe[Total[m - 1] + i - Moved("recv")] = <<m, i>>
        BY <2>1, <2>3, <4>1, <4>2
      <4>4. Total[m - 1] + i - Moved("recv") = x - r
        <5> DEFINE t == Total[m - 1]
        <5>1. t \in Nat /\ i \in Nat /\ r \in Nat
          BY <1>5, <3>1
        <5> HIDE DEF t, r
        <5>2. t + i - r = (t + i) - r
          BY <5>1
        <5>. QED  BY <5>2 DEF t, r
      <4>. QED  BY <4>3, <4>4
    <3>5. Total[m - 1] + i - (Moved("recv") + n) = x - (r + n)
      <4> DEFINE t == Total[m - 1]
      <4>1. t \in Nat /\ i \in Nat /\ r \in Nat /\ n \in Nat
        BY <1>3, <1>5, <3>1
      <4> HIDE DEF t, r
      <4>2. t + i - (r + n) = (t + i) - (r + n)
        BY <4>1
      <4>. QED  BY <4>2 DEF t, r
    <3> HIDE DEF x, r, l
    <3>6. x - (r + n) \in 1 .. (l - n) /\ n + (x - (r + n)) = x - r
      BY <1>3, <3>2, <3>4
    <3>7. Len(pipe') = l - n
      BY <1>6 DEF l
    <3>8. pipe'[x - (r + n)] = pipe[n + (x - (r + n))]
      BY <1>6, <3>6, <3>7
    <3>9. x - (r + n) \in 1 .. Len(pipe') /\ pipe'[x - (r + n)] = <<m, i>>
      BY <3>4, <3>6, <3>7, <3>8
    <3>. QED  BY <3>9, <3>5
  <2>. QED  BY <2>2, <2>3
<1>12. BufferInv'
  <2> SUFFICES ASSUME NEW m \in 1 .. Len(lens), QuietTo("send", m), QuietTo("recv", m),
                      NEW i \in 1 .. lens[m],
                      m < k \/ (m = k /\ i <= p + n)
               PROVE  buffer'[m][i] = <<m, i>>
    BY <1>2, <1>4 DEF BufferInv, QuietTo, k
  <2>1. m < k \/ (m = k /\ i <= p) => buffer[m][i] = <<m, i>>
    BY <1>0 DEF BufferInv, k, p
  <2>2. CASE m < k \/ (m = k /\ i <= p)
    <3>1. m \in Nat /\ k \in Nat /\ i \in Nat
      BY <1>3, <1>5
    <3>2. m # k => buffer'[m][i] = buffer[m][i]
      BY <1>6
    <3>3. m = k => buffer'[m][i] = buffer[m][i]
      BY <1>3, <1>6, <2>2, <3>1
    <3>. QED  BY <2>1, <2>2, <3>2, <3>3
  <2>3. CASE m = k /\ p < i /\ i <= p + n
    <3> DEFINE j == i - p
    <3>1. i \in Nat /\ j \in 1 .. n /\ i = p + j
      BY <1>3, <1>5, <2>3
    <3>2. buffer'[m][i] = pipe[j]
      BY <1>6, <2>3
    <3>3. QuietTo("recv", msg["recv"])
      BY <2>3 DEF k
    <3>4. /\ QuietTo("send", h) => Moved("recv") + Len(pipe) = Moved("send")
          /\ Sent(k, i) /\ Total[k - 1] + i > Moved("recv") =>
               pipe[Total[k - 1] + i - Moved("recv")] = <<k, i>>
      BY <1>0, <1>3, <2>3, <3>3 DEF StreamInv, h
    <3> HIDE DEF j
    <3>5. Total[k - 1] + i > Moved("recv") /\ Total[k - 1] + i - Moved("recv") = j
      <4> DEFINE t == Total[k - 1]
                 r == Moved("recv")
      <4>1. t \in Nat /\ r = t + p
        BY <1>5
      <4>2. p \in Nat /\ j \in Nat /\ j >= 1 /\ i = p + j
        BY <1>3, <3>1
      <4> HIDE DEF t, r
      <4>3. t + i > r /\ t + i - r = j
        BY <4>1, <4>2
      <4>. QED  BY <4>3 DEF t, r
    <3>6. Sent(k, i)
      <4>1. CASE k < h
        BY <4>1 DEF Sent, h
      <4>2. CASE h <= k
        <5>1. QuietTo("send", h)
          BY <1>3, <1>5, <2>3, <4>2 DEF QuietTo
        <5> DEFINE t == Total[k - 1]
                   u == Total[h - 1]
                   q == pos["send"]
                   l == Len(pipe)
        <5>2. /\ t \in Nat /\ u \in Nat /\ q \in Nat /\ l \in Nat
              /\ t + p + l = u + q /\ l >= n
          BY <1>1, <1>5, <1>6, <3>4, <5>1
        <5>3. h < k => u + lens[h] <= t /\ q <= lens[h] /\ lens[h] \in Nat
          <6> SUFFICES ASSUME h < k PROVE u + lens[h] <= t /\ q <= lens[h] /\ lens[h] \in Nat
            OBVIOUS
          <6>1. h \in 1 .. Len(lens) /\ h \in 0 .. Len(lens) /\ k - 1 \in 0 .. Len(lens) /\ h <= k - 1
            <7>1. k \in Nat /\ k <= Len(lens) /\ h \in Nat /\ h >= 1 /\ Len(lens) \in Nat
              BY <1>3, <1>5
            <7>. QED  BY <7>1
          <6>2. Total[h] = u + lens[h] /\ Total[h] <= t
            BY <1>5, <6>1, TotalFacts
          <6>3. failed["send"][h] = 0
            BY <5>1, <6>1 DEF QuietTo
          <6>4. q <= lens[h]
            BY <1>0, <6>1, <6>3 DEF CountsInv, h
          <6>. QED  BY <1>5, <6>1, <6>2, <6>4
        <5> HIDE DEF t, u, q, l
        <5>4. ~ (h < k)
          <6> SUFFICES ASSUME h < k PROVE FALSE
            OBVIOUS
          <6> DEFINE y == lens[h]
          <6>1. y \in Nat /\ u + y <= t /\ q <= y
            BY <5>3
          <6> HIDE DEF y
          <6>. QED  BY <1>3, <5>2, <6>1
        <5>5. h = k
          BY <1>3, <1>5, <4>2, <5>4
        <5>6. t = u
          BY <5>5 DEF t, u
        <5>7. i <= q
          BY <1>3, <2>3, <3>1, <5>2, <5>6
        <5>. QED  BY <5>5, <5>7 DEF Sent, h, q
      <4>. QED  BY <1>3, <1>5, <4>1, <4>2
    <3>. QED  BY <2>3, <3>2, <3>4, <3>5, <3>6
  <2>4. p \in Nat /\ n \in Nat /\ i \in Nat
    BY <1>3, <1>5
  <2>. QED  BY <2>2, <2>3, <2>4
<1>. QED  BY <1>7, <1>8, <1>9, <1>11, <1>12 DEF TransferInv

(* The invariant is inductive.                                             *)
LEMMA NextKeeps ==
  ASSUME TransferInv, [TransferNext]_transferVars
  PROVE  TransferInv'
<1>1. CASE UNCHANGED transferVars
  <2>1. UNCHANGED <<lens, msg, pos, pipe, buffer, failed>> /\ state' = state
    BY <1>1 DEF transferVars
  <2>2. state' \in [Side -> {"runs", "exited", "finished"}]
    BY <2>1 DEF TransferInv, TypeInv
  <2>. QED  BY <2>1, <2>2, StateOnly
<1>2. ASSUME NEW s \in Side, LoopStep(s) PROVE TransferInv'
  BY <1>2, WriteKeeps, ReadKeeps, FailKeeps, ErrorKeeps, ReturnKeeps, FinishKeeps DEF LoopStep
<1>. QED  BY <1>1, <1>2 DEF TransferNext
-----------------------------------------------------------------------------
(* While no call has failed, the bytes between two processes arrive in     *)
(* order and without loss, however send_data_internal and                  *)
(* recv_data_internal are cut into calls of the library.                   *)
THEOREM TransferHolds == TransferSpec => []TransferInv
<1>1. TransferInit => TransferInv
  BY InitTransfer
<1>2. TransferInv /\ [TransferNext]_transferVars => TransferInv'
  BY NextKeeps
<1>. QED  BY <1>1, <1>2, PTL DEF TransferSpec

(* A message both ends have returned from is in the receiver's memory byte *)
(* by byte, unless a call of TLSNetIO failed on the way to it.             *)
THEOREM Complete == TransferSpec => []CompleteUnlessFailed
<1>1. TransferInv => CompleteUnlessFailed
  <2> SUFFICES ASSUME TransferInv, NEW m \in Returned("recv"),
                      NoFailure("send", m), NoFailure("recv", m), NEW i \in 1 .. lens[m]
               PROVE  buffer[m][i] = <<m, i>>
    BY DEF CompleteUnlessFailed
  <2>1. /\ TypeInv /\ "recv" \in Side /\ BufferInv
    BY DEF TransferInv, Side
  <2>2. /\ Len(lens) \in Nat /\ msg["recv"] \in Nat /\ msg["recv"] >= 1
        /\ msg["recv"] <= Len(lens) + 1
    BY <2>1, SideFacts
  <2>3. m \in 1 .. Len(lens) /\ m < msg["recv"]
    BY <2>2 DEF Returned
  <2>4. QuietTo("send", m) /\ QuietTo("recv", m)
    BY <2>3 DEF NoFailure, QuietTo
  <2>. QED  BY <2>1, <2>3, <2>4 DEF BufferInv
<1>. QED  BY <1>1, TransferHolds, PTL

(* send_data_internal does not return from a message too long for the int  *)
(* BIO_write takes, unless a call of it failed.                            *)
THEOREM LongEnds == TransferSpec => []TooLongEndsProcess
<1>1. TransferInv => TooLongEndsProcess
  <2> SUFFICES ASSUME TransferInv, NEW m \in Returned("send"), lens[m] >= Half
               PROVE  failed["send"][m] > 0
    BY DEF TooLongEndsProcess, Half
  <2>1. TypeInv /\ LongInv /\ "send" \in Side
    BY DEF TransferInv, Side
  <2>2. /\ Len(lens) \in Nat /\ msg["send"] \in Nat /\ msg["send"] >= 1
        /\ msg["send"] <= Len(lens) + 1
    BY <2>1, SideFacts
  <2>3. m \in 1 .. Len(lens) /\ ~ (msg["send"] <= m)
    BY <2>2 DEF Returned
  <2>4. failed["send"][m] \in Nat
    BY <2>1, <2>3 DEF TypeInv
  <2>5. failed["send"][m] # 0
    BY <2>1, <2>3 DEF LongInv
  <2>. QED  BY <2>4, <2>5
<1>. QED  BY <1>1, TransferHolds, PTL
=============================================================================
