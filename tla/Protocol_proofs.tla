-------------------------- MODULE Protocol_proofs --------------------------
(***************************************************************************)
(* Proofs about module Protocol, whose preprocessing is module Offline and *)
(* whose evaluation is module Online: what the one leaves is what the      *)
(* other takes for granted.  The theorems of Offline_proofs are used as    *)
(* an instance (P), after its operators are shown to be those that         *)
(* Protocol runs (Off) and its assumptions to follow from Protocol's.      *)
(* Then every step of a program that runs once is a step of the            *)
(* preprocessing or leaves its state alone.                                *)
(***************************************************************************)
EXTENDS Protocol, Facts

P == INSTANCE Offline_proofs WITH
  Circuits <- {Flat(c) : c \in Circuits}, tape <- random, pc <- opc

(* Vectors, permutations and tables.                                       *)
LEMMA SameVectors ==
  ASSUME NEW c, NEW e, NEW f, NEW k, NEW n, NEW p, NEW s
  PROVE  /\ Off!RandomPerm(s, k, n) = P!RandomPerm(s, k, n)
         /\ Off!InverseOf(f, n) = P!InverseOf(f, n)
         /\ Off!Popped(s, k, n) = P!Popped(s, k, n)
         /\ Off!Pushed(f, n) = P!Pushed(f, n)
         /\ Off!Masks(p, c, n) = P!Masks(p, c, n)
         /\ Off!Draw(p, c, k, n) = P!Draw(p, c, k, n)
         /\ Off!Composed(e, n) = P!Composed(e, n)
         /\ Off!NewPerm(f, n) = P!NewPerm(f, n)
         /\ Off!SetEntry(f, n, e) = P!SetEntry(f, n, e)
         /\ Off!Grown(f, n) = P!Grown(f, n)
<1>1. Off!RandomPerm(s, k, n) = P!RandomPerm(s, k, n)
  BY DEF Off!Idx, P!Idx, Off!Word, P!Word, Off!Swap, P!Swap, Off!RandomPerm,
      P!RandomPerm
<1>2. Off!InverseOf(f, n) = P!InverseOf(f, n)
  BY DEF Off!Idx, P!Idx, Off!InverseOf, P!InverseOf
<1>3. Off!Popped(s, k, n) = P!Popped(s, k, n)
  BY DEF Off!Idx, P!Idx, Off!WordAt, P!WordAt, Off!Popped, P!Popped
<1>4. Off!Pushed(f, n) = P!Pushed(f, n)
  BY DEF Off!Pushed, P!Pushed
<1>5. Off!Masks(p, c, n) = P!Masks(p, c, n)
  BY DEF Off!Trunc, P!Trunc, Off!Idx, P!Idx, Off!NoVec, P!NoVec, Off!Word,
      P!Word, Off!RingWord, P!RingWord, Off!Masks, P!Masks
<1>6. Off!Draw(p, c, k, n) = P!Draw(p, c, k, n)
  BY DEF Off!Draw, P!Draw
<1>7. Off!Composed(e, n) = P!Composed(e, n)
  BY DEF Off!Idx, P!Idx, Off!Composed, P!Composed
<1>8. Off!NewPerm(f, n) = P!NewPerm(f, n)
  BY DEF Off!Size0, P!Size0, Off!Unfilled, P!Unfilled, Off!NewPerm, P!NewPerm
<1>9. Off!SetEntry(f, n, e) = P!SetEntry(f, n, e)
  BY DEF Off!NoVec, P!NoVec, Off!NoEntry, P!NoEntry, Off!Grown, P!Grown,
      Off!SetEntry, P!SetEntry
<1>10. Off!Grown(f, n) = P!Grown(f, n)
  BY DEF Off!NoVec, P!NoVec, Off!NoEntry, P!NoEntry, Off!Grown, P!Grown
<1>. QED  BY <1>1, <1>2, <1>3, <1>4, <1>5, <1>6, <1>7, <1>8, <1>9, <1>10

(* Entries of tables.                                                      *)
LEMMA SameEntries ==
  ASSUME NEW c, NEW g, NEW n, NEW p
  PROVE  /\ Off!ShuffleEntry(p, c, n) = P!ShuffleEntry(p, c, n)
         /\ Off!DoubleEntry(p, c, g) = P!DoubleEntry(p, c, g)
         /\ Off!DoubleThrows(c, g) = P!DoubleThrows(c, g)
<1>1. Off!ShuffleEntry(p, c, n) = P!ShuffleEntry(p, c, n)
  BY SameVectors, ZenonT(30) DEF Off!Idx, P!Idx, Off!NoVec, P!NoVec, Off!NoEntry,
      P!NoEntry, Off!ShuffleEntry, P!ShuffleEntry
<1>2. Off!DoubleEntry(p, c, g) = P!DoubleEntry(p, c, g)
  BY SameVectors, ZenonT(30) DEF Off!Idx, P!Idx, Off!NoVec, P!NoVec, Off!NoEntry,
      P!NoEntry, Off!DoubleEntry, P!DoubleEntry
<1>3. Off!DoubleThrows(c, g) = P!DoubleThrows(c, g)
  BY SameVectors DEF Off!DoubleThrows, P!DoubleThrows
<1>. QED  BY <1>1, <1>2, <1>3

(* Preparing a shuffle or a double shuffle.                                *)
LEMMA SamePrepared ==
  ASSUME NEW c, NEW g, NEW p
  PROVE  /\ Off!PrepareShuffle(p, c, g) = P!PrepareShuffle(p, c, g)
         /\ Off!PrepareDouble(p, c, g) = P!PrepareDouble(p, c, g)
         /\ Off!HelperB0(c, g) = P!HelperB0(c, g)
         /\ Off!HelperB1(c, g) = P!HelperB1(c, g)
         /\ Off!MaskedShuffle(p, c, g) = P!MaskedShuffle(p, c, g)
<1>1. Off!PrepareShuffle(p, c, g) = P!PrepareShuffle(p, c, g)
  <2>1. Off!NewPerm(c.perms, g.param) = P!NewPerm(c.perms, g.param)
    BY SameVectors
  <2>2. Off!ShuffleEntry(p, c, g.n) = P!ShuffleEntry(p, c, g.n)
    BY SameEntries
  <2>3. Off!Draw(p, c, 2 * g.n, g.n) = P!Draw(p, c, 2 * g.n, g.n)
    BY SameVectors
  <2>4. ASSUME NEW v, NEW e
        PROVE  Off!SetEntry(v, g.param, e) = P!SetEntry(v, g.param, e)
    BY SameVectors
  <2>5. ASSUME NEW v PROVE Off!Pushed(v, g.n) = P!Pushed(v, g.n)
    BY SameVectors
  <2>. QED  BY <2>1, <2>2, <2>3, <2>4, <2>5, ZenonT(30) DEF Off!PrepareShuffle, P!PrepareShuffle
<1>2. Off!PrepareDouble(p, c, g) = P!PrepareDouble(p, c, g)
  <2>1. Off!NewPerm(c.perms, g.param) = P!NewPerm(c.perms, g.param)
    BY SameVectors
  <2>2. Off!DoubleEntry(p, c, g) = P!DoubleEntry(p, c, g)
    BY SameEntries
  <2>3. Off!Draw(p, c, g.n, g.n) = P!Draw(p, c, g.n, g.n)
    BY SameVectors
  <2>4. ASSUME NEW v, NEW e
        PROVE  Off!SetEntry(v, g.param, e) = P!SetEntry(v, g.param, e)
    BY SameVectors
  <2>5. ASSUME NEW v PROVE Off!Pushed(v, g.n) = P!Pushed(v, g.n)
    BY SameVectors
  <2>. QED  BY <2>1, <2>2, <2>3, <2>4, <2>5 DEF Off!PrepareDouble, P!PrepareDouble
<1>3. Off!HelperB0(c, g) = P!HelperB0(c, g)
  BY SameVectors, SameEntries, ZenonT(30) DEF Off!Trunc, P!Trunc, Off!Minus, P!Minus,
      Off!Idx, P!Idx, Off!Word, P!Word, Off!RingWord, P!RingWord,
      Off!HelperB0, P!HelperB0
<1>4. Off!HelperB1(c, g) = P!HelperB1(c, g)
  BY SameVectors, SameEntries, ZenonT(30) DEF Off!Trunc, P!Trunc, Off!Plus, P!Plus,
      Off!Idx, P!Idx, Off!Word, P!Word, Off!RingWord, P!RingWord,
      Off!HelperB1, P!HelperB1
<1>5. Off!MaskedShuffle(p, c, g) = P!MaskedShuffle(p, c, g)
  BY SMTT(30), SameVectors, SameEntries DEF Off!NoVec, P!NoVec, Off!MaskedShuffle,
      P!MaskedShuffle
<1>. QED  BY <1>1, <1>2, <1>3, <1>4, <1>5

(* Masks and their images.                                                 *)
LEMMA SameMasked ==
  ASSUME NEW c, NEW g, NEW p
  PROVE  Off!AfterMasks(p, c, g) = P!AfterMasks(p, c, g)
  BY SameVectors, SamePrepared DEF Off!AfterMasks, P!AfterMasks

(* Triples.                                                                *)
LEMMA SameTriples ==
  ASSUME NEW b, NEW c, NEW n, NEW p
  PROVE  /\ Off!Triples(p, c, b, n) = P!Triples(p, c, b, n)
         /\ Off!AfterTriples(p, c, b, n) = P!AfterTriples(p, c, b, n)
<1>1. Off!Triples(p, c, b, n) = P!Triples(p, c, b, n)
  BY SameVectors DEF Off!Ring, P!Ring, Off!Trunc, P!Trunc, Off!Plus, P!Plus,
      Off!Times, P!Times, Off!Idx, P!Idx, Off!Word, P!Word, Off!RingWord,
      P!RingWord, Off!WordAt, P!WordAt, Off!RandomShare, P!RandomShare,
      Off!RandomShareBin, P!RandomShareBin, Off!TripleA, P!TripleA,
      Off!TripleB, P!TripleB, Off!Product, P!Product, Off!TripleC, P!TripleC,
      Off!Triples, P!Triples
<1>2. Off!AfterTriples(p, c, b, n) = P!AfterTriples(p, c, b, n)
  BY SameVectors DEF Off!Ring, P!Ring, Off!Trunc, P!Trunc, Off!Plus, P!Plus,
      Off!Minus, P!Minus, Off!Times, P!Times, Off!Idx, P!Idx, Off!Word,
      P!Word, Off!RingWord, P!RingWord, Off!RandomShare, P!RandomShare,
      Off!RandomShareBin, P!RandomShareBin, Off!TripleA, P!TripleA,
      Off!TripleB, P!TripleB, Off!Product, P!Product, Off!SecretFor2,
      P!SecretFor2, Off!AfterTriples, P!AfterTriples
<1>. QED  BY <1>1, <1>2

(* What a gate stores.                                                     *)
LEMMA SameStore ==
  ASSUME NEW c, NEW d, NEW p, NEW t
  PROVE  /\ Off!Walking(p, t) = P!Walking(p, t)
         /\ Off!Store(p, d, c) = P!Store(p, d, c)
         /\ Off!G(p) = P!G(p)
BY DEF Off!At, P!At, Off!G, P!G, Off!Walking, P!Walking, Off!Positions,
   P!Positions, Off!Store, P!Store

(* One party walks over one gate.                                          *)
LEMMA SameWalk ==
  ASSUME NEW p
  PROVE  /\ Off!DealTriple(p) = P!DealTriple(p)
         /\ Off!DealCompaction(p) = P!DealCompaction(p)
         /\ Off!DealShuffle(p) = P!DealShuffle(p)
         /\ Off!DealDouble(p) = P!DealDouble(p)
         /\ Off!ThrowDouble(p) = P!ThrowDouble(p)
         /\ Off!DealInput(p) = P!DealInput(p)
         /\ Off!SkipLocal(p) = P!SkipLocal(p)
         /\ Off!EndWalk(p) = P!EndWalk(p)
<1>1. Off!DealTriple(p) = P!DealTriple(p)
  BY SameVectors, SameEntries, SamePrepared, SameMasked, SameTriples DEF
      Off!ArithTriple, P!ArithTriple, Off!BinTriple, P!BinTriple, Off!At,
      P!At, Off!G, P!G, Off!Walking, P!Walking, Off!Positions, P!Positions,
      Off!Store, P!Store, Off!DealTriple, P!DealTriple
<1>2. Off!DealCompaction(p) = P!DealCompaction(p)
  <2>1. Off!Walking(p, {"GenCompaction"}) = P!Walking(p, {"GenCompaction"})
    BY SameStore
  <2>2. Off!Triples(p, ctx[p], FALSE, P!G(p).n) = P!Triples(p, ctx[p], FALSE, P!G(p).n)
    BY SameTriples
  <2>3. Off!AfterTriples(p, ctx[p], FALSE, P!G(p).n) = P!AfterTriples(p, ctx[p], FALSE, P!G(p).n)
    BY SameTriples
  <2>4. ASSUME NEW d, NEW c PROVE Off!Store(p, d, c) = P!Store(p, d, c)
    BY SameStore
  <2>5. Off!G(p) = P!G(p)
    BY SameStore
  <2>. QED  BY <2>1, <2>2, <2>3, <2>4, <2>5 DEF Off!DealCompaction, P!DealCompaction
<1>3. Off!DealShuffle(p) = P!DealShuffle(p)
  BY SameVectors, SameEntries, SamePrepared, SameMasked, SameTriples DEF
      Off!At, P!At, Off!G, P!G, Off!Walking, P!Walking, Off!Positions,
      P!Positions, Off!Store, P!Store, Off!DealShuffle, P!DealShuffle
<1>4. Off!DealDouble(p) = P!DealDouble(p)
  <2>1. Off!Walking(p, {"DoubleShuffle"}) = P!Walking(p, {"DoubleShuffle"})
    BY SameStore
  <2>2. Off!DoubleThrows(ctx[p], P!G(p)) = P!DoubleThrows(ctx[p], P!G(p))
    BY SameEntries
  <2>3. Off!PrepareDouble(p, ctx[p], P!G(p)) = P!PrepareDouble(p, ctx[p], P!G(p))
    BY SamePrepared
  <2>4. ASSUME NEW c
        PROVE  /\ Off!MaskedShuffle(p, c, P!G(p)) = P!MaskedShuffle(p, c, P!G(p))
               /\ Off!AfterMasks(p, c, P!G(p)) = P!AfterMasks(p, c, P!G(p))
    BY SamePrepared, SameMasked
  <2>5. ASSUME NEW d, NEW c PROVE Off!Store(p, d, c) = P!Store(p, d, c)
    BY SameStore
  <2>6. Off!G(p) = P!G(p)
    BY SameStore
  <2>. QED  BY <2>1, <2>2, <2>3, <2>4, <2>5, <2>6 DEF Off!DealDouble, P!DealDouble
<1>5. Off!ThrowDouble(p) = P!ThrowDouble(p)
  BY SameVectors, SameEntries, SamePrepared, SameMasked, SameTriples DEF
      Off!At, P!At, Off!G, P!G, Off!Walking, P!Walking, Off!ThrowDouble,
      P!ThrowDouble
<1>6. Off!DealInput(p) = P!DealInput(p)
  BY SameVectors, SameEntries, SamePrepared, SameMasked, SameTriples DEF
      Off!InputGate, P!InputGate, Off!At, P!At, Off!G, P!G, Off!Walking,
      P!Walking, Off!Positions, P!Positions, Off!DealInput, P!DealInput
<1>7. Off!SkipLocal(p) = P!SkipLocal(p)
  BY SameVectors, SameEntries, SamePrepared, SameMasked, SameTriples DEF
      Off!At, P!At, Off!G, P!G, Off!Walking, P!Walking, Off!Positions,
      P!Positions, Off!Store, P!Store, Off!SkipLocal, P!SkipLocal
<1>8. Off!EndWalk(p) = P!EndWalk(p)
  BY SameVectors, SameEntries, SamePrepared, SameMasked, SameTriples DEF
      Off!At, P!At, Off!EndWalk, P!EndWalk
<1>. QED  BY <1>1, <1>2, <1>3, <1>4, <1>5, <1>6, <1>7, <1>8

(* The chunks between the helper and the others.                           *)
LEMMA SameTransfer ==
  ASSUME NEW q
  PROVE  /\ Off!SendLengths = P!SendLengths
         /\ Off!SendLengthToOne = P!SendLengthToOne
         /\ Off!SendChunk(q) = P!SendChunk(q)
         /\ Off!SendLast(q) = P!SendLast(q)
         /\ Off!RecvLength(q) = P!RecvLength(q)
         /\ Off!RecvChunk(q) = P!RecvChunk(q)
         /\ Off!RecvLast(q) = P!RecvLast(q)
<1>1. Off!SendLengths = P!SendLengths
  BY DEF Off!Put, P!Put, Off!SendLengths, P!SendLengths
<1>2. Off!SendLengthToOne = P!SendLengthToOne
  BY DEF Off!Put, P!Put, Off!SendLengthToOne, P!SendLengthToOne
<1>3. Off!SendChunk(q) = P!SendChunk(q)
  BY DEF Off!Outgoing, P!Outgoing, Off!Put, P!Put, Off!DataPhase, P!DataPhase,
      Off!SendChunk, P!SendChunk
<1>4. Off!SendLast(q) = P!SendLast(q)
  BY DEF Off!Outgoing, P!Outgoing, Off!Put, P!Put, Off!DataPhase, P!DataPhase,
      Off!SendLast, P!SendLast
<1>5. Off!RecvLength(q) = P!RecvLength(q)
  BY DEF Off!Arrived, P!Arrived, Off!Rest, P!Rest, Off!LengthWords,
      P!LengthWords, Off!RecvLength, P!RecvLength
<1>6. Off!RecvChunk(q) = P!RecvChunk(q)
  BY DEF Off!Arrived, P!Arrived, Off!Rest, P!Rest, Off!Received, P!Received,
      Off!Keep, P!Keep, Off!RecvChunk, P!RecvChunk
<1>7. Off!RecvLast(q) = P!RecvLast(q)
  BY DEF Off!Arrived, P!Arrived, Off!Rest, P!Rest, Off!Received, P!Received,
      Off!Keep, P!Keep, Off!RecvLast, P!RecvLast
<1>. QED  BY <1>1, <1>2, <1>3, <1>4, <1>5, <1>6, <1>7

-----------------------------------------------------------------------------
(* The steps of the preprocessing are those of module Offline, and they    *)
(* leave the circuit alone.                                                *)
LEMMA Preprocesses ==
  ASSUME NEW p \in Party, Preprocess(p)
  PROVE  P!Next /\ gates' = gates
<1>1. CASE Off!Walk(p)
  <2>1. P!Walk(p)
    BY <1>1, SameWalk DEF Off!Walk, P!Walk
  <2>2. gates' = gates
    BY <2>1 DEF P!Walk, P!DealTriple, P!DealCompaction, P!DealShuffle, P!DealDouble,
       P!ThrowDouble, P!DealInput, P!SkipLocal, P!EndWalk, P!Store
  <2>. QED  BY <2>1, <2>2 DEF P!Next, Party, P!Party
<1>2. CASE p = 0 /\ Off!Send
  <2>1. P!Send
    BY <1>2, SameTransfer DEF Off!Send, P!Send, Off!Online, P!Online
  <2>2. gates' = gates
    BY <2>1 DEF P!Send, P!SendLengths, P!SendLengthToOne, P!SendChunk, P!SendLast
  <2>. QED  BY <2>1, <2>2 DEF P!Next
<1>3. CASE p # 0 /\ Off!Recv(p)
  <2>1. P!Recv(p) /\ p \in P!Online
    BY <1>3, SameTransfer DEF Off!Recv, P!Recv, Party, P!Online
  <2>2. gates' = gates
    BY <2>1 DEF P!Recv, P!RecvLength, P!RecvChunk, P!RecvLast
  <2>. QED  BY <2>1, <2>2 DEF P!Next
<1>. QED  BY <1>1, <1>2, <1>3 DEF Preprocess

(* Who has finished the preprocessing takes no further step of it.         *)
LEMMA NothingToPreprocess ==
  ASSUME NEW p \in Party, Preprocess(p), \A q \in Party : opc[q] = "done"
  PROVE  FALSE
<1>1. opc[p] = "done" /\ opc[0] = "done"
  BY DEF Party
<1>2. ~ Off!Walk(p)
  BY <1>1 DEF Off!Walk, Off!DealTriple, Off!DealCompaction, Off!DealShuffle, Off!DealDouble,
     Off!ThrowDouble, Off!DealInput, Off!SkipLocal, Off!EndWalk, Off!Walking
<1>3. ~ Off!Send
  BY <1>1 DEF Off!Send, Off!SendLengths, Off!SendLengthToOne, Off!SendChunk, Off!SendLast,
     Off!DataPhase
<1>4. ~ Off!Recv(p)
  BY <1>1 DEF Off!Recv, Off!RecvLength, Off!RecvChunk, Off!RecvLast
<1>. QED  BY <1>2, <1>3, <1>4 DEF Preprocess

(* A program that runs once: everybody stays in the first round, and what  *)
(* has been handed over is what the preprocessing left.                    *)
Dealt(q) == [l \in DOMAIN circ.levels |->
               [k \in DOMAIN circ.levels[l] |-> Preprocessed(q, l, k)]]
AllDone  == \A p \in Party : opc[p] = "done"
Once ==
  /\ circ \in Circuits /\ gates = Flat(circ)
  /\ reps = 1 /\ round = [p \in Party |-> 1]
  /\ pc = [p \in Online |-> pc[p]] /\ deal = [p \in Online |-> deal[p]]
  /\ \A q \in Online : pc[q] # "preprocessing" => AllDone /\ deal[q] = Dealt(q)

OnceOnly == \A c \in Circuits : RepsOf(c) = {1}

LEMMA OnceStarts == ASSUME OnceOnly, Init PROVE Once
BY DEF OnceOnly, Init, Once

LEMMA StartsPreprocessing == ASSUME Init PROVE P!Init
BY DEF Init, P!Init, Party, P!Party, Online, P!Online, Off!FreshCtx, P!FreshCtx

(* A step of the evaluation.                                               *)
LEMMA EvaluationStep ==
  ASSUME NEW p \in Online, On!Step(p), Once
  PROVE  /\ pc[p] # "preprocessing"
         /\ \E s : pc' = [pc EXCEPT ![p] = s]
         /\ UNCHANGED <<circ, deal>>
BY DEF On!Step, On!SetInputs, On!BeginLevel, On!SendSegment, On!RecvSegment, On!FinishLevel,
   On!AfterLevels, On!NoOutputs, On!SendOutputs, On!RecvOutputs, On!fixed

LEMMA OnceGoesOn ==
  ASSUME Once, [Next]_vars
  PROVE  Once' /\ [P!Next]_P!vars
<1> DEFINE Keeps == UNCHANGED <<circ, reps, round>> /\ gates' = gates
<1>0. CASE UNCHANGED vars
  <2>1. UNCHANGED <<circ, gates, reps, round, pc, deal, opc, preproc, ctx>> /\ UNCHANGED P!vars
    BY <1>0 DEF vars, offVars, onVars, P!vars
  <2>2. \A q \in Online : Dealt(q)' = Dealt(q)
    BY <2>1 DEF Dealt, Preprocessed, Before, Halves, Online
  <2>. QED  BY <2>1, <2>2 DEF Once, AllDone
<1>1. ASSUME NEW p \in Party, Preprocess(p)
      PROVE  Once' /\ [P!Next]_P!vars
  <2>1. P!Next /\ gates' = gates
    BY <1>1, Preprocesses
  <2>2. UNCHANGED <<circ, reps, round, pc, deal>>
    BY <1>1 DEF Preprocess, onVars
  <2>3. ~ AllDone
    BY <1>1, NothingToPreprocess DEF AllDone
  <2>. QED  BY <2>1, <2>2, <2>3 DEF Once
<1>2. ASSUME NEW p \in Online, HandOver(p)
      PROVE  Once' /\ [P!Next]_P!vars
  <2>1. /\ UNCHANGED <<circ, gates, reps, round, opc, preproc, ctx>> /\ UNCHANGED P!vars
        /\ opc[p] = "done" /\ Synced(p)
        /\ deal' = [deal EXCEPT ![p] = Dealt(p)]
        /\ pc' = [pc EXCEPT ![p] = "inputs"]
    BY <1>2 DEF HandOver, offVars, P!vars, Dealt
  <2>2. AllDone
    BY <2>1 DEF Synced, AllDone, Once, Party, Online
  <2>7. UNCHANGED <<circ, preproc, ctx>>
    BY <2>1
  <2>3. \A q \in Online : Dealt(q)' = Dealt(q)
    BY <2>7 DEF Dealt, Preprocessed, Before, Halves, Online
  <2> DEFINE d == Dealt(p)
  <2>. HIDE DEF d
  <2>5. deal' = [deal EXCEPT ![p] = d]
    BY <2>1 DEF d
  <2>6. deal' = [q \in Online |-> deal'[q]] /\ deal'[p] = d /\ \A q \in Online : q # p => deal'[q] = deal[q]
    BY <2>5 DEF Once
  <2>4. /\ pc' = [q \in Online |-> pc'[q]] /\ deal' = [q \in Online |-> deal'[q]]
        /\ deal'[p] = Dealt(p) /\ \A q \in Online : q # p => deal'[q] = deal[q] /\ pc'[q] = pc[q]
    <3>1. pc' = [q \in Online |-> pc'[q]] /\ \A q \in Online : q # p => pc'[q] = pc[q]
      BY <2>1 DEF Once
    <3>. QED  BY <3>1, <2>6 DEF d
  <2>. HIDE DEF d
  <2>. QED  BY <2>1, <2>2, <2>3, <2>4 DEF Once, AllDone
<1>3. ASSUME NEW p \in Online, Evaluate(p)
      PROVE  Once' /\ [P!Next]_P!vars
  <2>1. /\ UNCHANGED <<gates, reps, round, opc, preproc, ctx>> /\ UNCHANGED P!vars
        /\ On!Step(p)
    BY <1>3 DEF Evaluate, offVars, P!vars
  <2>2. /\ pc[p] # "preprocessing"
        /\ \E s : pc' = [pc EXCEPT ![p] = s]
        /\ UNCHANGED <<circ, deal>>
    BY <2>1, EvaluationStep
  <2>3. \A q \in Online : Dealt(q)' = Dealt(q)
    BY <2>1, <2>2 DEF Dealt, Preprocessed, Before, Halves, Online
  <2>4. pc' = [q \in Online |-> pc'[q]] /\ \A q \in Online : q # p => pc'[q] = pc[q]
    BY <2>2 DEF Once
  <2>. QED  BY <2>1, <2>2, <2>3, <2>4 DEF Once, AllDone
<1>4. \A p \in Party : ~ RepeatHelper /\ ~ Repeat(p)
  BY DEF Once, RepeatHelper, Repeat, Party
<1>. QED  BY <1>0, <1>1, <1>2, <1>3, <1>4 DEF Next, Run, Party, Online

LEMMA OnceForever == ASSUME OnceOnly PROVE Spec => []Once /\ P!Spec
<1>1. Init => Once /\ P!Init
  BY OnceStarts, StartsPreprocessing
<1>2. Once /\ [Next]_vars => Once' /\ [P!Next]_P!vars
  BY OnceGoesOn
<1>. QED  BY <1>1, <1>2, PTL DEF Spec, P!Spec
-----------------------------------------------------------------------------
(* Where a gate of a level stands in level order.                          *)
LEMMA Place ==
  ASSUME circ \in Circuits, NEW l \in DOMAIN circ.levels, NEW k \in DOMAIN circ.levels[l]
  PROVE  /\ Before(l) + k \in 1 .. Len(FlattenSeq(circ.levels))
         /\ FlattenSeq(circ.levels)[Before(l) + k] = circ.levels[l][k]
<1> DEFINE ll == circ.levels
           a  == SubSeq(ll, 1, l - 1)
           m  == <<ll[l]>>
           b  == SubSeq(ll, l + 1, Len(ll))
           A  == Seq(Gate)
           fa == FlattenSeq(a)
           fb == FlattenSeq(b)
<1>1. ll \in Seq(A) /\ l \in 1 .. Len(ll) /\ ll[l] \in Seq(Gate) /\ k \in 1 .. Len(ll[l])
  BY CircuitAssumption
<1>2. ll = (a \o m) \o b
  <2> HIDE DEF ll, A
  <2>. QED  BY <1>1, SplitAt
<1>3. a \in Seq(A) /\ m \in Seq(A) /\ b \in Seq(A) /\ a \o m \in Seq(A)
  <2> HIDE DEF ll, A
  <2>1. ll[l] \in A
    BY <1>1
  <2>. QED  BY <1>1, <2>1
<1>4. FlattenSeq(m) = ll[l]
  BY <1>1, FlattenOne
<1>5. FlattenSeq(a \o m) = fa \o ll[l]
  <2>1. FlattenSeq(a \o m) = fa \o FlattenSeq(m)
    <3> HIDE DEF a, m, ll
    <3>. QED  BY <1>3, FlattenConcat
  <2>. QED  BY <2>1, <1>4
<1>6. FlattenSeq(ll) = (fa \o ll[l]) \o fb
  <2> DEFINE am == a \o m
  <2>1. FlattenSeq(am \o b) = FlattenSeq(am) \o fb
    <3>1. am \in Seq(A)
      BY <1>3
    <3> HIDE DEF am, b, ll
    <3>. QED  BY <1>3, <3>1, FlattenConcat
  <2>. QED  BY <2>1, <1>5, <1>2
<1>7. fa \in Seq(Gate) /\ fb \in Seq(Gate)
  <2> HIDE DEF a, b, ll
  <2>. QED  BY <1>3, FlattenTyped
<1>8. Before(l) = Len(fa)
  BY DEF Before
<1> DEFINE x == ll[l]
           y == fa \o x
<1>9. /\ y \in Seq(Gate) /\ Len(fa) \in Nat
      /\ Len(fa) + k \in 1 .. Len(y) /\ y[Len(fa) + k] = x[k]
  <2>1. x \in Seq(Gate) /\ k \in 1 .. Len(x)
    BY <1>1
  <2>2. y = fa \o x /\ fa \in Seq(Gate)
    BY <1>7
  <2> HIDE DEF x, fa, y, ll, a, m, b, A, fb
  <2>3. /\ fa \o x \in Seq(Gate) /\ Len(fa) \in Nat
        /\ Len(fa) + k \in 1 .. Len(fa \o x) /\ (fa \o x)[Len(fa) + k] = x[k]
    <3>1. /\ fa \o x \in Seq(Gate) /\ Len(fa) \in Nat
          /\ \A i \in 1 .. Len(x) : /\ Len(fa) + i \in 1 .. Len(fa \o x)
                                    /\ (fa \o x)[Len(fa) + i] = x[i]
      BY <2>1, <2>2, ConcatFacts
    <3>. QED  BY <2>1, <3>1
  <2>. QED  BY <2>2, <2>3
<1>10. Len(fa) + k \in 1 .. Len(y \o fb) /\ (y \o fb)[Len(fa) + k] = y[Len(fa) + k]
  <2> HIDE DEF y, fb, fa
  <2>. QED  BY <1>7, <1>9, ConcatFacts
<1>. QED  BY <1>6, <1>8, <1>9, <1>10

(* Every gate in level order is a gate of the circuit.                     *)
LEMMA FromTheCircuit ==
  ASSUME NEW c \in Circuits
  PROVE  FlattenSeq(c.levels) \in Seq(GatesOf(c)) /\ GatesOf(c) \subseteq Gate
<1>1. c.levels \in Seq(Seq(Gate))
  BY CircuitAssumption
<1>2. c.levels \in Seq(Seq(GatesOf(c)))
  <2> DEFINE ll == c.levels
             G  == GatesOf(c)
  <2>1. \A l \in 1 .. Len(ll) : ll[l] \in Seq(Gate)
    BY <1>1
  <2>2. \A l \in 1 .. Len(ll) : \A k \in 1 .. Len(ll[l]) : ll[l][k] \in G
    BY <1>1, <2>1 DEF GatesOf
  <2>3. \A l \in 1 .. Len(ll) : ll[l] \in Seq(G)
    <3> TAKE l \in 1 .. Len(ll)
    <3> DEFINE x == ll[l]
    <3>1. x \in Seq(Gate) /\ \A k \in 1 .. Len(x) : x[k] \in G
      BY <2>1, <2>2
    <3> HIDE DEF x, G
    <3>. QED  BY <3>1 DEF x
  <2>4. ll \in Seq(Seq(Gate))
    BY <1>1
  <2> HIDE DEF ll, G
  <2>5. ll \in Seq(Seq(G))
    BY <2>3, <2>4
  <2>. QED  BY <2>5 DEF ll, G
<1>3. GatesOf(c) \subseteq Gate
  BY <1>1 DEF GatesOf
<1>. QED  BY <1>2, <1>3, FlattenTyped

(* What the preprocessing is told about a gate.                            *)
LEMMA Told ==
  ASSUME NEW c \in Circuits, NEW i \in 1 .. Len(Flat(c))
  PROVE  LET g == FlattenSeq(c.levels)[i]
             f == Flat(c)[i]
         IN  /\ g \in GatesOf(c) /\ g \in Gate
             /\ f.type = IF g.type \in LocalGate \cup {"Reveal"} THEN "Local" ELSE g.type
             /\ f.n = Len(g.in1) /\ f.param = g.param /\ f.param2 = g.param2
             /\ f.param3 = g.param3 /\ f.reverse = g.reverse /\ f.owner = g.owner
             /\ f = [type |-> f.type, n |-> f.n, param |-> f.param, param2 |-> f.param2,
                     param3 |-> f.param3, reverse |-> f.reverse, owner |-> f.owner]
<1> DEFINE fl == FlattenSeq(c.levels)
<1>1. fl \in Seq(GatesOf(c)) /\ GatesOf(c) \subseteq Gate
  BY FromTheCircuit
<1>2. Len(Flat(c)) = Len(fl)
  BY <1>1 DEF Flat
<1>3. fl[i] \in GatesOf(c)
  BY <1>1, <1>2
<1>4. Flat(c)[i] = [type |-> IF fl[i].type \in LocalGate \cup {"Reveal"} THEN "Local" ELSE fl[i].type,
      n |-> Len(fl[i].in1), param |-> fl[i].param, param2 |-> fl[i].param2, param3 |-> fl[i].param3,
      reverse |-> fl[i].reverse, owner |-> fl[i].owner]
  BY <1>2 DEF Flat
<1> HIDE DEF fl
<1>5. fl[i] \in Gate
  BY <1>1, <1>3
<1>. QED  BY <1>3, <1>4, <1>5 DEF fl

(* So the assumption of the preprocessing about its circuits holds.        *)
LEMMA CircuitsFit == P!CircuitAssumption
<1> SUFFICES ASSUME NEW c \in Circuits
             PROVE  /\ Flat(c) \in Seq(P!Gate)
                    /\ \A i \in 1 .. Len(Flat(c)) :
                         /\ Flat(c)[i].n <= Modulus
                         /\ Flat(c)[i].type \in P!ArithTriple \cup P!BinTriple => Flat(c)[i].n = 1
                         /\ Flat(c)[i].type = "DoubleShuffle" => ~ Flat(c)[i].reverse
                    /\ P!NamesAgree(Flat(c))
  OBVIOUS
<1>1. P!NamesAgree(Flat(c))
  <2>1. Off!NamesAgree(Flat(c))
    BY CircuitAssumption
  <2>. QED  BY <2>1 DEF Off!NamesAgree, P!NamesAgree, Off!PermNames, P!PermNames
<1>2. ASSUME NEW i \in 1 .. Len(Flat(c))
      PROVE  /\ Flat(c)[i] \in P!Gate
             /\ Flat(c)[i].n <= Modulus
             /\ Flat(c)[i].type \in P!ArithTriple \cup P!BinTriple => Flat(c)[i].n = 1
             /\ Flat(c)[i].type = "DoubleShuffle" => ~ Flat(c)[i].reverse
  <2> DEFINE g == FlattenSeq(c.levels)[i]
             f == Flat(c)[i]
  <2>1. /\ g \in GatesOf(c) /\ g \in Gate
        /\ f.type = IF g.type \in LocalGate \cup {"Reveal"} THEN "Local" ELSE g.type
        /\ f.n = Len(g.in1) /\ f.param = g.param /\ f.param2 = g.param2
        /\ f.param3 = g.param3 /\ f.reverse = g.reverse /\ f.owner = g.owner
        /\ f = [type |-> f.type, n |-> f.n, param |-> f.param, param2 |-> f.param2,
                param3 |-> f.param3, reverse |-> f.reverse, owner |-> f.owner]
    BY Told
  <2>2. /\ On!LengthsFit(g) /\ Len(g.in1) <= Modulus
        /\ g.type = "DoubleShuffle" => ~ g.reverse
    BY <2>1, CircuitAssumption
  <2> HIDE DEF f, g
  <2>3. Len(g.in1) \in Nat
    BY <2>1 DEF Gate
  <2>4. f \in P!Gate
    <3>1. f.type \in P!GateType
      BY <2>1 DEF Gate, Interactive, MultGate, AndGate, ShuffleGate, InputGate, P!GateType,
         P!ArithTriple, P!BinTriple, P!InputGate
    <3>2. /\ f.n \in Nat /\ f.param \in Nat /\ f.param2 \in Nat /\ f.param3 \in Nat
          /\ f.reverse \in BOOLEAN /\ f.owner \in P!Online
      BY <2>1, <2>3 DEF Gate, P!Online
    <3>. QED  BY <2>1, <3>1, <3>2 DEF P!Gate
  <2>5. f.type \in P!ArithTriple \cup P!BinTriple => f.n = 1
    <3>1. ASSUME g.type \in {"Mul", "And", "ConvertB2A", "EqualsZero"} PROVE Len(g.in1) = 1
      <4> DEFINE t == On!Lengths(g)
      <4>1. t = <<1, 0, 1>> \/ t = <<1, 1, 1>>
        <5> HIDE DEF t
        <5>1. On!LengthsFit(g) => (g.type \in {"ConvertB2A", "EqualsZero"} => t = <<1, 0, 1>>)
          BY SMTT(30) DEF On!LengthsFit, t, InputGate
        <5>2. On!LengthsFit(g) => (g.type \in {"Mul", "And"} => t = <<1, 1, 1>>)
          BY DEF On!LengthsFit, t, InputGate
        <5>. QED  BY <5>1, <5>2, <2>2, <3>1
      <4>2. t[1] = Len(g.in1)
        BY DEF On!Lengths
      <4> HIDE DEF t
      <4>3. <<1, 0, 1>>[1] = 1 /\ <<1, 1, 1>>[1] = 1
        OBVIOUS
      <4>. QED  BY <4>1, <4>2, <4>3
    <3>. QED  BY <2>1, <3>1 DEF P!ArithTriple, P!BinTriple
  <2>. QED  BY <2>1, <2>2, <2>4, <2>5 DEF f
<1>3. Flat(c) \in Seq(P!Gate)
  <2>1. /\ Flat(c) = [i \in 1 .. Len(Flat(c)) |-> Flat(c)[i]] /\ Len(Flat(c)) \in Nat
    <3> DEFINE fl == FlattenSeq(c.levels)
    <3>2. fl \in Seq(GatesOf(c))
      BY FromTheCircuit
    <3>3. Len(fl) \in Nat
      <4> HIDE DEF fl
      <4>. QED  BY <3>2
    <3>1. Len(FlattenSeq(c.levels)) \in Nat
      BY <3>3
    <3>. QED  BY <3>1 DEF Flat
  <2> DEFINE f == Flat(c)
  <2> HIDE DEF f
  <2>2. f \in [1 .. Len(f) -> P!Gate]
    BY <1>2, <2>1 DEF f
  <2>. QED  BY <2>1, <2>2, FunIsSeq DEF f
<1>. QED  BY <1>1, <1>2, <1>3

(* The other assumptions of module Offline are those of Protocol.          *)
LEMMA AssumptionsHold == /\ P!ModulusAssumption /\ P!XorAssumption /\ P!AndAssumption
                         /\ P!TapeAssumption /\ P!ChunkAssumption
<1>1. P!XorAssumption
  BY XorAssumption DEF Ring, P!Ring
<1>2. P!AndAssumption
  BY AndAssumption DEF Ring, P!Ring
<1>. QED  BY <1>1, <1>2, ModulusAssumption, TapeAssumption, ChunkAssumption DEF P!Stream

LEMMA OnceLeavesAll == ASSUME OnceOnly PROVE Spec => [](Once /\ P!LeavesAll)
<1>1. P!Spec => []P!LeavesAll
  BY P!LeavesEverything, AssumptionsHold, CircuitsFit
<1>. QED  BY <1>1, OnceForever, PTL
-----------------------------------------------------------------------------
(* Vectors and permutations counted from 1.                                *)
LEMMA CountedFromOne ==
  ASSUME NEW n \in Nat, NEW S, NEW v \in [P!Idx(n) -> S]
  PROVE  /\ FromOne(v) \in [1 .. n -> S]
         /\ \A j \in 1 .. n : j - 1 \in P!Idx(n) /\ FromOne(v)[j] = v[j - 1]
<1>1. DOMAIN v = 0 .. (n - 1)
  BY DEF P!Idx
<1>2. Cardinality(DOMAIN v) = n
  BY <1>1, FS_Interval
<1>3. \A j \in 1 .. n : j - 1 \in 0 .. (n - 1)
  OBVIOUS
<1>. QED  BY <1>2, <1>3 DEF FromOne, P!Idx

LEMMA PermFromOneFits ==
  ASSUME NEW n \in Nat, NEW f, P!IsPermutation(f, n)
  PROVE  /\ PermOf(PermFromOne(f), n)
         /\ \A j \in 1 .. n : /\ j - 1 \in P!Idx(n) /\ f[j - 1] \in P!Idx(n)
                              /\ PermFromOne(f)[j] = f[j - 1] + 1
<1>0. /\ f \in [0 .. (n - 1) -> 0 .. (n - 1)]
      /\ \A i, j \in 0 .. (n - 1) : f[i] = f[j] => i = j
  BY DEF P!IsPermutation, P!Idx
<1>1. DOMAIN f = 0 .. (n - 1)
  BY <1>0
<1>2. Cardinality(DOMAIN f) = n
  BY <1>1, FS_Interval
<1>3. \A j \in 1 .. n : j - 1 \in 0 .. (n - 1) /\ f[j - 1] \in 0 .. (n - 1)
  BY <1>0
<1> DEFINE h == PermFromOne(f)
<1>4. h = [j \in 1 .. n |-> f[j - 1] + 1]
  BY <1>2 DEF PermFromOne
<1>5. \A j \in 1 .. n : h[j] = f[j - 1] + 1 /\ h[j] \in 1 .. n
  BY <1>3, <1>4
<1>6. h \in [1 .. n -> 1 .. n]
  BY <1>4, <1>5
<1> HIDE DEF h
<1>7. \A i, j \in 1 .. n : h[i] = h[j] => i = j
  BY <1>0, <1>3, <1>5
<1>. QED  BY <1>3, <1>5, <1>6, <1>7 DEF PermOf, P!Idx, h

(* A permutation reaches everything.                                       *)
LEMMA Reached ==
  ASSUME NEW n \in Nat, NEW f, PermOf(f, n)
  PROVE  \A k \in 1 .. n : \E j \in 1 .. n : f[j] = k
BY InjectionOnto DEF PermOf

-----------------------------------------------------------------------------
(* The two online parties' halves of the permutation m, put together.      *)
HalfOf1(m) == PermFromOne(ctx[1].perms[m + 1].pi0)
HalfOf2(m) == PermFromOne(ctx[2].perms[m + 1].pi1)
Whole(m, n) == [j \in 1 .. n |-> HalfOf1(m)[HalfOf2(m)[j]]]
HalvesFit(m, n) == /\ P!IsPermutation(ctx[1].perms[m + 1].pi0, n)
                   /\ P!IsPermutation(ctx[2].perms[m + 1].pi1, n)

LEMMA WholeFits ==
  ASSUME NEW m, NEW n \in Nat, HalvesFit(m, n)
  PROVE  /\ PermOf(HalfOf1(m), n) /\ PermOf(HalfOf2(m), n) /\ PermOf(Whole(m, n), n)
         /\ \A j \in 1 .. n : /\ j - 1 \in P!Idx(n) /\ Whole(m, n)[j] \in 1 .. n
                              /\ Whole(m, n)[j] = P!Joint(m, n)[j - 1] + 1
<1> DEFINE f == ctx[1].perms[m + 1].pi0
           g == ctx[2].perms[m + 1].pi1
           a == PermFromOne(f)
           b == PermFromOne(g)
           J == [j \in P!Idx(n) |-> f[g[j]]]
           W == [j \in 1 .. n |-> a[b[j]]]
<1>1. P!IsPermutation(f, n) /\ P!IsPermutation(g, n)
  BY DEF HalvesFit
<1>2. J = P!Joint(m, n) /\ W = Whole(m, n) /\ HalfOf1(m) = a /\ HalfOf2(m) = b
  BY DEF P!Joint, Whole, HalfOf1, HalfOf2
<1>3. /\ PermOf(a, n) /\ PermOf(b, n)
      /\ \A j \in 1 .. n : /\ j - 1 \in P!Idx(n) /\ f[j - 1] \in P!Idx(n) /\ a[j] = f[j - 1] + 1
                           /\ g[j - 1] \in P!Idx(n) /\ b[j] = g[j - 1] + 1
  <2> HIDE DEF f, g
  <2>. QED  BY <1>1, PermFromOneFits
<1> HIDE DEF f, g, a, b
<1>4. \A j \in 1 .. n : a[j] \in 1 .. n /\ b[j] \in 1 .. n
  BY <1>3 DEF PermOf
<1>5. \A j \in 1 .. n : W[j] = a[b[j]] /\ W[j] \in 1 .. n
  BY <1>4
<1>6. PermOf(W, n)
  <2>1. \A i, j \in 1 .. n : W[i] = W[j] => i = j
    BY <1>3, <1>4, <1>5 DEF PermOf
  <2>. QED  BY <1>5, <2>1 DEF PermOf
<1>7. \A j \in 1 .. n : J[j - 1] = f[g[j - 1]] /\ a[b[j]] = f[b[j] - 1] + 1 /\ b[j] - 1 = g[j - 1]
  BY <1>3, <1>4 DEF P!Idx
<1>8. \A j \in 1 .. n : W[j] = J[j - 1] + 1
  BY <1>5, <1>7
<1>. QED  BY <1>2, <1>3, <1>5, <1>6, <1>8

(* What has been handed over when both parties evaluate.                   *)
HandedOver == /\ Once /\ AllDone
              /\ deal = [q \in Online |-> Dealt(q)]
Entry1(m) == ctx[1].perms[m + 1]
Entry2(m) == ctx[2].perms[m + 1]
ABCOf(q, l, k) == LET d == preproc[q][Before(l) + k]
                  IN  [a |-> FromOne(d.a), b |-> FromOne(d.b), c |-> FromOne(d.c)]
HalvesOf(q, l, k) ==
  LET d == preproc[q][Before(l) + k]
      h == Halves(q, ctx[q].perms[circ.levels[l][k].param + 1])
  IN  [pi |-> PermFromOne(h.pi), rho |-> PermFromOne(h.rho),
       mask |-> FromOne(d.mask), b |-> FromOne(d.b)]
LEMMA Handed ==
  ASSUME HandedOver, NEW l \in DOMAIN circ.levels, NEW k \in DOMAIN circ.levels[l], NEW q \in Online
  PROVE  /\ circ.levels[l][k].type \in MultGate \cup AndGate => deal[q][l][k] = ABCOf(q, l, k)
         /\ circ.levels[l][k].type \in ShuffleGate => deal[q][l][k] = HalvesOf(q, l, k)
<1>1. deal[q][l][k] = Preprocessed(q, l, k)
  BY DEF HandedOver, Dealt
<1> DEFINE t == circ.levels[l][k].type
           r == ABCOf(q, l, k)
           h == HalvesOf(q, l, k)
<1>2. Preprocessed(q, l, k) = CASE t \in MultGate \cup AndGate -> r
                                [] t \in ShuffleGate -> h
                                [] OTHER -> <<>>
  BY DEF Preprocessed, ABCOf, HalvesOf
<1> HIDE DEF t, r, h
<1>3. t \in ShuffleGate => t \notin MultGate \cup AndGate
  BY DEF ShuffleGate, MultGate, AndGate
<1>. QED  BY <1>1, <1>2, <1>3 DEF t, r, h

LEMMA HandedHalves ==
  ASSUME HandedOver, NEW l \in DOMAIN circ.levels, NEW k \in DOMAIN circ.levels[l],
         circ.levels[l][k].type \in ShuffleGate, NEW m, circ.levels[l][k].param = m
  PROVE  /\ deal[1][l][k].pi = HalfOf1(m) /\ deal[2][l][k].pi = HalfOf2(m)
         /\ deal[1][l][k].rho = PermFromOne(Entry1(m).rho0)
         /\ deal[2][l][k].rho = PermFromOne(Entry2(m).rho1)
         /\ deal[1][l][k].mask = FromOne(preproc[1][Before(l) + k].mask)
         /\ deal[2][l][k].mask = FromOne(preproc[2][Before(l) + k].mask)
         /\ deal[1][l][k].b = FromOne(preproc[1][Before(l) + k].b)
         /\ deal[2][l][k].b = FromOne(preproc[2][Before(l) + k].b)
<1>1. deal[1][l][k] = HalvesOf(1, l, k) /\ deal[2][l][k] = HalvesOf(2, l, k)
  BY Handed DEF Online
<1>. QED  BY <1>1 DEF HalvesOf, Halves, HalfOf1, HalfOf2, Entry1, Entry2

(* Whichever gate of the shuffle m is asked, its halves are the same.      *)
LEMMA JointOf ==
  ASSUME HandedOver, NEW m, NEW n \in Nat, HalvesFit(m, n),
         NEW l \in DOMAIN circ.levels, NEW k \in DOMAIN circ.levels[l],
         circ.levels[l][k].type = "Shuffle", circ.levels[l][k].param = m
  PROVE  On!JointPerms(circ, deal)[m] = Whole(m, n)
<1> DEFINE ll == circ.levels
           T  == UNION {{i} \X DOMAIN ll[i] : i \in DOMAIN ll}
           Q(lk) == ll[lk[1]][lk[2]].type = "Shuffle" /\ ll[lk[1]][lk[2]].param = m
           a  == On!At(circ, m)
<1>1. a = CHOOSE lk \in T : Q(lk)
  BY DEF On!At
<1>2. <<l, k>> \in T /\ Q(<<l, k>>)
  OBVIOUS
<1>3. a \in T /\ Q(a)
  <2> HIDE DEF a, T, Q
  <2>. QED  BY <1>1, <1>2
<1>4. a[1] \in DOMAIN ll /\ a[2] \in DOMAIN ll[a[1]]
  BY <1>3
<1>5. m \in On!Names(circ)
  <2>1. ll[l][k] \in On!GatesOf(circ)
    BY DEF On!GatesOf
  <2>. QED  BY <2>1 DEF On!Names
<1> DEFINE l1 == a[1]
           k1 == a[2]
           g  == circ.levels[l1][k1]
           d1 == deal[1][l1][k1]
           d2 == deal[2][l1][k1]
<1>6. On!JointPerms(circ, deal)[m] = On!Joint(d1, d2)
  BY <1>5 DEF On!JointPerms
<1>7. l1 \in DOMAIN circ.levels /\ k1 \in DOMAIN circ.levels[l1] /\ g.type = "Shuffle" /\ g.param = m
  BY <1>3, <1>4
<1> HIDE DEF l1, k1, a
<1>8. d1.pi = HalfOf1(m) /\ d2.pi = HalfOf2(m)
  <2>1. l1 \in DOMAIN circ.levels /\ k1 \in DOMAIN circ.levels[l1]
        /\ circ.levels[l1][k1].type \in ShuffleGate /\ circ.levels[l1][k1].param = m
    BY <1>7 DEF ShuffleGate
  <2>. QED  BY <2>1, HandedHalves
<1>9. DOMAIN HalfOf1(m) = 1 .. n
  BY WholeFits DEF PermOf
<1> HIDE DEF d1, d2
<1>. QED  BY <1>6, <1>8, <1>9 DEF On!Joint, Whole

(* What the preprocessing leaves for a shuffle.                            *)
LEMMA ShuffleLeft ==
  ASSUME HandedOver, P!LeavesAll, NEW i \in 1 .. Len(gates), gates[i].type \in ShuffleGate
  PROVE  LET g == gates[i]
         IN  /\ g.n \in Nat \ {0} /\ HalvesFit(g.param, g.n)
             /\ P!HalvesLeft(i, Entry1(g.param), Entry2(g.param))
             /\ P!MasksLeft(i, preproc[1][i], preproc[2][i])
             /\ g.type = "DoubleShuffle" => P!DoubleLeft(i)
<1>1. circ \in Circuits /\ gates = Flat(circ) /\ \A p \in P!Party : opc[p] = "done"
  BY DEF HandedOver, Once, AllDone, Party, P!Party
<1> DEFINE f == FlattenSeq(circ.levels)[i]
           g == gates[i]
<1>2. f \in GatesOf(circ) /\ f \in Gate /\ g.n = Len(f.in1)
      /\ g.type = IF f.type \in LocalGate \cup {"Reveal"} THEN "Local" ELSE f.type
  BY <1>1, Told
<1> HIDE DEF f
<1>3. f.type \in ShuffleGate
  BY <1>2 DEF ShuffleGate
<1>4. f.in1 # <<>> /\ f.in1 \in Seq(Nat)
  BY <1>1, <1>2, <1>3, CircuitAssumption DEF Gate
<1>5. g.n \in Nat \ {0}
  BY <1>2, <1>4
<1>6. P!GateLeft(i)
  BY <1>1 DEF P!LeavesAll
<1>7. /\ P!HalvesLeft(i, Entry1(g.param), Entry2(g.param))
      /\ P!MasksLeft(i, preproc[1][i], preproc[2][i])
      /\ g.type = "DoubleShuffle" => P!DoubleLeft(i)
  BY <1>5, <1>6 DEF P!GateLeft, P!ShuffleGate, ShuffleGate, Entry1, Entry2
<1>8. HalvesFit(g.param, g.n)
  BY <1>7, ZenonT(30) DEF P!HalvesLeft, HalvesFit, Entry1, Entry2
<1>. QED  BY <1>5, <1>7, <1>8

(* The shuffles a double shuffle is made of.                               *)
LEMMA PartLeft ==
  ASSUME HandedOver, P!LeavesAll, NEW i \in 1 .. Len(gates), gates[i].type = "DoubleShuffle",
         NEW m \in {gates[i].param2, gates[i].param3}
  PROVE  HalvesFit(m, gates[i].n) /\ On!JointPerms(circ, deal)[m] = Whole(m, gates[i].n)
<1>1. circ \in Circuits /\ gates = Flat(circ)
  BY DEF HandedOver, Once
<1>2. P!DoubleLeft(i) /\ gates[i].n \in Nat
  BY ShuffleLeft DEF ShuffleGate
<1>3. P!Made(i, m)
  BY <1>2 DEF P!DoubleLeft
<1>4. PICK j \in 1 .. i : gates[j].type \in P!ShuffleGate /\ gates[j].param = m
  BY <1>3 DEF P!Made
<1>5. i \in 1 .. Len(Flat(circ)) /\ j \in 1 .. Len(Flat(circ))
  BY <1>1, <1>4
<1> DEFINE fi == FlattenSeq(circ.levels)[i]
           fj == FlattenSeq(circ.levels)[j]
<1>6. /\ fi \in GatesOf(circ) /\ fi.type = "DoubleShuffle"
      /\ m \in {fi.param2, fi.param3}
  BY <1>1, <1>5, Told
<1>7. /\ fj \in GatesOf(circ) /\ fj.type \in ShuffleGate /\ fj.param = m /\ gates[j].type = fj.type
  BY <1>1, <1>4, <1>5, Told DEF ShuffleGate, P!ShuffleGate
<1> HIDE DEF fi, fj
<1>8. fj.type = "Shuffle"
  BY <1>1, <1>6, <1>7, CircuitAssumption DEF ShuffleGate
<1>9. gates[j].n = gates[i].n
  <2>1. P!NamesAgree(gates)
    BY <1>1, CircuitsFit
  <2>2. m \in P!PermNames(gates[i]) /\ m \in P!PermNames(gates[j])
    BY <1>4, <1>7, <1>8 DEF P!PermNames
  <2>. QED  BY <2>1, <2>2, <1>1, <1>5 DEF P!NamesAgree
<1>10. HalvesFit(m, gates[i].n)
  BY <1>1, <1>4, <1>5, <1>7, <1>9, ShuffleLeft
<1>11. PICK l \in DOMAIN circ.levels : \E k \in DOMAIN circ.levels[l] : circ.levels[l][k] = fj
  BY <1>7 DEF GatesOf
<1>12. PICK k \in DOMAIN circ.levels[l] : circ.levels[l][k] = fj
  BY <1>11
<1>. QED  BY <1>2, <1>7, <1>8, <1>10, <1>12, JointOf
-----------------------------------------------------------------------------
(* What is handed over for gate k of level l is what Online asks of it.    *)
TriplesFit(g, d1, d2) ==
  LET n == Len(g.in1)
      Fits(v) == v \in [1 .. n -> Ring]
  IN  /\ g.type \in MultGate =>
           /\ \A e \in {d1, d2} : Fits(e.a) /\ Fits(e.b) /\ Fits(e.c)
           /\ \A j \in 1 .. n :
                Times(Plus(d1.a[j], d2.a[j]), Plus(d1.b[j], d2.b[j])) = Plus(d1.c[j], d2.c[j])
      /\ g.type \in AndGate =>
           /\ \A e \in {d1, d2} : Fits(e.a) /\ Fits(e.b) /\ Fits(e.c)
           /\ AndW(XorW(d1.a[1], d2.a[1]), XorW(d1.b[1], d2.b[1])) = XorW(d1.c[1], d2.c[1])
HalvesMatch(g, d1, d2) ==
  LET n == Len(g.in1)
      Fits(v) == v \in [1 .. n -> Ring]
  IN  /\ \A e \in {d1, d2} : /\ Fits(e.mask) /\ Fits(e.b)
                             /\ PermOf(e.pi, n) /\ PermOf(e.rho, n)
      /\ \A j \in 1 .. n :
           LET to == d1.pi[d2.pi[j]] IN
           /\ d2.rho[d1.rho[j]] = to
           /\ IF g.reverse
              THEN Plus(d1.b[j], d2.b[j]) = Plus(d1.mask[to], d2.mask[to])
              ELSE Plus(d1.b[to], d2.b[to]) = Plus(d1.mask[j], d2.mask[j])

(* Gate k of level l as the preprocessing has seen it.                     *)
LEMMA SeenBefore ==
  ASSUME HandedOver, NEW l \in DOMAIN circ.levels, NEW k \in DOMAIN circ.levels[l]
  PROVE  /\ Before(l) + k \in 1 .. Len(gates)
         /\ circ.levels[l][k] \in GatesOf(circ) /\ circ.levels[l][k] \in Gate
         /\ circ.levels[l][k].type \notin LocalGate \cup {"Reveal"} =>
              gates[Before(l) + k].type = circ.levels[l][k].type
         /\ gates[Before(l) + k].n = Len(circ.levels[l][k].in1)
         /\ gates[Before(l) + k].param = circ.levels[l][k].param
         /\ gates[Before(l) + k].param2 = circ.levels[l][k].param2
         /\ gates[Before(l) + k].param3 = circ.levels[l][k].param3
         /\ gates[Before(l) + k].reverse = circ.levels[l][k].reverse
<1>1. circ \in Circuits /\ gates = Flat(circ)
  BY DEF HandedOver, Once
<1> DEFINE i == Before(l) + k
           g == circ.levels[l][k]
<1>2. i \in 1 .. Len(FlattenSeq(circ.levels)) /\ FlattenSeq(circ.levels)[i] = g
  BY <1>1, Place
<1>3. Len(Flat(circ)) = Len(FlattenSeq(circ.levels))
  <2> DEFINE fl == FlattenSeq(circ.levels)
  <2>1. fl \in Seq(GatesOf(circ))
    BY <1>1, FromTheCircuit
  <2>2. Len(fl) \in Nat
    <3> HIDE DEF fl
    <3>. QED  BY <2>1
  <2>3. Flat(circ) = [j \in 1 .. Len(fl) |-> Flat(circ)[j]]
    BY DEF Flat
  <2> DEFINE F == Flat(circ)
  <2> HIDE DEF fl, F
  <2>4. Len(F) = Len(fl)
    BY <2>2, <2>3 DEF F
  <2>. QED  BY <2>4 DEF F, fl
<1>4. i \in 1 .. Len(Flat(circ))
  BY <1>2, <1>3
<1> HIDE DEF i
<1> DEFINE h == FlattenSeq(circ.levels)[i]
           f == Flat(circ)[i]
<1>5. /\ h \in GatesOf(circ) /\ h \in Gate
      /\ f.type = IF h.type \in LocalGate \cup {"Reveal"} THEN "Local" ELSE h.type
      /\ f.n = Len(h.in1) /\ f.param = h.param /\ f.param2 = h.param2
      /\ f.param3 = h.param3 /\ f.reverse = h.reverse
  BY ZenonT(40), <1>1, <1>4, Told
<1>6. h = g /\ f = gates[i]
  BY <1>1, <1>2
<1> HIDE DEF h, f, g
<1>. QED  BY <1>1, <1>4, <1>3, <1>5, <1>6 DEF i, g

(* Triples are handed over as the preprocessing made them.                 *)
LEMMA TriplesHanded ==
  ASSUME HandedOver, P!LeavesAll, NEW l \in DOMAIN circ.levels, NEW k \in DOMAIN circ.levels[l],
         circ.levels[l][k].type \in MultGate \cup AndGate
  PROVE  TriplesFit(circ.levels[l][k], deal[1][l][k], deal[2][l][k])
<1> DEFINE i  == Before(l) + k
           g  == circ.levels[l][k]
           n  == Len(g.in1)
           v1 == preproc[1][i]
           v2 == preproc[2][i]
           d1 == deal[1][l][k]
           d2 == deal[2][l][k]
           Word1(v) == v \in [1 .. n -> Ring]
           Taken(w, v) == \A j \in 1 .. n : j - 1 \in P!Idx(n) /\ w[j] = v[j - 1]
<1>1. /\ i \in 1 .. Len(gates) /\ g \in GatesOf(circ) /\ g \in Gate
      /\ gates[i].n = n /\ gates[i].type = g.type /\ g.type \in MultGate \cup AndGate
  BY SeenBefore DEF MultGate, AndGate, LocalGate
<1>2. d1 = ABCOf(1, l, k) /\ d2 = ABCOf(2, l, k)
  BY Handed DEF Online
<1>3. /\ d1.a = FromOne(v1.a) /\ d1.b = FromOne(v1.b) /\ d1.c = FromOne(v1.c)
      /\ d2.a = FromOne(v2.a) /\ d2.b = FromOne(v2.b) /\ d2.c = FromOne(v2.c)
  BY <1>2 DEF ABCOf
<1>4. P!TripleLeft(i, v1, v2)
  <2>1. \A p \in P!Party : opc[p] = "done"
    BY DEF HandedOver, AllDone, Party, P!Party
  <2>2. P!GateLeft(i)
    BY <1>1, <2>1 DEF P!LeavesAll
  <2>. QED  BY <1>1, <2>2 DEF P!GateLeft, P!TripleGate, P!ArithTriple, P!BinTriple, MultGate, AndGate
<1>5. g.type \in AndGate => n = 1
  BY <1>1, CircuitsFit DEF HandedOver, Once, P!BinTriple, AndGate
<1>6. n \in Nat
  BY <1>1 DEF Gate
<1>7. P!Bin(i) <=> g.type \in AndGate
  BY <1>1 DEF P!Bin, P!BinTriple, AndGate, MultGate
<1> HIDE DEF g, n, v1, v2, d1, d2
<1>8. /\ {v1.a, v1.b, v1.c} \subseteq [P!Idx(n) -> Ring]
      /\ {v2.a, v2.b, v2.c} \subseteq [P!Idx(n) -> Ring]
      /\ \A j \in P!Idx(n) :
           IF P!Bin(i)
           THEN AndW(XorW(v1.a[j], v2.a[j]), XorW(v1.b[j], v2.b[j])) = XorW(v1.c[j], v2.c[j])
           ELSE Times(Plus(v1.a[j], v2.a[j]), Plus(v1.b[j], v2.b[j])) = Plus(v1.c[j], v2.c[j])
  <2>1. \A x, y \in [P!Idx(n) -> Ring] : x = x
    OBVIOUS
  <2>. QED  BY <1>1, <1>4 DEF P!TripleLeft, P!Ring, Ring, P!Times, Times, P!Plus, Plus
<1>9. /\ Word1(d1.a) /\ Taken(d1.a, v1.a) /\ Word1(d1.b) /\ Taken(d1.b, v1.b)
      /\ Word1(d1.c) /\ Taken(d1.c, v1.c)
      /\ Word1(d2.a) /\ Taken(d2.a, v2.a) /\ Word1(d2.b) /\ Taken(d2.b, v2.b)
      /\ Word1(d2.c) /\ Taken(d2.c, v2.c)
  <2>1. ASSUME NEW v \in [P!Idx(n) -> Ring] PROVE Word1(FromOne(v)) /\ Taken(FromOne(v), v)
    BY SMTT(30), <1>6, CountedFromOne
  <2> HIDE DEF Word1, Taken
  <2>. QED  BY <1>3, <1>8, <2>1
<1>10. ASSUME g.type \in MultGate, NEW j \in 1 .. n
       PROVE  Times(Plus(d1.a[j], d2.a[j]), Plus(d1.b[j], d2.b[j])) = Plus(d1.c[j], d2.c[j])
  <2>1. ~ P!Bin(i) /\ j - 1 \in P!Idx(n)
    BY <1>7, <1>9, <1>10 DEF MultGate, AndGate
  <2>. QED  BY <2>1, <1>8, <1>9
<1>11. ASSUME g.type \in AndGate
       PROVE  AndW(XorW(d1.a[1], d2.a[1]), XorW(d1.b[1], d2.b[1])) = XorW(d1.c[1], d2.c[1])
  <2> DEFINE j == 1
  <2>1. P!Bin(i) /\ j \in 1 .. n /\ j - 1 \in P!Idx(n)
    BY <1>5, <1>7, <1>9, <1>11
  <2> HIDE DEF j
  <2>2. AndW(XorW(d1.a[j], d2.a[j]), XorW(d1.b[j], d2.b[j])) = XorW(d1.c[j], d2.c[j])
    BY <2>1, <1>8, <1>9
  <2>. QED  BY <2>2 DEF j
<1>12. \A e \in {d1, d2} : Word1(e.a) /\ Word1(e.b) /\ Word1(e.c)
  BY <1>9
<1>. QED  BY <1>10, <1>11, <1>12, ZenonT(30) DEF TriplesFit, g, n, d1, d2

(* The same for the halves of shuffles and their masks.                    *)
LEMMA HalvesHanded ==
  ASSUME HandedOver, P!LeavesAll, NEW l \in DOMAIN circ.levels, NEW k \in DOMAIN circ.levels[l],
         circ.levels[l][k].type \in ShuffleGate
  PROVE  HalvesMatch(circ.levels[l][k], deal[1][l][k], deal[2][l][k])
<1> DEFINE i  == Before(l) + k
           g  == circ.levels[l][k]
           m  == g.param
           n  == Len(g.in1)
           v1 == preproc[1][i]
           v2 == preproc[2][i]
           d1 == deal[1][l][k]
           d2 == deal[2][l][k]
           e1 == Entry1(m)
           e2 == Entry2(m)
           Words(v) == v \in [1 .. n -> Ring]
           Taken(w, v) == \A j \in 1 .. n : j - 1 \in P!Idx(n) /\ w[j] = v[j - 1]
           TakenPerm(w, f) == \A j \in 1 .. n : /\ j - 1 \in P!Idx(n) /\ f[j - 1] \in P!Idx(n)
                                                /\ w[j] = f[j - 1] + 1
<1>1. /\ i \in 1 .. Len(gates) /\ gates[i].n = n /\ gates[i].param = m /\ gates[i].reverse = g.reverse
      /\ gates[i].type = g.type /\ g.type \in ShuffleGate
  BY SeenBefore DEF ShuffleGate, LocalGate
<1>2. /\ n \in Nat \ {0} /\ HalvesFit(m, n)
      /\ P!HalvesLeft(i, e1, e2) /\ P!MasksLeft(i, v1, v2)
  BY <1>1, ShuffleLeft
<1>3. /\ d1.pi = HalfOf1(m) /\ d2.pi = HalfOf2(m)
      /\ d1.rho = PermFromOne(e1.rho0) /\ d2.rho = PermFromOne(e2.rho1)
      /\ d1.mask = FromOne(v1.mask) /\ d2.mask = FromOne(v2.mask)
      /\ d1.b = FromOne(v1.b) /\ d2.b = FromOne(v2.b)
  BY HandedHalves
<1> DEFINE pi == P!Joint(m, n)
<1> HIDE DEF i, g, n, m, v1, v2, d1, d2, e1, e2, pi
<1>4. /\ PermOf(d1.pi, n) /\ PermOf(d2.pi, n)
      /\ \A j \in 1 .. n : /\ j - 1 \in P!Idx(n) /\ d1.pi[d2.pi[j]] \in 1 .. n
                           /\ d1.pi[d2.pi[j]] = pi[j - 1] + 1
  <2>1. /\ PermOf(HalfOf1(m), n) /\ PermOf(HalfOf2(m), n)
        /\ \A j \in 1 .. n : /\ j - 1 \in P!Idx(n) /\ Whole(m, n)[j] \in 1 .. n
                             /\ Whole(m, n)[j] = pi[j - 1] + 1
    BY <1>2, WholeFits DEF pi
  <2>2. \A j \in 1 .. n : Whole(m, n)[j] = d1.pi[d2.pi[j]]
    BY <1>3 DEF Whole
  <2>. QED  BY <1>3, <2>1, <2>2
<1>5. /\ P!IsPermutation(e1.rho0, n) /\ P!IsPermutation(e2.rho1, n)
      /\ \A j \in P!Idx(n) : e2.rho1[e1.rho0[j]] = e1.pi0[e2.pi1[j]]
  BY <1>1, <1>2 DEF P!HalvesLeft
<1>6. /\ PermOf(d1.rho, n) /\ PermOf(d2.rho, n)
      /\ TakenPerm(d1.rho, e1.rho0) /\ TakenPerm(d2.rho, e2.rho1)
  BY <1>2, <1>3, <1>5, PermFromOneFits
<1>7. \A j \in P!Idx(n) : pi[j] = e1.pi0[e2.pi1[j]]
  BY ZenonT(30) DEF pi, P!Joint, e1, e2, Entry1, Entry2
<1>8. /\ {v1.mask, v1.b} \subseteq [P!Idx(n) -> Ring] /\ {v2.mask, v2.b} \subseteq [P!Idx(n) -> Ring]
      /\ \A j \in P!Idx(n) :
           IF g.reverse THEN Plus(v1.b[j], v2.b[j]) = Plus(v1.mask[pi[j]], v2.mask[pi[j]])
                        ELSE Plus(v1.b[pi[j]], v2.b[pi[j]]) = Plus(v1.mask[j], v2.mask[j])
  BY <1>1, <1>2 DEF P!MasksLeft, P!Ring, Ring, P!Plus, Plus, pi
<1>9. /\ Words(d1.mask) /\ Taken(d1.mask, v1.mask) /\ Words(d1.b) /\ Taken(d1.b, v1.b)
      /\ Words(d2.mask) /\ Taken(d2.mask, v2.mask) /\ Words(d2.b) /\ Taken(d2.b, v2.b)
  <2>1. ASSUME NEW v \in [P!Idx(n) -> Ring] PROVE Words(FromOne(v)) /\ Taken(FromOne(v), v)
    BY <1>2, CountedFromOne
  <2> HIDE DEF Words, Taken
  <2>. QED  BY <1>3, <1>8, <2>1
<1>10. ASSUME NEW j \in 1 .. n
       PROVE  LET to == d1.pi[d2.pi[j]] IN
              /\ d2.rho[d1.rho[j]] = to
              /\ IF g.reverse
                 THEN Plus(d1.b[j], d2.b[j]) = Plus(d1.mask[to], d2.mask[to])
                 ELSE Plus(d1.b[to], d2.b[to]) = Plus(d1.mask[j], d2.mask[j])
  <2> DEFINE to == d1.pi[d2.pi[j]]
             x  == j - 1
             r  == d1.rho[j]
  <2>1. x \in P!Idx(n) /\ to \in 1 .. n /\ to = pi[x] + 1
    BY <1>4
  <2>2. d2.rho[r] = to
    <3>1. e1.rho0[x] \in P!Idx(n) /\ r = e1.rho0[x] + 1
      BY <1>6
    <3>2. r \in 1 .. n /\ r - 1 = e1.rho0[x]
      BY <1>2, <3>1 DEF P!Idx
    <3> HIDE DEF r, x, to
    <3>3. d2.rho[r] = e2.rho1[e1.rho0[x]] + 1
      BY <1>6, <3>2
    <3>. QED  BY <3>3, <2>1, <1>5, <1>7
  <2>3. to - 1 = pi[x]
    <3> HIDE DEF to, x
    <3>1. pi[x] \in Int
      <4>1. x \in P!Idx(n) /\ e2.pi1[x] \in P!Idx(n)
        BY <2>1, <1>2 DEF HalvesFit, P!IsPermutation, e2, Entry2
      <4>2. e1.pi0[e2.pi1[x]] \in P!Idx(n)
        BY <4>1, <1>2 DEF HalvesFit, P!IsPermutation, e1, Entry1
      <4>. QED  BY <4>1, <4>2, <1>7, <1>2 DEF P!Idx
    <3>. QED  BY <2>1, <3>1
  <2>4. /\ d1.b[to] = v1.b[pi[x]] /\ d2.b[to] = v2.b[pi[x]] /\ d1.b[j] = v1.b[x] /\ d2.b[j] = v2.b[x]
        /\ d1.mask[to] = v1.mask[pi[x]] /\ d2.mask[to] = v2.mask[pi[x]]
        /\ d1.mask[j] = v1.mask[x] /\ d2.mask[j] = v2.mask[x]
    <3> HIDE DEF to
    <3>. QED  BY <2>1, <2>3, <1>9
  <2> HIDE DEF to, x
  <2>5. IF g.reverse THEN Plus(d1.b[j], d2.b[j]) = Plus(d1.mask[to], d2.mask[to])
                     ELSE Plus(d1.b[to], d2.b[to]) = Plus(d1.mask[j], d2.mask[j])
    BY <2>1, <2>4, <1>8
  <2>. QED  BY <2>2, <2>5 DEF to
<1>11. \A e \in {d1, d2} : /\ Words(e.mask) /\ Words(e.b) /\ PermOf(e.pi, n) /\ PermOf(e.rho, n)
  BY <1>4, <1>6, <1>9
<1>. QED  BY <1>10, <1>11, ZenonT(30) DEF HalvesMatch, g, n, d1, d2

(* The halves of a gate compose to the permutation the gate stands for.    *)
LEMMA JointHanded ==
  ASSUME HandedOver, P!LeavesAll, NEW l \in DOMAIN circ.levels, NEW k \in DOMAIN circ.levels[l],
         circ.levels[l][k].type \in ShuffleGate
  PROVE  On!Joint(deal[1][l][k], deal[2][l][k])
           = On!PermOfGate(circ.levels[l][k], On!JointPerms(circ, deal))
<1> DEFINE i  == Before(l) + k
           g  == circ.levels[l][k]
           n  == Len(g.in1)
           JP == On!JointPerms(circ, deal)
           d1 == deal[1][l][k]
           d2 == deal[2][l][k]
<1>1. /\ i \in 1 .. Len(gates) /\ gates[i].n = n /\ gates[i].param = g.param
      /\ gates[i].param2 = g.param2 /\ gates[i].param3 = g.param3
      /\ gates[i].type = g.type /\ g.type \in ShuffleGate
  BY SeenBefore DEF ShuffleGate, LocalGate
<1>2. /\ n \in Nat \ {0} /\ HalvesFit(g.param, n)
      /\ g.type = "DoubleShuffle" => P!DoubleLeft(i)
  BY <1>1, ShuffleLeft
<1>3. On!Joint(d1, d2) = Whole(g.param, n)
  <2> DEFINE m == g.param
  <2>1. d1.pi = HalfOf1(m) /\ d2.pi = HalfOf2(m)
    BY HandedHalves
  <2>2. DOMAIN HalfOf1(m) = 1 .. n
    BY <1>2, WholeFits DEF PermOf
  <2> HIDE DEF d1, d2, m, n
  <2>3. On!Joint(d1, d2) = Whole(m, n)
    BY <2>1, <2>2 DEF On!Joint, Whole
  <2>. QED  BY <2>3 DEF m
<1>4. ASSUME g.type = "Shuffle" PROVE Whole(g.param, n) = On!PermOfGate(g, JP)
  <2> DEFINE m == g.param
  <2>1. circ.levels[l][k].type = "Shuffle" /\ circ.levels[l][k].param = m /\ HalvesFit(m, n)
    BY <1>2, <1>4
  <2>2. JP[m] = Whole(m, n)
    <3> HIDE DEF m, n
    <3>. QED  BY <1>2, <2>1, JointOf
  <2> HIDE DEF JP
  <2>. QED  BY <1>4, <2>2 DEF On!PermOfGate
<1>5. ASSUME g.type = "DoubleShuffle" PROVE Whole(g.param, n) = On!PermOfGate(g, JP)
  <2>1. /\ HalvesFit(g.param2, n) /\ JP[g.param2] = Whole(g.param2, n)
        /\ HalvesFit(g.param3, n) /\ JP[g.param3] = Whole(g.param3, n)
    BY <1>1, <1>5, PartLeft
  <2> DEFINE A  == Whole(g.param, n)
             B  == Whole(g.param2, n)
             C  == Whole(g.param3, n)
             JA == P!Joint(g.param, n)
             JB == P!Joint(g.param2, n)
             JC == P!Joint(g.param3, n)
             I  == On!Inverted(B, n)
  <2>2. \A j \in P!Idx(n) : JA[JB[j]] = JC[j]
    BY <1>1, <1>2, <1>5 DEF P!DoubleLeft
  <2>3. PermOf(B, n) /\ \A j \in 1 .. n : /\ j - 1 \in P!Idx(n) /\ B[j] \in 1 .. n
                                          /\ B[j] = JB[j - 1] + 1
    BY <1>2, <2>1, WholeFits, ZenonT(30)
  <2>4. \A j \in 1 .. n : A[j] \in 1 .. n /\ A[j] = JA[j - 1] + 1 /\ C[j] = JC[j - 1] + 1
    BY <1>2, <2>1, WholeFits
  <2>5. \A j \in P!Idx(n) : JB[j] \in Int
    <3> DEFINE f == ctx[1].perms[g.param2 + 1].pi0
               h == ctx[2].perms[g.param2 + 1].pi1
    <3>1. f \in [P!Idx(n) -> P!Idx(n)] /\ h \in [P!Idx(n) -> P!Idx(n)]
      BY <2>1, ZenonT(30) DEF HalvesFit, P!IsPermutation
    <3>2. \A j \in P!Idx(n) : JB[j] = f[h[j]]
      BY ZenonT(30) DEF P!Joint
    <3>3. P!Idx(n) \subseteq Int
      BY <1>2 DEF P!Idx
    <3> HIDE DEF f, h, JB
    <3>. QED  BY <3>1, <3>2, <3>3
  <2>6. A = [j \in 1 .. n |-> A[j]]
    BY DEF Whole
  <2>7. I = [j \in 1 .. n |-> CHOOSE x \in 1 .. n : B[x] = j]
    BY DEF On!Inverted
  <2>8. On!PermOfGate(g, JP) = [j \in 1 .. n |-> C[I[j]]]
    <3> DEFINE x == JP[g.param2]
               y == JP[g.param3]
    <3>1. On!PermOfGate(g, JP) = [j \in 1 .. n |-> y[On!Inverted(x, n)[j]]]
      BY <1>5 DEF On!PermOfGate
    <3>2. x = B /\ y = C
      BY <2>1
    <3> HIDE DEF x, y, B, C
    <3>. QED  BY <3>1, <3>2
  <2> HIDE DEF A, B, C, JA, JB, JC, I, n
  <2>9. \A j \in 1 .. n : B[I[j]] = j /\ I[j] \in 1 .. n
    <3> TAKE j \in 1 .. n
    <3>1. \E x \in 1 .. n : B[x] = j
      BY <1>2, <2>3, Reached
    <3>2. I[j] = CHOOSE x \in 1 .. n : B[x] = j
      BY <2>7
    <3>. QED  BY <3>1, <3>2
  <2>10. \A x \in 1 .. n : A[B[x]] = C[x]
    <3> TAKE x \in 1 .. n
    <3>1. x - 1 \in P!Idx(n) /\ B[x] \in 1 .. n /\ B[x] - 1 = JB[x - 1]
      BY <2>3, <2>5
    <3>. QED  BY <3>1, <2>2, <2>4
  <2>11. \A j \in 1 .. n : C[I[j]] = A[j]
    BY <2>9, <2>10
  <2>12. A = [j \in 1 .. n |-> C[I[j]]]
    BY <2>6, <2>11
  <2>. QED  BY <2>8, <2>12 DEF A, n
<1>. QED  BY <1>1, <1>3, <1>4, <1>5 DEF ShuffleGate

(* All that Online asks of the material for one gate.                      *)
AsAsked(l, k) ==
  LET g  == circ.levels[l][k]
      n  == Len(g.in1)
      d1 == deal[1][l][k]
      d2 == deal[2][l][k]
      Fits(v) == v \in [1 .. n -> On!Ring]
  IN  /\ g.type \in On!MultGate =>
           /\ \A e \in {d1, d2} : Fits(e.a) /\ Fits(e.b) /\ Fits(e.c)
           /\ \A j \in 1 .. n :
                On!Times(On!Plus(d1.a[j], d2.a[j]), On!Plus(d1.b[j], d2.b[j]))
                  = On!Plus(d1.c[j], d2.c[j])
      /\ g.type \in On!AndGate =>
           /\ \A e \in {d1, d2} : Fits(e.a) /\ Fits(e.b) /\ Fits(e.c)
           /\ AndW(XorW(d1.a[1], d2.a[1]), XorW(d1.b[1], d2.b[1])) = XorW(d1.c[1], d2.c[1])
      /\ g.type \in On!ShuffleGate =>
           /\ \A e \in {d1, d2} : /\ Fits(e.mask) /\ Fits(e.b)
                                  /\ On!PermOf(e.pi, n) /\ On!PermOf(e.rho, n)
           /\ On!Joint(d1, d2) = On!PermOfGate(g, On!JointPerms(circ, deal))
           /\ \A j \in 1 .. n :
                LET to == d1.pi[d2.pi[j]] IN
                /\ d2.rho[d1.rho[j]] = to
                /\ IF g.reverse
                   THEN On!Plus(d1.b[j], d2.b[j]) = On!Plus(d1.mask[to], d2.mask[to])
                   ELSE On!Plus(d1.b[to], d2.b[to]) = On!Plus(d1.mask[j], d2.mask[j])

LEMMA AllHanded ==
  ASSUME HandedOver, P!LeavesAll
  PROVE  On!Correlated(circ, deal)
<1>1. ASSUME NEW l \in DOMAIN circ.levels, NEW k \in DOMAIN circ.levels[l]
      PROVE  LET g  == circ.levels[l][k]
                 d1 == deal[1][l][k]
                 d2 == deal[2][l][k]
             IN  /\ g.type \in MultGate \cup AndGate => TriplesFit(g, d1, d2)
                 /\ g.type \in ShuffleGate =>
                      /\ HalvesMatch(g, d1, d2)
                      /\ On!Joint(d1, d2) = On!PermOfGate(g, On!JointPerms(circ, deal))
  BY TriplesHanded, HalvesHanded, JointHanded
<1>2. /\ On!MultGate = MultGate /\ On!AndGate = AndGate /\ On!ShuffleGate = ShuffleGate
      /\ On!Ring = Ring
  BY DEF On!MultGate, MultGate, On!AndGate, AndGate, On!ShuffleGate, ShuffleGate, On!Ring, Ring
<1>3. ASSUME NEW l \in DOMAIN circ.levels, NEW k \in DOMAIN circ.levels[l]
      PROVE  AsAsked(l, k)
  <2> DEFINE g  == circ.levels[l][k]
             n  == Len(g.in1)
             d1 == deal[1][l][k]
             d2 == deal[2][l][k]
             f  == On!Joint(d1, d2) = On!PermOfGate(g, On!JointPerms(circ, deal))
  <2>1. /\ g.type \in MultGate \cup AndGate => TriplesFit(g, d1, d2)
        /\ g.type \in ShuffleGate => HalvesMatch(g, d1, d2) /\ f
    BY <1>1
  <2>. HIDE DEF g, d1, d2, f
  <2> DEFINE Fits(v) == v \in [1 .. n -> On!Ring]
  <2>2. ASSUME g.type \in On!MultGate \cup On!AndGate
        PROVE  \A e \in {d1, d2} : Fits(e.a) /\ Fits(e.b) /\ Fits(e.c)
    BY <1>2, <2>1, <2>2 DEF TriplesFit
  <2>3. ASSUME g.type \in On!MultGate, NEW j \in 1 .. n
        PROVE  On!Times(On!Plus(d1.a[j], d2.a[j]), On!Plus(d1.b[j], d2.b[j]))
                 = On!Plus(d1.c[j], d2.c[j])
    BY <1>2, <2>1, <2>3 DEF TriplesFit, On!Times, Times, On!Plus, Plus
  <2>4. ASSUME g.type \in On!AndGate
        PROVE  AndW(XorW(d1.a[1], d2.a[1]), XorW(d1.b[1], d2.b[1])) = XorW(d1.c[1], d2.c[1])
    BY <1>2, <2>1, <2>4 DEF TriplesFit
  <2>5. ASSUME g.type \in On!ShuffleGate
        PROVE  /\ f
               /\ \A e \in {d1, d2} : /\ Fits(e.mask) /\ Fits(e.b)
                                      /\ On!PermOf(e.pi, n) /\ On!PermOf(e.rho, n)
    BY <1>2, <2>1, <2>5 DEF HalvesMatch, On!PermOf, PermOf
  <2>6. ASSUME g.type \in On!ShuffleGate, NEW j \in 1 .. n
        PROVE  LET to == d1.pi[d2.pi[j]] IN
               /\ d2.rho[d1.rho[j]] = to
               /\ IF g.reverse
                  THEN On!Plus(d1.b[j], d2.b[j]) = On!Plus(d1.mask[to], d2.mask[to])
                  ELSE On!Plus(d1.b[to], d2.b[to]) = On!Plus(d1.mask[j], d2.mask[j])
    BY <1>2, <2>1, <2>6 DEF HalvesMatch, On!Plus, Plus
  <2>. QED  BY <2>2, <2>3, <2>4, <2>5, <2>6, ZenonT(30) DEF AsAsked, f, g, d1, d2
<1>. QED  BY <1>3, ZenonT(30) DEF On!Correlated, AsAsked

(* In a program that runs once, what the parties hand over to the online   *)
(* phase is, gate by gate, the correlated material that phase takes for    *)
(* granted: products shared by triples, halves of one permutation, masks   *)
(* that belong to them, whatever the pace of the three parties.            *)
THEOREM HandsOver ==
  ASSUME \A c \in Circuits : RepsOf(c) = {1}
  PROVE  Spec => []HandsOverCorrelated
<1>1. Once /\ P!LeavesAll => HandsOverCorrelated
  <2> SUFFICES ASSUME Once, P!LeavesAll, \A p \in Online : pc[p] # "preprocessing"
               PROVE  On!Correlated(circ, deal)
    BY DEF HandsOverCorrelated
  <2>1. HandedOver
    <3>1. AllDone /\ \A q \in Online : deal[q] = Dealt(q)
      BY DEF Once, Online
    <3>2. deal = [q \in Online |-> deal[q]]
      BY DEF Once
    <3>. QED  BY <3>1, <3>2 DEF HandedOver
  <2>. QED  BY <2>1, AllHanded
<1>2. OnceOnly
  BY DEF OnceOnly
<1>. QED  BY <1>1, <1>2, OnceLeavesAll, PTL
=============================================================================
