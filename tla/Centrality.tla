----------------------------- MODULE Centrality -----------------------------
(***************************************************************************)
(* The centrality circuits of src/benchmark/subcircuits.cpp, gate by gate  *)
(* in the clear: radix sorts of a list of nodes and edges, then rounds of  *)
(* message passing over it.  One action stands for the gates of one        *)
(* iteration of a loop, or of one step between two loops.                  *)
(*                                                                         *)
(* A node v is the entry <<v, v>> of the list, an edge from u to v the     *)
(* entry <<u, v>>; entries come in any order.                              *)
(***************************************************************************)
EXTENDS Vectors

CONSTANTS Jobs,           \* what is computed of what: see Job
          ShufflesOf(_)   \* the permutations a shuffle of n elements may be

(* A measure, or "sort" for the driver sort.cpp; the list, whose ends are  *)
(* words, the number of its nodes, the bits of an end of an edge, and the  *)
(* weights of the walks of length 1, 2, ...  Their number is the search    *)
(* depth.                                                                  *)
Job(job) ==
  LET nodes == {k \in DOMAIN job.list : job.list[k][1] = job.list[k][2]} IN
  /\ job.measure \in {"pi_1", "pi_2", "pi_3", "sort"}
  /\ job.list \in Seq(Ring \X Ring) /\ job.weights \in Seq(Ring) /\ Len(job.weights) > 0
  /\ job.n \in Nat \ {0} /\ job.bits \in Nat \ {0}
  /\ IF job.measure = "sort" THEN \A k \in DOMAIN job.list : job.list[k][1] < 2^job.bits
     ELSE /\ \A k \in DOMAIN job.list : \A i \in {1, 2} : job.list[k][i] \in 1 .. job.n
          /\ Cardinality(nodes) = job.n /\ {job.list[k][1] : k \in nodes} = 1 .. job.n
          /\ 2^job.bits > job.n + 1

ASSUME JobsAssumption == \A job \in Jobs : Job(job)
ASSUME ShufflesAssumption ==
  \A job \in Jobs : \A f \in ShufflesOf(Len(job.list)) : PermOf(f, Len(job.list))

VARIABLES job,        \* never changes
          pc,         \* the next loop or step
          bit,        \* bits the loop at pc has sorted by
          order,      \* position of every entry, by the name of an ordering
          duplicate,  \* pi_2: 1 for an entry equal to an earlier one
          shuffle,    \* the permutations of the message passing, by ordering
          open,       \* the orderings, shuffled and revealed
          node,       \* pi_1: the node whose reach is counted
          round,      \* rounds of message passing so far
          payload,    \* payload of the entries, in vertex order
          out         \* what is output

vars == <<job, pc, bit, order, duplicate, shuffle, open, node, round, payload, out>>
-----------------------------------------------------------------------------
Size      == Len(job.list)
Entries   == DOMAIN job.list
Depth     == Len(job.weights)
Shuffles  == ShufflesOf(Size)
From(k)   == job.list[k][1]
To(k)     == job.list[k][2]
IsNode(k) == From(k) = To(k)

VertexFlags == [k \in Entries |-> IF IsNode(k) THEN 1 ELSE 0]
(* Bit b (from 0) of one end of all entries; pi_2 pushes `duplicate' as    *)
(* one more bit of both ends.                                              *)
Bit(end, b) == IF b = job.bits THEN duplicate
               ELSE [k \in Entries |-> (job.list[k][end] \div 2^b) % 2]

(* Sort by one more bit: keys are brought into the order sigma, and their  *)
(* compaction is composed with it, both under the shuffle f.               *)
SortingIteration(sigma, keys, f) ==
  LET clear == Moved(sigma, f)
      rho   == Compaction(Reordered(Moved(keys, f), clear))
  IN  MovedBack(ReorderedBack(rho, clear), f)

(* From one order of the message passing to another.                       *)
DoubleShuffled(x, from, to) == Moved(MovedBack(x, shuffle[from]), shuffle[to])
Travel(x, from, to) ==
  Reordered(DoubleShuffled(ReorderedBack(x, open[from]), from, to), open[to])
-----------------------------------------------------------------------------
Orderings == {"source", "dest", "both", "vertex"}

Init ==
  /\ job \in Jobs
  /\ pc = CASE job.measure = "sort" -> "keys"
            [] job.measure = "pi_2" -> "dest"
            [] OTHER                -> "source"
  /\ bit = 0
  /\ order = [o \in Orderings |-> <<>>]
  /\ duplicate = <<>>
  /\ shuffle = [o \in Orderings |-> <<>>]
  /\ open = [o \in Orderings |-> <<>>]
  /\ node = 1 /\ round = 0 /\ payload = <<>> /\ out = <<>>

(* The bits an ordering is sorted by: pi_2 has one more bit of the source. *)
BitsOf(o) == IF o = "source" /\ job.measure = "pi_2" THEN job.bits + 1 ELSE job.bits
EndOf(o)  == IF o = "dest" THEN 2 ELSE 1

(* The compaction by the flag starts an ordering; pi_2 goes on from the    *)
(* ordering by destination to sort by source as well.                      *)
(* Mutant: nodes come last in both orderings.                              *)
StartOfUnflipped(o) == IF o = "both" THEN order["dest"] ELSE Compaction(VertexFlags)
StartOf(o) ==
  CASE o = "source" -> Compaction(Flipped(VertexFlags))
    [] o = "dest"   -> Compaction(VertexFlags)
    [] o = "both"   -> order["dest"]

StartSort(o) ==
  /\ pc = o /\ order[o] = <<>>
  /\ order' = [order EXCEPT ![o] = StartOf(o)]
  /\ UNCHANGED <<job, pc, bit, duplicate, shuffle, open, node, round, payload, out>>

SortByBit(o) ==
  /\ pc = o /\ order[o] # <<>> /\ bit < BitsOf(o)
  /\ \E f \in Shuffles :
       order' = [order EXCEPT ![o] = SortingIteration(order[o], Bit(EndOf(o), bit), f)]
  /\ bit' = bit + 1
  /\ UNCHANGED <<job, pc, duplicate, shuffle, open, node, round, payload, out>>

AfterSort(o) ==
  CASE job.measure = "pi_2" -> [dest |-> "both", both |-> "duplicates", source |-> "last"][o]
    [] OTHER -> [source |-> "dest", dest |-> "vertex"][o]

FinishSort(o) ==
  /\ pc = o /\ order[o] # <<>> /\ bit = BitsOf(o)
  /\ pc' = AfterSort(o)
  /\ bit' = 0
  /\ UNCHANGED <<job, order, duplicate, shuffle, open, node, round, payload, out>>

(* An entry is a duplicate if it equals the entry before it in the order   *)
(* by source, destination and flag.  The flags are brought back to the     *)
(* order of the list.                                                      *)
(* Mutant: edges to the same node are duplicates.                          *)
EqualsPrior(x, k) == Minus(x[k], x[k - 1]) = 0
DuplicatesByDest(source, dest) ==
  [k \in 1 .. Len(source) |-> IF k > 1 /\ EqualsPrior(dest, k) THEN 1 ELSE 0]
Duplicates(source, dest) ==
  [k \in 1 .. Len(source) |->
     IF k > 1 /\ EqualsPrior(source, k) /\ EqualsPrior(dest, k) THEN 1 ELSE 0]
Ends(end) == [k \in Entries |-> Composed([b \in 1 .. job.bits |-> Bit(end, b - 1)[k]])]

FindDuplicates ==
  /\ pc = "duplicates"
  /\ \E f \in Shuffles :
       LET clear == Moved(order["both"], f)
           Sorted(end) == Reordered(Moved(Ends(end), f), clear)
       IN  duplicate' = MovedBack(ReorderedBack(Duplicates(Sorted(1), Sorted(2)), clear), f)
  /\ pc' = "source"
  /\ UNCHANGED <<job, bit, order, shuffle, open, node, round, payload, out>>

(* pi_2: the ordering by destination gets the new last bit.                *)
SortLastBit ==
  /\ pc = "last"
  /\ \E f \in Shuffles :
       order' = [order EXCEPT !["dest"] =
                   SortingIteration(order["dest"], Bit(2, job.bits), f)]
  /\ pc' = "vertex"
  /\ UNCHANGED <<job, bit, duplicate, shuffle, open, node, round, payload, out>>

(* Nodes first.                                                            *)
SortVertices ==
  /\ pc = "vertex"
  /\ \E f \in Shuffles :
       order' = [order EXCEPT !["vertex"] =
                   SortingIteration(order["dest"], Flipped(VertexFlags), f)]
  /\ pc' = "prepare"
  /\ UNCHANGED <<job, bit, duplicate, shuffle, open, node, round, payload, out>>
-----------------------------------------------------------------------------
Passed == {"source", "dest", "vertex"}

PrepareShufflings ==
  /\ pc = "prepare"
  /\ \E f \in [Passed -> Shuffles] :
       /\ shuffle' = [o \in Orderings |-> IF o \in Passed THEN f[o] ELSE <<>>]
       /\ open' = [o \in Orderings |-> IF o \in Passed THEN Moved(order[o], f[o]) ELSE <<>>]
  /\ pc' = "enter"
  /\ UNCHANGED <<job, bit, order, duplicate, node, round, payload, out>>

(* pi_1 starts with 1 at the node whose reach it counts.                   *)
InitialPayload ==
  [k \in Entries |-> IF job.measure = "pi_1" /\ IsNode(k) /\ From(k) = node THEN 1 ELSE 0]

EnterPassing ==
  /\ pc = "enter"
  /\ payload' = Reordered(Moved(InitialPayload, shuffle["vertex"]), open["vertex"])
  /\ round' = 0
  /\ pc' = "pass"
  /\ UNCHANGED <<job, bit, order, duplicate, shuffle, open, node, out>>

(* Nodes to their outgoing edges, edges to where they point, back to nodes.*)
Sent(x) ==
  LET source == Propagated(Travel(PreparedPropagate(x, job.n), "vertex", "source"),
                           Travel(x, "vertex", "source"))
      dest   == PreparedGather(Travel(source, "source", "dest"))
  IN  Gathered(Travel(dest, "dest", "vertex"), job.n)

(* Mutant: the weight of the shortest walks first.                         *)
WeightedInOrder(x) == AddedConst(x, job.weights[round + 1], job.n)
Weighted(x) == AddedConst(x, job.weights[Depth - round], job.n)

(* pi_1 adds what the nodes had before.  Mutant: it does not.              *)
PassRoundForgets ==
  /\ pc = "pass" /\ round < Depth
  /\ payload' = IF job.measure = "pi_1" THEN Sent(payload) ELSE Sent(Weighted(payload))
  /\ round' = round + 1
  /\ UNCHANGED <<job, pc, bit, order, duplicate, shuffle, open, node, out>>
PassRound ==
  /\ pc = "pass" /\ round < Depth
  /\ payload' = IF job.measure = "pi_1" THEN AddedVec(Sent(payload), payload)
                ELSE Sent(Weighted(payload))
  /\ round' = round + 1
  /\ UNCHANGED <<job, pc, bit, order, duplicate, shuffle, open, node, out>>

(* Mutant: the values stay in the order of the list.                       *)
OutputInListOrder ==
  /\ pc = "pass" /\ round = Depth /\ job.measure # "pi_1"
  /\ out' = SubSeq(MovedBack(ReorderedBack(payload, open["vertex"]), shuffle["vertex"]), 1, job.n)
  /\ pc' = "done"
  /\ UNCHANGED <<job, bit, order, duplicate, shuffle, open, node, round, payload>>

(* The values of the nodes, in vertex order.                               *)
Output ==
  /\ pc = "pass" /\ round = Depth /\ job.measure # "pi_1"
  /\ out' = SubSeq(payload, 1, job.n)
  /\ pc' = "done"
  /\ UNCHANGED <<job, bit, order, duplicate, shuffle, open, node, round, payload>>

(* pi_1 counts the nodes whose value is not 0, for one node after another. *)
CountReached ==
  /\ pc = "pass" /\ round = Depth /\ job.measure = "pi_1"
  /\ LET isZero == [k \in 1 .. job.n |-> IF payload[k] = 0 THEN 1 ELSE 0]
     IN  out' = Append(out, Total(Flipped(isZero), job.n))
  /\ node' = node + 1
  /\ pc' = IF node = job.n THEN "done" ELSE "enter"
  /\ UNCHANGED <<job, bit, order, duplicate, shuffle, open, round, payload>>
-----------------------------------------------------------------------------
(* sort.cpp: the sorting permutation of the keys, applied to the words.    *)
SortByKeyBit ==
  /\ pc = "keys" /\ bit < job.bits
  /\ IF bit = 0 THEN order' = [order EXCEPT !["source"] = Compaction(Bit(1, 0))]
     ELSE \E f \in Shuffles :
            order' = [order EXCEPT !["source"] =
                        SortingIteration(order["source"], Bit(1, bit), f)]
  /\ bit' = bit + 1
  /\ UNCHANGED <<job, pc, duplicate, shuffle, open, node, round, payload, out>>

ApplyPerm ==
  /\ pc = "keys" /\ bit = job.bits
  /\ \E f \in Shuffles :
       out' = Reordered(Moved([k \in Entries |-> To(k)], f), Moved(order["source"], f))
  /\ pc' = "done"
  /\ UNCHANGED <<job, bit, order, duplicate, shuffle, open, node, round, payload>>

Sort(o) == StartSort(o) \/ SortByBit(o) \/ FinishSort(o)
Next ==
  \/ \E o \in {"source", "dest", "both"} : Sort(o)
  \/ FindDuplicates \/ SortLastBit \/ SortVertices \/ PrepareShufflings
  \/ EnterPassing \/ PassRound \/ Output \/ CountReached
  \/ SortByKeyBit \/ ApplyPerm

Spec == Init /\ [][Next]_vars
-----------------------------------------------------------------------------
(* The state is what it is meant to be: every ordering gives each entry a  *)
(* position of its own, payloads and outputs are words.                    *)
TypeOK ==
  /\ job \in Jobs
  /\ pc \in {"keys", "duplicates", "last", "prepare", "enter", "pass", "done"} \cup Orderings
  /\ bit \in 0 .. job.bits + 1
  /\ \A o \in Orderings : order[o] = <<>> \/ PermOf(order[o], Size)
  /\ duplicate = <<>> \/ duplicate \in [Entries -> {0, 1}]
  /\ \A o \in Orderings : shuffle[o] = <<>> <=> open[o] = <<>>
  /\ \A o \in Passed : open[o] # <<>> => PermOf(open[o], Size)
  /\ node \in 1 .. job.n + 1 /\ round \in 0 .. Depth
  /\ payload = <<>> \/ payload \in [Entries -> Ring]
  /\ \A v \in DOMAIN out : out[v] \in Ring

(* Positions in the stable sort of the entries by a number.                *)
Ranks(key) ==
  [k \in Entries |-> Cardinality({i \in Entries : key[i] < key[k]})
                     + Cardinality({i \in 1 .. k : key[i] = key[k]})]
Low(x, bits) == x % 2^bits
Flag(k)      == IF IsNode(k) THEN 1 ELSE 0
Twice(k)     == IF duplicate = <<>> THEN 0 ELSE duplicate[k] * 2^job.bits

(* sort.cpp puts the words in the order of their keys, equal keys in the   *)
(* order they came in.                                                     *)
SortsStably ==
  (job.measure = "sort" /\ pc = "done") =>
    LET rank == Ranks([k \in Entries |-> From(k)])
    IN  \A k \in Entries : out[rank[k]] = To(k)

(* Every sort is finished up to its current bit, whatever the shuffles:    *)
(* the source ordering has a node before its outgoing edges, the           *)
(* destination ordering after its incoming ones, duplicates come last in   *)
(* both, and the vertex ordering has node v in place v; what sort.cpp puts *)
(* out is sorted, and the orderings give every entry a position of its own.*)
SortedSoFar ==
  LET done(o) == IF pc = o \/ pc = "keys" THEN bit ELSE BitsOf(o)
      Dest(k)    == IF pc \in {"source", "last", "both"} THEN To(k) ELSE To(k) + Twice(k)
      SourceKey(k) == 2 * Low(From(k) + Twice(k), done("source")) + 1 - Flag(k)
      DestKey(k)   == 2 * Low(Dest(k), job.bits + 1) + Flag(k)
      OneKey(k)    == 2 * Low(To(k), done("dest")) + Flag(k)
      BothKey(k)   == Low(From(k), done("both")) * 2^(job.bits + 1) + 2 * To(k) + Flag(k)
      Sorted(o, Key(_)) == order[o] # <<>> => order[o] = Ranks([k \in Entries |-> Key(k)])
  IN  /\ TypeOK
      /\ job.measure = "sort" =>
           /\ bit > 0 => order["source"] = Ranks([k \in Entries |-> Low(From(k), bit)])
           /\ SortsStably
      /\ job.measure # "sort" =>
           /\ Sorted("source", SourceKey)
           /\ IF pc = "dest" THEN Sorted("dest", OneKey) ELSE Sorted("dest", DestKey)
           /\ Sorted("both", BothKey)
           /\ order["vertex"] # <<>> =>
                \A k \in Entries : IsNode(k) => order["vertex"][k] = From(k)

(* pi_2 marks exactly the entries that repeat an earlier one: of several   *)
(* edges from u to v one is kept, and no node is dropped.                  *)
DuplicatesMarked ==
  duplicate # <<>> =>
    \A k \in Entries : duplicate[k] = 1 <=> \E i \in 1 .. k - 1 : job.list[i] = job.list[k]

(* A walk is a sequence of hops.  pi_3 tells edges between the same nodes  *)
(* apart, pi_2 and pi_1 do not.                                            *)
Edges == {k \in Entries : ~ IsNode(k)}
Hops  == IF job.measure = "pi_3" THEN {<<From(k), To(k), k>> : k \in Edges}
         ELSE {<<From(k), To(k), 0>> : k \in Edges}
Walks(length) ==
  {w \in [1 .. length -> Hops] : \A i \in 1 .. length - 1 : w[i][2] = w[i + 1][1]}
WalksFrom(v, length) == {w \in Walks(length) : w[1][1] = v}
WalksTo(v, length)   == {w \in Walks(length) : w[length][2] = v}

(* After r rounds a node holds the walks of length 1 to r that end in it,  *)
(* weighted: those of length k with the weight the k rounds still to come  *)
(* will turn into that of their final length.                              *)
WalksSoFar ==
  (pc = "pass" /\ job.measure \in {"pi_2", "pi_3"}) =>
    \A v \in 1 .. job.n :
      payload[v] = Total([k \in 1 .. round |->
                            Trunc(job.weights[Depth - round + k] * Cardinality(WalksTo(v, k)))],
                         round)

(* After r rounds of pi_1, as long as the counts fit a word, exactly the   *)
(* nodes that can be reached from `node' by r hops have a value, and the   *)
(* numbers put out are those of the nodes reached within the depth.        *)
Reached(u, hops) ==
  {u} \cup UNION {{w[k][2] : w \in WalksFrom(u, k)} : k \in 1 .. hops}
ReachSoFar ==
  job.measure = "pi_1" =>
    /\ pc = "pass" => {v \in 1 .. job.n : payload[v] # 0} = Reached(node, round)
    /\ \A v \in DOMAIN out : out[v] = Cardinality(Reached(v, Depth))

-----------------------------------------------------------------------------
(* The matrix circuits of earlier work that the benchmarks compare with,   *)
(* each edge a layer of its own.                                           *)
Nodes == 1 .. job.n
Layer(k, u, v) == IF From(k) = u /\ To(k) = v THEN 1 ELSE 0
SumOf(f, n)    == Total([i \in 1 .. n |-> f[i]], n)
Product(x, n)  ==
  LET p[i \in 0 .. n] == IF i = 0 THEN 1 ELSE Times(p[i - 1], x[i]) IN p[n]
Adjacency ==
  [u \in Nodes |-> [v \in Nodes |->
     LET layers == [k \in Entries |-> IF k \in Edges THEN Layer(k, u, v) ELSE 0]
     IN  IF job.measure = "pi_2" THEN Minus(1, Product(Flipped(layers), Size))
         ELSE Total(layers, Size)]]

(* pi_2 and pi_3: weighted row sums of the powers.                         *)
KatzReference(B) ==
  LET s[k \in 1 .. Depth] ==
        [u \in Nodes |->
           SumOf([v \in Nodes |-> IF k = 1 THEN B[u][v] ELSE Times(B[u][v], s[k - 1][v])], job.n)]
  IN  [u \in Nodes |-> SumOf([k \in 1 .. Depth |-> Times(s[k][u], job.weights[k])], Depth)]

(* pi_1: non-zero elements of the sum of the powers.                       *)
ReachReference(B) ==
  LET power[k \in 1 .. Depth] ==
        IF k = 1 THEN B
        ELSE [u \in Nodes |-> [v \in Nodes |->
                SumOf([w \in Nodes |-> Times(power[k - 1][u][w], B[w][v])], job.n)]]
      isZero(u, v) == IF SumOf([k \in 1 .. Depth |-> power[k][u][v]], Depth) = 0 THEN 1 ELSE 0
  IN  [u \in Nodes |-> SumOf(Flipped([v \in Nodes |-> isZero(u, v)]), job.n)]

(* On undirected graphs, every edge listed in both directions, the new     *)
(* circuits put out what the matrix circuits do; pi_1 needs a depth of at  *)
(* least 2 and a neighbour for every node, as its reference counts a node  *)
(* itself only when a walk leads back.                                     *)
Undirected == \A u, v \in Nodes :
  Cardinality({k \in Edges : job.list[k] = <<u, v>>}) = Cardinality({k \in Edges : job.list[k] = <<v, u>>})
ReferenceAgrees ==
  (pc = "done" /\ job.measure # "sort" /\ Undirected) =>
    IF job.measure = "pi_1"
    THEN (Depth > 1 /\ {From(k) : k \in Edges} = Nodes) => out = ReachReference(Adjacency)
    ELSE out = KatzReference(Adjacency)

(* README.md:29, of pi_2 and pi_3: paths up to length D, starting at v.    *)
StartsAtV ==
  (pc = "done" /\ job.measure \in {"pi_2", "pi_3"}) =>
    \A v \in Nodes :
      out[v] = SumOf([k \in 1 .. Depth |->
                        Trunc(job.weights[k] * Cardinality(WalksFrom(v, k)))], Depth)

(* subcircuits.cpp, run_message_passing_bfs: "node that had been reached   *)
(* remains reached".                                                       *)
ReachedRemainsReached ==
  [][(job.measure = "pi_1" /\ pc = "pass" /\ pc' = "pass") =>
       \A v \in Nodes : payload[v] # 0 => payload'[v] # 0]_vars
=============================================================================
