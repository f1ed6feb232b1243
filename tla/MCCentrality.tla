---------------------------- MODULE MCCentrality ----------------------------
(* Instances of Centrality for TLC: lists of two nodes and up to three     *)
(* edges in every order, and some of three nodes.                          *)
EXTENDS Centrality, Bitwise

MCXor(x, y) == x ^^ y
MCAnd(x, y) == x & y

(* Lists of two nodes; multi-edges included.                               *)
TwoNodes(edges) ==
  {l \in [1 .. 2 + edges -> {1, 2} \X {1, 2}] :
     \A v \in {1, 2} : Cardinality({k \in DOMAIN l : l[k] = <<v, v>>}) = 1}
(* A cycle, an undirected path, a double edge beside a single one, a node  *)
(* without edges.                                                          *)
ThreeNodes ==
  {<< <<3, 3>>, <<1, 2>>, <<2, 2>>, <<2, 3>>, <<3, 1>>, <<1, 1>> >>,
   << <<2, 3>>, <<1, 1>>, <<2, 1>>, <<3, 3>>, <<1, 2>>, <<3, 2>>, <<2, 2>> >>,
   << <<1, 2>>, <<3, 3>>, <<2, 3>>, <<1, 2>>, <<2, 2>>, <<1, 1>> >>,
   << <<1, 1>>, <<2, 3>>, <<2, 2>>, <<3, 2>>, <<3, 3>> >>}

Measures == {"pi_1", "pi_2", "pi_3"}
JobOf(m, l, n, b, w) == [measure |-> m, list |-> l, n |-> n, bits |-> b, weights |-> w]
GraphJobs(m, w) ==
  {JobOf(m, l, 2, 2, w) : l \in UNION {TwoNodes(e) : e \in 0 .. 2}}
  \cup {JobOf(m, l, 3, 3, w) : l \in ThreeNodes}
SortJobs ==
  {JobOf("sort", [k \in 1 .. 4 |-> <<key[k], 10 + k>>], 1, 2, <<1>>) : key \in [1 .. 4 -> 0 .. 3]}
AllJobs == SortJobs \cup UNION {GraphJobs(m, <<5, 3, 2>>) : m \in Measures}
                    \cup {JobOf("pi_2", l, 2, 2, <<3, 1>>) : l \in TwoNodes(3)}

(* One edge, for the direction of walks.                                   *)
OneEdge == {JobOf("pi_3", l, 2, 2, <<5, 3>>) : l \in TwoNodes(1)}
(* Two nodes joined by an edge, and a search deeper than a word has bits.  *)
DeepJobs == {JobOf("pi_1", l, 2, 2, <<1, 1, 1, 1, 1>>) : l \in TwoNodes(2)}

(* What a shuffle may do: turn and mirror.                                 *)
MCShuffles(n) == {[j \in 1 .. n |-> n + 1 - j], [j \in 1 .. n |-> 1 + (j % n)]}
=============================================================================
