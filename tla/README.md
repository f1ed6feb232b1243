# Verifying MultiCent

MultiCent computes centrality measures on secret-shared multigraphs with two
online parties (1 and 2) and a helper (0) that only deals correlated randomness.
This directory holds TLA+ models of the program, TLC configurations that check
them on small instances, and TLAPS proofs of what matters most.  Paths below are
relative to the root of the repository's own tree, so `src/utils/circuit.h` is
the circuit builder.

## 1. The system

| part | state it keeps | operations | talks to |
|---|---|---|---|
| circuit builder and level ordering, `src/utils/circuit.h` | gates in the order they were added, number of wires, outputs | `add*Gate`, `newInputWire`, `setAsOutput`, `orderGatesByLevel` | called once, before the protocol; both evaluators walk the result |
| plaintext evaluation, `Circuit::evaluate` | one value per gate | `evaluate` | orders the circuit, walks its levels |
| circuit generators, the static functions of `Circuit` | none: they fill a new circuit | `generatePPA`, `generatePPAMSB`, `generateMultK`, `generateParaPrefixAND`, `generatePrefixAND`, `generateAuction`, `generateCDA` | the circuit builder; called by no program of the repository |
| preprocessing, `src/graphsc/offline_evaluator.cpp` | cursors in the pairwise random streams, dealt words, four tables of permutations, one record per gate | `setWireMasksParty`, `setWireMasks`, `run` | shared generators (no messages), then one vector of words from the helper to each online party; hands its records to the online evaluator |
| online evaluation, `src/graphsc/online_evaluator_load_balanced.cpp` | a share of every wire, the words opened in the current level | `setInputs`, `evaluateGatesAtDepth`, `getOutputs` | parties 1 and 2 exchange one vector of words per level, in segments |
| network, `src/io/netmp.h` over `tls_net_io_channel.h` | two buffered TLS connections per pair of parties, flags `sent` and `has_sent` | set-up, `send`, `recv`, their relative and boolean variants, `flush`, `sync`, destruction; below, the loops around `BIO_write` and `BIO_read` | the two evaluators and the drivers |
| sub-circuits, `benchmark/subcircuits.cpp` | none: they add gates to a circuit | `optimizedSortingIteration`, `genSortingPerm`, `applyPerm`, `pi_1`, `pi_2`, `pi_3`, references | the circuit builder |
| drivers, `benchmark/test.cpp`, `*_test.cpp`, `*_benchmark.cpp` | repetition counter; both evaluators anew in every repetition | build, preprocess, sync, hand over, evaluate, assert | everything |
| random generators, `src/graphsc/rand_gen_pool.cpp` | five seeded streams per process | `random_share`, permutations | preprocessing, inputs |

Three processes run the same program and branch on their id.  Nothing that is
sent, drawn or dealt carries a label: which word belongs to which element of
which gate follows only from all three programs taking the same branches in the
same order.  That is what makes this code hard to get right.

**Hard behaviours.** (a) Three walks over the gate list at different times must
draw from shared streams in lockstep, with branches that depend on the party and
on what is already in a table.  (b) A level's words are written by one walk,
grouped by kind, and taken apart by another.  (c) Bulk transfers are cut into
pieces on both sides independently.  (d) Both online parties send before they
receive, with bounded buffers below, and whether `send` flushes depends on the
compiler.  (e) `sync` uses the data connections in the opposite direction.  (f)
Revealed words are used as unchecked positions.  (g) Message passing computes
differences and prefix sums over three orderings of one list, in words that
wrap.  (h) The helper, idle online, runs ahead into the next repetition.  (i) The
loops around `BIO_write` count in another type than the calls.  There is no
persistence, no restart and no retransmission: an error of a connection is meant
to end a process (section 5 says when it does not).

**What makes each part correct.**

- *Level ordering*: an interactive gate reads wires of earlier levels only, a
  local gate wires of earlier levels or earlier in its own, no gate is lost,
  doubled or overtaken within its level, and there are no superfluous levels.
- *Preprocessing*: the streams stay in step, every dealt word is consumed by the
  gate it was made for, triples multiply, the halves of a shuffle commute, a
  double shuffle is the composition it should be, a permutation is made once.
- *Online*: every wire opens to what a trusted party would compute, positions
  are in range, the exchange keeps the parties in step and terminates.
- *Whole program*: preprocessing hands over exactly what the online phase assumes,
  in every repetition, and from seeds to outputs the trusted party is implemented.
- *Plaintext evaluation and generators*: ordering changes no value, wrong inputs are
  refused, adders add in few rounds.
- *Network*: first-in first-out pipes and a barrier, whatever the buffering; every
  byte of a message arrives once however the calls below cut it.
- *Sub-circuits*: the orderings are sorted, duplicates are found, values are
  (weighted) numbers of walks or of reached nodes.

## 2. Modules

| module | models | proved about |
|---|---|---|
| `Words` | Ring words: wrapping arithmetic, and an abstract exclusive-or and and | |
| `Offline` | preprocessing at all three parties and the transfer of dealt words | yes |
| `OfflineInv` | its inductive invariants: counting, and the material itself | yes |
| `Facts` | proofs: induction on numbers and sequences, `FlattenSeq`, `\div` and `%`, powers, sums | |
| `Offline_proofs` | proofs: cursors and counts; permutations, triples and shuffles; what is left at the end | |
| `Vectors` | what the vector gates compute, in the clear | |
| `Levels` | which gates are interactive, which wires a gate reads and writes, that no level idles | |
| `LevelOrder` | circuit builder and level ordering | yes |
| `Evaluate` | `Circuit::evaluate`, on what `LevelOrder` builds and orders | yes |
| `LevelOrder_proofs` | proofs about both | |
| `Generators` | the static circuit generators, composed with `Evaluate` | |
| `Gates` | gates and level-ordered circuits as the online evaluator sees them | |
| `Clear` | the value of every gate and wire in the clear | |
| `Plain` | abstract specification of the online phase: a trusted party | |
| `Online` | online evaluation by two parties | yes |
| `Online_proofs` | proofs: the exchange; each gate on shares | |
| `Clear_proofs` | proofs: what the parties hold at all times; the refinement of `Plain` | |
| `Protocol`, `Protocol_proofs` | composition of `Offline` and `Online`: the programs from start to end, with repetitions; proofs | the hand-over |
| `Pipes` | abstract specification of the network: pipes and a barrier | |
| `NetIO`, `Session`, `NetIO_proofs` | network layer; the calls the programs make of it; proofs | yes |
| `Relative` | rings of relative sends and receives, boolean vectors | |
| `Transfer` | the loops around `BIO_write` and `BIO_read`, with partial and failing calls | in `NetIO_proofs` |
| `Centrality`, `Centrality_proofs` | sorting and the three measures, gate by gate in the clear; proofs | the sorts |
| `MC*` | instances for TLC | |

Operators named as mutants in a comment (`ZerosSoFarTwice`, `WeightedInOrder`, ...) are
not used by any specification; each is a plausible slip in the definition after it and
must break one property.

### Preprocessing: `Offline`

`ctx[p]` is what `setWireMasks` passes to `setWireMasksParty` by reference: how many
words p has taken from the streams it shares (`p01`, `p02`) and of its own (`self`), the
index into the dealt words, the words dealt so far (`sec`, `secToOne`), and the tables of
permutations.  `preproc[p]` is p's record per gate and `wire[q]` the byte stream from the
helper to q.  A gate is one action per party and kind (`DealTriple`, `DealCompaction`,
`DealShuffle`, `DealDouble`, `ThrowDouble`, `DealInput`, `SkipLocal`); sending and
receiving lengths and pieces are actions of their own.  `gates` and `tape` are variables
chosen initially, so that a run covers many circuits and generator outputs.  `ledger` is a
history variable (the helper's position after each gate) that no action reads.  A
permutation name that occurs for the first time in a table leaves fillers behind, as
`resize` does in the code.

### Online: `Online`, `Clear`, `Plain`

One action per call or loop body: `SetInputs`, `BeginLevel` (the send walk over
a level), `SendSegment`, `RecvSegment`, `FinishLevel` (the receive walk), `SendOutputs`,
`RecvOutputs`, `NoOutputs`.  A level's words are a vector grouped by kind with a cursor
per kind, as in the code.  Correlated randomness is an input (`deal`), restricted to what
`Offline` shows the preprocessing to produce (`Correlated`), and so are the shared generator's output
(`tape`) and the inputs.  `Clear` says what a gate means, as a function of the values it reads and of
the permutations the shuffles stand for; `Plain` evaluates the circuit with it on the inputs
themselves, a level at a time, without choosing the permutations; `ComputesInTheClear` is the refinement: opening both
shares of every wire whose level both parties have finished gives exactly `Plain`'s wires,
and both parties are handed `Plain`'s outputs.  Shares inside a comparison with zero are
opened to "zero or not", which is all that the layers keep.

### The whole program: `Protocol`

Instantiates `Offline` and `Online` on shared variables; the steps of the program are their
steps, plus `HandOver` after the barrier in the middle of a repetition (test.cpp:108) and `Repeat`,
`RepeatHelper`, which construct new evaluators.  Nothing is assumed of the material: `HandOver`
computes the online party's halves from the tables that three preprocessing walks have filled.
Connections are not reset between repetitions.

### Circuits: `LevelOrder`, `Evaluate`, `Generators`

`LevelOrder` has one action per public function that adds a gate, `SetAsOutput`, and the two loops of
`orderGatesByLevel` (`AssignLevel`, `PlaceGate`), one gate at a time, with the exception for kinds
it does not know.  A vector gate over an empty vector ends the process (`AddEmpty`): its constructor
reads `outs[0]` of an empty vector.  `Evaluate` extends it by the constants of gates and by the walk of
`Circuit::evaluate`: inputs are counted but not compared with the input wires, a missing one throws
halfway, and reads and writes beyond the one value per gate end in `outside`.  `Generators` builds a
circuit in one step, as the generator's sequence of appended gates, and hands it to the same ordering
and evaluation.

### Network: `NetIO`, `Session`, `Pipes`

A party is one thread with a list of steps still to do (`todo`).  Set-up goes pair by pair
through `Listen`, `Connect`, `Opened`, in the order of the constructor.  `buf[e]` is the BIO buffer
of an end, `wire[e]` what a connection holds in flight, `due[e]` what a party must still hand
over before it goes on.  Whether `send` flushes depends on the compiler (`Builds`).  How far
the library writes through on overflow (`Spill`, `HandOver`) is external: it is modelled from
how `BIO_write` and `BIO_flush` are used.  `Session` composes the layer with its users: the
sequence of calls in preprocessing, online phase and drivers, at every party.  `Pipes` is what
those users expect; `KeepsPromise` is the refinement.  `Relative` has the variants that address a
party by its distance, with the remainder as C++ computes it, and boolean vectors in words.
`Transfer` is one level below: one direction of a connection, with a loop at either end that asks for
the rest of the message and gets part of it, nothing (closed) or -1 (failed).

### Sub-circuits: `Centrality`

The evaluators compute what a circuit says (`Online`), so the circuits are modelled in the
clear.  A state holds the three (pi_2: four) orderings as destination permutations, each sorted up to
a bit; every shuffle picks a fresh permutation, which must make no difference.  A step is one
iteration of a loop.  `pi_1` and `pi_3` sort by source, destination and node; `pi_2` first
sorts by destination and source to find duplicates, which become one more bit.
Properties count walks by enumerating them, which shares nothing with sorts and prefix sums.

## 3. Runs

| run | question | bounds |
|---|---|---|
| `offline` | everything about preprocessing, with termination | every list of up to 3 gates over 9 kinds (vectors of 1 or 2, two shuffle names, forward and reverse, double) with 2 generator outputs; lists of up to 8 gates, vectors of 0 to 3, reuse, fillers, with 6; 2-bit words, pieces of 4 |
| `online` | refinement of `Plain`, positions, exchange | circuits that use every gate kind, empty levels and segments, 4-bit words (two layers of comparison), segments of 3 |
| `online_const` | violated: see Findings | |
| `protocol` | the composition: hand-over, refinement of `Plain`, repetitions | 5 circuits (sorting by a flag and back, double shuffle, arithmetic with comparison, a helper that throws, nothing to do), one or two repetitions, 4-bit words |
| `circuit` | ordering, evaluation | all circuits of up to 3 gates over 11 shapes, 6 mixed kinds or 4 arithmetic kinds, chains of 4 and 5, vectors up to 2; 2-bit words; right, missing, extra and wrong inputs |
| `generators` | adders, products, auctions | words of 4 and 8 bits, 16 factors, 1 to 4 bids |
| `netio` | pipes, barrier, leftovers, who can be stuck, everyone finishes | buffers and connections of 2 units, messages up to 6, both compilers, with and without outer syncs, one or two repetitions |
| `netio_ring` | which rings end, what the others wait for | 3 parties, distances 0, 1, -1 and 4, empty, small and large, flushed or not, both compilers |
| `transfer` | every byte once, int against size_t, both ends end | up to 3 messages, ints of 3 bits, sizes of 6 bits, two failing calls at each end |
| `centrality` | orderings, duplicates, walks, reach, agreement with the matrix circuits, plain sorting | all lists of 2 nodes with up to 2 edges (3 for pi_2) in every order, four lists of 3 nodes, all keys of four 2-bit words; two shuffles |
| `centrality_start`, `centrality_wrap` | violated: see Findings | |

Type invariants are conjuncts of an invariant that rests on them (`PositionsInRange`, `NothingLeftOver`,
`SortedSoFar`); those of all modules with proofs are proved.

*Why the bounds suffice.*  Preprocessing treats gates one after another, and a gate depends on
earlier ones only through cursors and through whether a name is in a table: three gates cover first
use, reuse, and a double shuffle of two shuffles, and the counting properties are proved for every
size.  Online, a level mixes several gates of each kind so that every cursor moves past a
gate of another kind, segments split inside a gate's words, and 4-bit words have a first, a
last and no middle comparison layer (the code has 5 layers; middle layers run the same code as the
first).  The network's behaviour depends on whether a message fits a buffer or connection, so
sizes 0, below, equal and above suffice.  Words of 8 bits are the smallest for which a carry passes
two levels of combined blocks; more only repeats the loop.  Radix sort and message passing meet parallel
edges, opposite edges, isolated nodes and edges listed before their nodes already with two nodes.

*Fairness.*  Each party is a separate operating-system process that runs until it blocks.
`Offline` assumes weak fairness of each party's walk, sending and receiving; `NetIO` and `Protocol`
assume less, that some party moves as long as one can: every step makes progress towards the end of a
finite program, so this is enough.  `Transfer` assumes weak fairness of each end.  Nothing
is assumed about the order of parties, no strong fairness is used, and connections deliver because
the code relies on TCP.  `OneCanGoOn` says of the online exchange, without fairness, that there is
always a party to move.  TLC does not check deadlock where a run ends by design (the programs
terminate, and a network session with overfull outputs stops); there liveness or
`StuckOnlyOverfull` says that nobody stops early.

## 4. Proofs

Every theorem holds for all values of the constants that satisfy the named assumptions of
the modules.  For each component there is an inductive invariant, and the proof that a step
keeps it has one step per action and one per conjunct the action can disturb.

**Preprocessing** (`Offline_proofs`): the invariant (`InvariantHolds`), `TypeOK`, `StreamsInStep`,
`OnlineNeverThrows`, `HelperBufferFits`, `DealtInBounds`, `WordsArrive`.
`StreamsInStep` is not inductive: why a party draws as much as the helper did depends on both
finding the same names in tables that hold different halves of permutations.  `IInv` therefore
states (1) what gate k uses up of each stream as a function `Used(k)` of the gate list alone,
(2) that the helper's ledger is the running sum of it, (3) that a name is new to any party exactly
when no gate before has made it (`TablesInv`), (4) that the helper's entries are permutations, so
that inverting them is defined, (5) who can be in which phase, and (6) that what a party has
received, followed by what is on the wire, is a prefix of what the helper dealt.

**What the parties then hold** (second part of `Offline_proofs`): a table entry is written once
(`PermsWriteOnce`), triples multiply (`TriplesCorrect`), and the halves of every shuffle, forward, reverse
and double, compose to the same permutation with the masks that belong to it (`ShufflesCorrelated`).
`MaterialInv` adds to `IInv` what a record *is*: each of its words as a named draw or as the
dealt word at the cursor that `Used` gives, and each table entry as the permutation drawn, or the
composition solved for, by the gate that first used the name.  The three records of a gate then meet in
words that only the gate list determines, and the claims follow from the laws of exclusive-or and of
composing and inverting permutations.  `LeavesEverything` puts this together for the moment all three are done:
for every gate the online parties hold a correct triple, or halves of one permutation, the same for every gate
of that shuffle, and masks shared with their image.

**Circuits** (`LevelOrder_proofs`).  For every sequence of builder calls: `TypeOK`,
`OrderedForEvaluation`, `KeepsEveryGate`, `FewestRounds`, and that no level before the last is without an
interactive gate (`NoIdleLevel`, a conjunct of `OrderedForEvaluation`).  The invariant says that the level of a wire
is the level of the gate that writes it, that gates up to `next` satisfy the ordering relation among
themselves, and that the levels hold exactly the gates placed so far in order of addition.  For
`FewestRounds` it also carries that each level above the first is reached by a gate that reads a wire of an
interactive gate one level lower, so a wire at level n ends a chain of n interactive gates.  A caller is assumed
to pass existing wires and two input vectors of one length, as all callers do.  Evaluation in level order gives
the values that the gates mean in order of addition (`EvaluatesToMeaning`), inputs are refused for the cause
stated (`RefusesForCause`), and only vector gates reach outside the array of values (`OutsideOnlyByVectors`):
the wires written so far solve the same equations as the reference, each wire has one writer,
and its writer is walked before its readers.

**Online exchange** (`Online_proofs`): `ExchangeInStep` and `OneCanGoOn`.  The invariant counts words from the
beginning of the evaluation: what a party has opened and what it has read are each a number of words of a
stream whose length per level the circuit alone determines, what is in flight to a party is what the other has
opened less what it has read, and both cut a level into the same segments, so a party waits only while the
other still has to send.  It rests on `CircuitAssumption`, that the circuit is ordered and no level
idles, which is what `LevelOrder_proofs` guarantees of every circuit that was built and ordered.

**Gates on shares** (`Online_proofs`).  For every kind of gate, every length and every word width: if the shares of
what it reads open to values, then what the two parties store opens to the gate's value (`InteractiveOpens` for
gates that open words, `LocalOpens` for the others).  Words are related to the integers they stand for (`Is`: equal up to
a multiple of `Modulus`), so that Beaver's products, sums over vectors, the compaction formula and the conversion of a bit
become arithmetic over the integers; the comparison with zero needs instead how `&` and `^` see the two halves of a
word (`BitAssumption`), and the shuffle that both orders of the halves agree.

**The refinement of `Plain`** (`Clear_proofs`).  `ImplementsTheClear` is `ComputesInTheClear`: the online phase
implements the trusted party, and `PositionsStayInRange` says that each revealed position is met once.
The parties are at different places while words of one level are cut, sent and received, so the argument goes through
an evaluation without them: `Lockstep` is the shares of both parties after each level, computed level by level from the inputs,
the generator and the material alone.  `LockstepOpens` shows by induction over levels and gates that it opens to `Meaning`,
wire by wire as soon as the wire's gate has been evaluated (`Ready`); here it counts that every wire has one writer, walked before
its readers.  `ContentInv`, the inductive invariant (`ContentHolds`), then says that whatever the schedule, a party between levels
holds its half of `Lockstep`, the words it has sent are those of the stream that `Lockstep` determines, and what is
in flight to it is the part of its peer's stream it has not read, of which `ExchangeInv` knows the length.  `FinishLevel`
is where this is used: a party's own words and the ones received are the two halves of each opened word, kind by kind in gate
order, so the cursors of the second walk meet the words of the first.  Finally every step is mapped: the later
party's `SetInputs` and `FinishLevel` to the trusted party's steps, the deliveries to `Deliver`, all others to a stutter.
Two hypotheses are worth naming.  `NoConstAdd`: no circuit has a `kConstAdd` gate, for which the refinement is
false (finding 1).  `MeaningAssumption`: what is compacted are flags, and what is reordered by are positions, whatever the shuffles
do; the sub-circuits see to it (run `centrality`), the evaluator does not check it.

**The hand-over** (`Protocol_proofs`).  `HandsOver` discharges for programs that run once what `Online` assumes of its
material: `HandsOverCorrelated` for every circuit, width, chunk size and generator output.  Module `Offline` is instantiated with the
state of `Protocol` and the flattened circuits; its assumptions are shown to follow from `Protocol`'s (`CircuitsFit`), every step of the program
to be a step of that instance or to leave its state alone (`OnceForever`), so that `LeavesEverything` applies.  What remains is
bookkeeping that a test would hardly reach: that gate k of a level is the record at `Before(l) + k` (`Place`), that indices
from 0 in one phase are indices from 1 in the other, that a party picks the half that its number says, and that the halves of whichever gate
stands for a shuffle are the same.  A program that repeats resets `Offline`'s state in the middle, so it is no instance of it; that
case (`--repeat`, 1 by default) stays with the run `protocol`.

**Network** (`NetIO_proofs`): `NothingLeftOver` and the refinement `KeepsPromise` of `Pipes`, for every list of sessions,
buffer, capacity and piece size.  The heart of the invariant `NetInv` is `Balanced`: the *kinds* of units (data or a byte of
sync) on a connection and in the buffer before it, followed by what the writer's remaining calls and steps will
write there, equal what the reader's remaining calls and steps will read.  Every step keeps it because a call comes
down to steps that write and read exactly what the call does.  From it: data never meet a read of sync
nor a byte of sync a read of data; when all have finished nothing is left.  The barrier follows by counting: all parties enter
the same number of syncs in all (`Together`), a party about to leave one still owes reads only for later
syncs, so by `Balanced` nobody else has a sync left that it has not entered.  `FlushInv` says that in a sync each buffer of data
has been handed over or has a flush coming, which is why nothing sent is held back when a party leaves.
That the invariant holds at first is a theorem about programs, not about the network: the sequences of calls
that `Session` gives the parties match piece by piece (`SessionMatched`), for any amounts, levels and repetitions.

**Transfer** (last part of `NetIO_proofs`): `CompleteUnlessFailed` and `TooLongEndsProcess` for messages of any length and
integers of any width: the invariant counts the bytes each end has moved since the connection began; while no call has failed,
the bytes under way are those between the two counts, and the byte at each place is the one the sender's
messages have there.

**Sorting** (`Centrality_proofs`): `SortedSoFar`, `DuplicatesMarked` and `TypeOK`, for every list, every number of bits,
every measure and every shuffle.  The code composes compactions under shuffles, the property speaks of sorted lists.
The bridge is to read a position as a count (`RanksOf`: how many entries do not come after this one) and to show that
only one permutation puts entries in the order of a given key (`OrderDetermines`).  One iteration then takes three
facts: the shuffle cancels (`ShuffleCancels`); a compaction of flags is the stable sort by the flag (`CompactionRanks`);
hence the composed positions are in the order of the key with the bit put in front (`IterationSorts`).  `SortedSoFar`
is not inductive, as it says nothing of which orderings exist at which step, of `duplicate` while it becomes a
bit of a key, or of the words in message passing.  `SortsInv` says for each value of `pc` which ordering has not been started, is sorted by
the bits so far, or by all of them, what `duplicate` holds and which shuffles and revealed orderings belong together.
Duplicates are exact because entries with equal keys are neighbours in sorted order, where nothing but an
equal entry can come between them, and because 2^bits exceeds every node's number, so the key determines both ends.  The vertex ordering
has node v in place v because every node is in the list once, is no duplicate, and nodes come first.

*Assumptions.*  Only the named ones in the modules: word size at least 2, the laws of a Boolean ring for `XorW`
and `AndW` (TLC instantiates them with the real operators and evaluates the assumptions), sizes
positive, an int of more than one value, lists with every node once whose ends fit the bits of the sorts and the words (`JobsAssumption`),
shuffles that are permutations (`ShufflesAssumption`), programs that are those of
well-typed sessions of three parties with no message above `MaxSend`.  Of circuits: that they are ordered and their
wires described truly (`CircuitAssumption`), that callers pass vectors that fit, comparison layers in sequence and
shuffle names of one size (`ShapeAssumption`), that each input wire has a value and the shared generator an output for it
(`InputAssumption`), that opening words by `&` and `^` goes bit by bit and a word has a power of two of bits (`BitAssumption`,
`LayersAssumption`).  TLC evaluates all of them in the runs.

*Model-checked only.*  Liveness, and the two properties about who can be stuck, which use ENABLED
(`StuckOnlyOverfull`, `StuckInARing`): out of the prover's reach.  `Generators` and the message
passing of `Centrality` (`WalksSoFar`, `ReachSoFar`, `ReferenceAgrees`): their claims count or compute recursively over data of any
size (sets of walks, powers of a matrix, prefix circuits), which needs an induction the provers cannot instantiate.
Of `Protocol`: `ProgramComputes`, which would follow from `HandsOver` and `ImplementsTheClear` if the material were known when
the first party begins to evaluate, while in truth the other may still preprocess (a prophecy), and `SameEveryTime`, which is
about programs that repeat.  The inductive invariants are no properties of a run, as they are proved; to try a
change of the model on one, let the MC module extend the module that defines it and add it to the configuration.

## 5. Findings

1. `online_const`: a `kConstAdd` gate adds its constant at both parties, so the value grows by
   twice the constant.  No program of the repository uses the gate.
2. `centrality_start`: pi_2 and pi_3 count walks that *end* in a node, the repository's README says
   *starting at v*.  The same on undirected graphs, which all tests use.
3. `centrality_wrap`: pi_1 counts walks in 32-bit words and clips only at the end; a multiple of
   2^32 counts as not reached, e.g. on a complete graph of 256 nodes at depth 5.

Met while modelling, and modelled as the code does it, without a run of their own:

- `evaluate` reserves one value per gate (circuit.h:1037; the comment at circuit.h:68 says all gates have
  one output), but vector gates write several wires; a scalar gate walked before the vector gate is
  refused reads and writes past the end (`OutsideOnlyByVectors`).
- `evaluate` has cases for kinds (circuit.h:1097 to 1171) that the ordering it starts with refuses
  (circuit.h:1003): they are unreachable, and the circuits of the prefix and auction generators, which
  use such kinds, can be neither ordered nor evaluated.
- The prefix generators combine a block with the first wires of its later parts instead of the last
  wires of the earlier ones (circuit.h:1227): the first input enters no product.
- `generateAuction` leaves its arrays unless the number of bids is a power of two (circuit.h:1468).
- `BIO_write` and `BIO_read` return -1 on an error, which as a size_t passes `res > 0`
  (tls_net_io_channel.h:252): the loop goes on with a wrong count instead of ending the process;
  `CompleteUnlessFailed` holds only of messages without such a call.
- Outputs are exchanged in one message, so parties 1 and 2 block each other if it is larger than a
  connection takes (`StuckOnlyOverfull` states that this is the only way to get stuck).
- In gcc builds a ring of `sendRelative` and `recvRelative` without a flush waits for ever; with clang,
  a message to oneself crashes in the flush (netmp.h:117).  Nothing calls these functions.
- `addMDoubleInGate` checks `input2` only up to the length of `input1`; all callers pass equal lengths.
- Serialised coefficients have the size of a Ring word (helpers.cpp:121), the field set up by the
  benchmarks is larger; no program calls these functions.
- The comment at `circuit.h:599` (interactive gates, *then* non-interactive ones) is about evaluation, a
  level keeps the order of addition; `pi_1_reference` counts a node itself only if a walk leads back to
  it, so it differs from `pi_1` at depth 1 and for isolated nodes.

## 6. Not modelled

Failures while connecting, socket options, counters and byte statistics; packing of boolean vectors and
field elements, serialised and random field elements, index helpers for four parties (no program calls
them, except through `sendBool`, whose calls are in `Relative`); the random generators themselves (a stream is
any sequence of words); gate kinds the evaluators reject; `compose`, which nothing calls; the assertions of
the drivers about byte counts; option parsing, scripts, plots, certificates.  Secrecy is not a subject of
this project.

## 7. Plan

Done, in this order: `Words`, `Offline` and its proofs; `Gates`, `Plain`, `Online`; `Levels`, `LevelOrder`
and its proofs; `Pipes`, `NetIO`, `Session`; `Vectors`, `Centrality`; then `Evaluate` and `Generators` on top of
`LevelOrder`, `Protocol` composing the two phases, `Relative` and `Transfer` beside and below `NetIO`.

The proofs followed the same order: preprocessing, its material, circuits and evaluation, the online exchange, transfer,
network; then gates on shares, the refinement of `Plain`, the hand-over, and the sorts.

What could come next:

1. *Proofs about the composition*: `ProgramComputes` for programs that run once, with the material as a prophecy variable;
   `SameEveryTime`.
2. *Proofs about message passing*: one round adds to a node what its incoming edges carry (`WalksSoFar`), from the orderings that
   `SortsInv` gives.
3. *More of the system*: the counters the drivers assert (bytes and rounds per circuit).
