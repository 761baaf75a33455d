# Toggle Tree in TLA+

A verification development for the C++ library under `src/include/toggle`: a
work-stealing scheduler, lock-free data structures built on hierarchical
bitmaps, and parallel graph algorithms on top of them. Modules without a prefix
model the code; `MC*.cfg` files instantiate them for TLC, through an `MC*` module
where constants are more than model values and numbers or several programs share a
run; `*Proof` modules hold TLAPS proofs.
`PROJECT.json` maps every definition to the lines it models and lists the runs,
the mutants (one seeded bug per property, kept beside the definition it
mutates), the hazards and the theorems.

    tlc -workers 2 -config MCDeque.cfg Deque
    tlapm SchedulerProof.tla

Contents: 1 inventory, 2 plan, 3 modules, 4 runs and bounds, 5 fairness,
6 proofs, 7 only model-checked, 8 not modelled.

## 1. Inventory

Everything is header-only. The algorithms call the data structures and
`parallel_for`; the data structures call `parallel_for` and the atomic helpers;
`parallel_for` is `parallel_do` in a binary tree; `parallel_do` pushes one half
of its work on the deque of its worker, from which other workers steal.

| component (under `parallel/`, `data_structures/`, `algorithms/graph/`) | state | operations | what is hard | what makes it correct |
|---|---|---|---|---|
| Work-stealing deque, `scheduler.h:31-93` | two wrapping counters packed in one word, a ring of slots | `push_bottom`, `pop_bottom`, `pop_top` | owner and thieves race for the last job; the owner writes half of the word from an old load; slots are reused while a thief still empties them; overflow | each job runs exactly once; `parallel_do` returns only when it has run; nobody waits for a job that no one has |
| `parallel_do`, `parallel_for`, `scheduler.h:161-188` | the stacks of the workers, the `done` flag of each job on them | split, run left, pop or wait, steal while waiting | nested calls and stolen work on one stack; a full deque; jobs live on the stack; one worker alone | every index once; each pop gets its own job; loops end |
| Sleep, wake-up, shutdown, `scheduler.h:112-159` | `wait_flag`, `num_awake`, `num_exits`, `finished_flag` | `go_sleep`, `may_wake_others`, thread loop, destructor | lost wake-ups; shutdown against threads on their way to sleep | a thread counted as asleep is reached; the destructor returns |
| `IndexSet`, `index_set.h` | layers of 64-bit words, each bit summarising a word below | `insert`, `remove`, `empty`, `for_each`, `consume_each`, `for_range`, `consume_range`, `reduce`, `num_elements`, `sample` | `fetch_add`/`fetch_sub` of summary bits by racing threads; walks over words that shrink meanwhile; masks at word borders | summaries exact when operations are over; every element in range handed out once |
| `IndexMap`, `index_map.h` | per node: flags, dirty bits, least value below | `insert`, `repair`, `extract_min`, `extract_prefix_min`, `empty` | inserts into a word while it is extracted; stale minima | exact minima after `repair`; all and only the elements at the minimum extracted; none lost |
| `Array` and its pool, `array.h` | free lists per worker and size class, global lists under try-locks | allocate, deallocate, construct, move, destroy, exit | two list levels; links inside free blocks; moves | one owner per block; large enough; all returned at exit |
| `write_min`, `write_max`, `atomic.h:95-107` | one location | compare-and-swap loop | stale reads | an atomic minimum with a truthful answer |
| Union-find, `atomic.h:109-139` | `parent` | `find`, `unite` | stale path halving; two threads linking the same roots | trees are the joined sets; `max()` for exactly the calls that joined nothing |
| `dijkstra`, `bellman_ford`, `shortest_path.h` | distances, an `IndexMap` or two `IndexSet`s | rounds of relaxation | insertion during extraction, edges of weight 0, saturation, pulls and pushes on one array | shortest distances; termination |
| k-core, `k_core.h` | counts, shards of sampled vertices, `k`, frontiers | rounds, `peel`, `local_search`, resampling | concurrent subtraction, counts nobody sees together, `k` raised too far | exact coreness |
| Graph colouring, `graph_coloring.h` | colours, blocker counts, frontiers | rounds | who reads a colour before it is written | the greedy colouring of the given order |
| Breadth-first searches, `breadth_first_search.h` | distances (and parents), frontiers, mode, stride, round | three modes, local search over a window of rounds | hand-over between modes; local searches overtaking each other | exact distances; a shortest-path tree |
| `LocalQueue`, `local_queue.h` | a fixed array used as a queue, its two positions, and a budget of edges | `push_back`, `pop_top`, `for_each` | `push_back` does not look at the capacity: only the budget of `pop_top`, and the callers that use no queue for wide vertices, keep it inside the array | every vertex found is searched; no entry past the array; a call searches at least its own vertex |
| Primitives: `reduce`, `scan`, `pack`, `sample_sort`, `random_permutation` in `primitives/` | none that outlives a call | passes over blocks with a sequential step between | sizes rounded up twice, so that last blocks are short or empty; equal splitters | equal to the sequential function, in order |
| CSR graph and graph I/O, `csr.h`, `graph_io.h` | offsets and edges, of one side or two | read, turn, symmetrize, sort, reweigh and write a graph | tasks fill in offsets of empty rows while others read them; sortedness is decided by two sums | the edges of the file, each in the row of either end |
| Verification, timing, benchmark programs | - | hashing and printing results | - | - |

How they interact: the scheduler is a singleton shared by all; a `parallel_for`
body may call `parallel_for` again, also while it runs as a stolen job. The
algorithms own their sets and maps and use them in phases: a phase only
inserts, only removes, or walks one set (in `k_core.h:94-99` the walk's callback
removes what it visits). A local search keeps the vertices it finds in a
`LocalQueue` of its own and hands the rest to further calls. Distances, counts and colours are plain arrays that
callbacks change through the helpers in `atomic.h`.

## 2. Plan

Order of the modules, most important behaviour first:

1. `ForkJoin` (abstract: each right-hand function runs once, before its call
   returns), `Deque` (refines it);
2. `Scheduler` (all workers over abstract deques), `WorkerSleep`, `SchedulerProof`
   for these and the deque;
3. `Words`, `IndexSet`, `IndexSetQueries`;
4. `Pool`, `UnionFind`, `AtomicMin` (abstract), `WriteMin` (refines it),
   `HelpersProof` for these;
5. `IndexMap`, `IndexMapProof`, `Dijkstra` composed with it, `BellmanFord`, and
   `ShortestPathsProof` for both;
6. `KCore`, `KCoreProof`, `GraphColoring`, `GraphColoringProof`,
   `BreadthFirstSearch`, `BreadthFirstTree`, each on the promises of `IndexSet` and `WriteMin`;
7. `AbstractSet` (what callers take an `IndexSet` for, implemented by it),
   `WordsProof` (the arithmetic of both trees), `IndexSetProof`, and
   `Worklist` (what the searches take their queues for), `LocalQueue` (refines it),
   also proved in `HelpersProof`, as are the breadth-first searches;
8. `Blocks` with the primitives `Scan`, `Pack`, `SampleSort`,
   `RandomPermutation`, and `ReadGraph`.

All of these are written. Proved safe is everything of the scheduler and of the data
structures but the queries of `IndexSet`, and all graph algorithms. What is left
are theorems about `IndexSetQueries`, the primitives and `ReadGraph`.

## 3. Modules

Every module begins with a comment that says what an action stands for. The
granularity is one access to a shared location, unless no other thread can
observe what lies between.

* **Deque** - `pos` is a record of both counters, read and written at once, but
  `PushPublish` writes only the tail, from the copy `op` loaded earlier. A call
  of `parallel_do` is its depth on the owner's stack; `frame` is the program
  counter of each. Constants: `Modulus` is 2 to the digits of `ST`, `Capacity`
  the template parameter with the assertions of `scheduler.h:36` as assumption.
  `at` is a history variable: where a job was stored. A thief that finds the
  deque empty changes nothing, so this has no action.
  Refinement: `PhaseOf` and `RunnersOf` map to `ForkJoin`.
* **Scheduler** - `stack` holds the call frames of every worker, `deques` the
  ranges pushed and not taken, as sequences, which is what `Deque` shows of
  them. A range names its job. `Poll` and `StealWaiting` are
  `steal_while_waiting_for`, `StealIdle` the loop of a spawned thread;
  `num_threads` ranges over 1 to `MaxThreads`.
* **WorkerSleep** - the program counters of `go_sleep`, `may_wake_others`, the
  thread loop and the destructor. The number of jobs in a deque stands for it;
  whether a push is the first, and wakes, is decided by the load before it
  (`LengthLoad`), and thieves may empty the deque before the job is in it (`JobPublish`).
  `moved` abstracts `wait_flag`, which is only compared with the value loaded.
* **Words**, **IndexSet**, **IndexSetQueries** - a layer is the set of positions
  of its 1 bits, `Geometry` what the constructor makes of the
  capacity. `AddBit` and `SubBit` carry and borrow as `fetch_add` and
  `fetch_sub` do, so a bit added twice breaks other bits, as in the code.
  `climber` is where a thread is on its way up; `tasks` the words a walk has
  still to visit, which the workers may take in any order; `leaves` the indices
  read and not yet handed out. `IndexSetQueries` computes `reduce`, `sample` and
  `num_elements` from the layers.
* **AbstractSet** - elements, the kind of operations in progress, and what a
  traversal has handed out. It says in one place what callers rely on: a
  traversal hands out each element in range once and nothing else; consuming
  leaves exactly the elements out of range. `IndexSet` implements it with the bits
  of its lowest layer as elements.
* **IndexMap** - `flag`, `dirty`, `augval` by layer. `Lower` is the caller's
  store with its `insert`; `LeafTest` and `LeafKeep` are the two plain reads of
  a value at `index_map.h:113-115`, between which others may lower it. `repair`
  is one step: its tasks work on disjoint subtrees and callers do not insert
  meanwhile. `held`, `inserted`, `called` and `due` are history.
* **Pool** - `link` is the first word of each block and belongs to the user
  while the block is in use, so a list that runs through a block in use is
  noticed. One action per access to a shared list or its lock. `Listed` is what
  `free_chain` reaches from a head: the least set with the head and what its
  blocks link to. `Close` frees all of it in one step: `~Pool` runs when the
  program is over, alone.
* **UnionFind** - one action per access to `parent`; `set` is history.
* **WriteMin** - `Read` and `Swap` are the loop, `Compare` its test; it refines `AtomicMin`, where
  a call takes effect in one step. `write_max` is the same with the order
  reversed.
* **ShortestPaths**, **Dijkstra**, **BellmanFord** - `Dijkstra` instantiates
  `IndexMap` with `sequence <- dist` and takes its actions with the threshold,
  values and indices `dijkstra` passes. In `BellmanFord` each worker pulls and
  pushes edge by edge.
* **KCore** - `AfterSub` is what `peel` does after its `fetch_sub`; `shards` the
  counters of sampled vertices by worker; `work` the edges `local_search` has to
  visit, in any order. Edges to vertices that are no longer active are not kept,
  as the code passes over them.
* **GraphColoring** - a task visits one vertex, neighbour by neighbour; a
  neighbour counted down to zero enters the next frontier. `hash32` is any
  injective function: `unhash32` in `random.h` inverts it.
* **BreadthFirst**, **BreadthFirstSearch**, **BreadthFirstTree** - the three
  modes; when to change mode and how far to stride is left open, as these are
  matters of speed. `BreadthFirst` has the control the two searches share, and its
  actions take what was read as a parameter; the other two add the array each of
  them fills, and where their rounds differ. `pending` counts the entries of a
  vertex in local queues. The tree search keeps distance and parent in one word.
* **Worklist**, **LocalQueue** - how often each vertex waits to be searched, and
  the queue with its calls. `Call` is the branch on the width of a vertex at the
  head of `local_search`, `Wide`/`VisitWide` the parallel loop without a queue;
  which targets are found is left open. A vertex written past the array would be
  lost, so an overflow violates `ImplementsWorklist` as well as `FindsFit`. Every
  call has a queue of its own and nothing else of it is shared, so one at a time
  is enough.
* **Blocks** - what the primitives share: a `parallel_for` is a pass of which each
  task is one step (`Task`), the sequential code between two passes another
  (`Turn`). `Store` keeps a write past the end of an array, so that it is noticed.
  `histogram` is shared by `SampleSort` and `RandomPermutation`.
* **Scan**, **Pack** - the totals of blocks, their prefixes, and the second pass.
  Values are sequences and `Combine` concatenation, which tells any two orders
  apart.
* **SampleSort** - keys with numbers that tell equal keys apart. `hash64` picks the
  samples, so the splitters are any values of the input in order, repeated
  ones included.
* **RandomPermutation** - hashes and choices of swaps are arbitrary.
* **ReadGraph** - the words of a file, `read_graph`, `write_graph` and
  `make_random_weight`. `FillStep` is one read of a task that looks for the offset
  of the next row that is not empty, while other tasks write theirs.
  `sample_sort` and `pack` are taken for what their modules show; of the orders
  parallel edges may come in it has one, by weight.
* **SmallGraphs** - sets of graphs for the `MC` modules.

Compositions: `Dijkstra` with `IndexMap`; `Deque` with `ForkJoin`, `WriteMin`
with `AtomicMin`, `IndexSet` with `AbstractSet` and `LocalQueue` with `Worklist`
by refinement. `MCShortestPaths`, `MCBreadthFirst` and `MCPrimitives`
run one of several programs, chosen at the start, over the same variables;
those a program does not use stay as they are.

Constants stand for those of the code: 64 bits per word become `B` = 2, so that
three layers fit; 256 slots become 3, counters modulo 256 modulo 4; the sampling
threshold 8192 and the palette of 512 colours become 2; `2*log2(n)` a small
constant; queues of 1024 and 128 vertices have 3 places; the primitives go
sequentially below 3 elements for 8192, with blocks of 2 for 2048 and 16 words;
`shared_sum` takes 2 copies of blocks of 2 for 16 of 4096; `UINT32_MAX` a small maximum, with sums taken modulo the width where
the code lets them wrap.

## 4. Runs and bounds

Each takes two minutes or less with two TLC workers.

| run | checks | bounds, and why they are enough |
|---|---|---|
| `deque` | `DequeInvariant` (the inductive invariant, types included), `StealsAreExclusive`, `ImplementsForkJoin`, `JobsGetDone` | 2 thieves so that thieves race each other; 3 slots do not divide counters modulo 4, so slot and counter wrap apart; 3 nested calls fill the deque, are refused, and meet a slot that is still being emptied |
| `scheduler` | `SchedulerInvariant` (calls are nested; no index is below two jobs or run twice; deques hold the jobs of the innermost calls, in order; each pop gets the job of its call; a job in a deque or on a thief's stack has its call still on the stack; one worker alone never rolls dice), `ReturnsAfterItsRange`, `Completes` | 1 to 3 workers; 7 indices give calls nested 3 deep with uneven halves; deques of 2 overflow; chains of workers that wait on top of each other's jobs arise |
| `worker_sleep` | `SleepInvariant` (`num_awake` and `num_exits` count who is awake and who has left; who sleeps through a change of `wait_flag` is about to be notified), `WakeUpsReachSleepers`, `ShutdownCompletes` | 3 spawned threads besides main: a wake-up threshold and sleepers on both sides of it; 2 jobs per deque, so that a push that loads 0 wakes, one that loads 1 does not, and either may find the deque empty when it publishes |
| `index_set` | `SetInvariant` (summary bits exact, or owed by exactly one thread or task; shifts in range; no index below two tasks, none in range forgotten), `QueriesAreExact`, `ImplementsSet` | 3 layers, so that a middle layer has both parents and children; 7 of 8 places, so that the last word of each layer is partial; 3 threads; all pairs of bounds; every set is reached |
| `index_map` | `MapInvariant` (types, exact minima after `repair`, changed words dirty up to the top or owed), `ExtractsTheMinima`, `TakesPrefixMinima` | 3 indices in 2 layers: one full and one partial word; values 0 to 3; 2 threads that lower and insert during an extraction. `shortest_paths` uses a map of 3 layers |
| `pool` | `PoolInvariant` (one owner per block, blocks fit, lists without circles whose links are kept, no worker keeps more than one free block of a large class, one lock holder, no two calls on one Array), `EverythingIsReturned` | 2 workers racing for one global bucket, 3 Arrays for chains of moves, requests of 0 to 4 bytes in a small and a large class, 4 addresses. Deadlock is not checked: an allocation with no address left stops, as does the closed program |
| `union_find` | `ForestInvariant` (parents descend and so do pending stores; trees are the sets; whatever a call holds lies in the sets of its arguments), `UniteTellsTheTruth`, `LinksAreForGood` | 4 elements give paths of length 3, long enough for halving to store an ancestor that has moved on; 2 threads; calls without end |
| `shortest_paths` | `DijkstraInvariant` (extracted distances are final; `dijkstra` ends with the shortest), `FindsShortestPaths` (so does `bellman_ford`), `BellmanFordInvariant` (edges relaxed or their source waiting; after r rounds all walks of r edges), `Terminates`; `ImplementsAtomicMin`, `CallsReturn` | all graphs of 3 vertices with weights 0 and 1, and 6 of 5 vertices: ties within and across words, cycles of weight 0, parallel edges, sums beyond `Max` = 7; an `IndexMap` of 3 layers; 2 threads. For `write_min` 3 threads, so that one can fail twice, and 4 values |
| `k_core` | `FindsCoreness`, `KCoreInvariant` (counts exact; nobody is peeled in a wrong round; sampled vertices are watched), `KRises` | graphs of 5 vertices up to order of degree, and 3 of 7 vertices in which shards are redistributed and `k` is raised too far; 2 workers; initial `no_reduce` 0 and 1, so that both ways to find `k` occur |
| `graph_coloring` | `FindsGreedyColoring`, `ColoringInvariant` (neighbours are never coloured in the same round; blocker counts exact) | all graphs of 5 vertices, palette of 2, so that colours on both sides of it are used; 2 tasks |
| `breadth_first` | `SearchInvariant` (each round starts from exactly its level; searches stay inside the window; the distances at the end are exact), `TreeInvariant` (the same of rounds; a parent is always nearer than its child), `FindsTree` (exact distances, parents one edge closer) | symmetric graphs and all graphs from the source of 4 vertices, and graphs of 6 vertices up to five edges deep; strides to 3, long searches from round 2 on, the least that `2 * log2(n)` can be (`log2` is the width of `n`), so every hand-over between modes occurs; 2 tasks |
| `primitives` | `ReturnsInOrder` (`scan`, `reduce`, `pack`), `RearrangesInput` (`sample_sort`, `random_permutation`), `RowsAreRight` (well-formed offsets, the edges of the file, both ends agree, writing reads back, and rows in order are seen to be, so that the loop of `make_sorted` ends after one pass), `QueueInvariant`, `ImplementsWorklist` | 0 to 8 elements in blocks of 1 to 3: sequential, full, short and empty blocks; every condition of `pack`; all inputs of 4 and 5 keys of 3 values and of 7 keys of 2, with all splitters, so equal splitters and empty buckets; all graphs of 3 vertices with up to 2 edges each, loops and parallel edges included, and all weighted ones of 2: empty rows at the start, in the middle and at the end; 3 vertices of all degrees up to 4 around a queue of 3. Long chains of finds are cut at 3, when a queue of 3 is full |

Every property has a seeded bug that breaks it in its run (for example: the
value of `fetch_sub` not tested again, a wake-up that notifies one thread, path
linking without an order, sums that wrap, `k` not taken back). Symmetry is used
only over threads, tasks, addresses and Arrays, which the models treat alike,
and never in a run with a liveness property.

## 5. Fairness

Liveness is claimed only under weak fairness of threads that have something to
do, which the operating system's scheduler gives; the steps concerned do not
wait for others.

* `Deque`: a thief that has won its compare-exchange goes on to read and empty
  the slot and to run the job (`f()` returns). The owner and thieves that have
  won nothing need no fairness for `JobsGetDone`.
* `Scheduler`: each worker takes its next step when it has one. A waiting worker
  that finds nothing to steal just polls again.
* `WorkerSleep`: a thread inside `may_wake_others`, `go_sleep` or its loop goes
  on, and the destructor's loop is repeated. User code may stop for ever;
  nothing is assumed of it.
* `WriteMin`: a thread inside a call goes on. Each failed swap means that the
  value fell, so calls end without fairness among the swaps.
* `MCShortestPaths`: the program takes a step as long as there is one.

## 6. Proofs

**HelpersProof** proves of `UnionFind`, for every number of elements and every set of threads:

* `Invariance`: `Descent`, that is the types, `parent[e] <= e`, and `StoresDescend`:
  whatever a thread is about to store lies below the place it stores it in. The
  last part makes it inductive: what a thread read may be stale when it is
  stored, but values read along a walk only fall.
* `LinksStay`: `LinksAreForGood`, from the same step lemma.
* `ForestIsRight`: `ForestInvariant`. The sets are disjoint, closed under `parent`,
  and their one root is their least element (`SetsAreApart`, `RootsAreLeast`);
  `WalksStayInSets` makes that inductive: when `unite` links `i`, a root, to `j`,
  these are in the sets of its two arguments, whatever others have joined since.
  That the trees are the sets then follows: the least elements of the sets satisfy
  the equation that defines roots, and as parents descend nothing else does.
* `UniteIsRight`: `UniteTellsTheTruth`, an action property. When `unite` finds
  equal roots and answers `max()`, its arguments are in one set; when its swap
  succeeds, they were not.

and of `WriteMin`, for every set of threads and every set of integers:

* `WriteMinTypeCorrect`, types, and that a thread about to swap has seen a value
  above its own.
* `WriteMinIsAtomic`: the loop implements `AtomicMin`. The successful swap is the step
  that takes effect; a call that finds the value low enough takes effect at that read.

and of `LocalQueue`, for every set of vertices with any degrees, every
capacity of at least 1 and any number of finds (`QueueAssumption`):

* `QueueIsRight`: `QueueInvariant` in every reachable state. `FindsFit` is the reason
  that `push_back` need not look at the capacity: places taken, edges still to be
  visited and the budget together never exceed the array. `CallsAdvance` needs
  that a vertex has left the queue while its edges are visited (`InPhase`), and
  both need that what waits in the queue are vertices (`HoldsVertices`).
* `QueueIsAWorklist`: every step maps to a step of `Worklist` or to a stutter, with a
  vertex waiting as often as there are calls for it and places of the queue that
  hold it (`Pending`). The places are counted by adding and removing one element
  of a finite set; `for_each` moves all of them to calls and changes no sum.

and of `Pool`, for every number of workers, Arrays and addresses and every choice of
size classes (`PoolAssumption`):

* `PoolIsRight`: `PoolInvariant`. To say that one reference points to each block
  (an Array, a call, a list head or another block's link) is not inductive: one
  needs what each reference promises of its block, its size (`Sizes`) and whether
  its first word is a link (`Marks`), and that a head read under the lock is still
  the head when it is replaced (`HeadsStay`). Then a step is a permutation of
  references: it passes a block from one to another, at most three in a row
  (`Pass`, `Rotate`), and `Carries` is shown once for these. `operator new` gives a
  reference to a block that has none; `operator delete` takes the only one.
  Lists have no circles (`ListsHaveHeads`: among any blocks there is one that none
  of them links to), since a step removes links or puts a block before a list
  that nothing links to.
* `PoolIsReturned`: `EverythingIsReturned`. If `~Pool` missed blocks, one of them
  would be linked to by none of the others; it has a reference, no Array or call
  is left, and a head or a block that is in a list would put it in that list too.

and of the breadth-first searches, for every set of graphs, loops included, every number
of tasks, every bound on the stride and every length from which a search
counts as long (`BreadthFirstAssumption`):

* `SearchIsCorrect`: `SearchInvariant`. The inductive invariant, `RoundsAreSound`, is
  one for both programs: it speaks of `Distance`, and says what is true at the top
  of the loop, during a round of mode 0, and in a window. In mode 0 an edge from a
  vertex that was taken is still to be visited or its end is claimed (`PushFacts`).
  In a window each edge inside it is relaxed or somebody owes it (`AllOwed`): its
  source waits in the frontier or a queue, a task that pulls has read, or will
  read, something nearer, or a task is to push over the edge from a distance that
  is no longer. When all are at rest every vertex in the window is exact, by
  induction over the rounds. That no distance leaves the window (`InWindow`) needs
  that a task which pulls finds something near enough (`IsPulling`): a vertex that
  was reached keeps a neighbour that is nearer (`HasNearer`). And that distances stay
  below `n` needs that at each smaller one there is a vertex, so that `min_dist_d + 1`
  never wraps.
* `TreeIsKept`, `TreeIsFound`: `TreeInvariant` and `FindsTree`. Besides, a word names an
  edge, and its parent is nearer when the word is offered; as distances only fall,
  it stays nearer until the word itself is replaced (`WordIsSound`). What a task
  has pulled may be stale, but the vertex it names is by then no farther
  (`PulledFrom`).
* `Hops` is shown to be what its recursion says, to be passed on by at most one over
  an edge (`HopsOver`), and to need fewer edges than there are vertices
  (`RingsCount`).

**SchedulerProof** proves of `Scheduler`, for every number of threads, range, granularity and
size of the deques (`SchedulerAssumption`):

* `SchedulerIsRight`: `SchedulerInvariant`. That a pop gets the job of its own call
  is not inductive. What is: each index belongs to one call or job at most
  (`OwnersAreApart`: a call owns what it has neither run nor given away), so equal
  ranges are the same job (`JobsDiffer`); the jobs in a deque are those of its
  worker's innermost calls, in call order (`JobsInOrder`), which holds because a
  call deeper on the stack has popped or lost its job before it is left; and what
  was pushed is in the deque, with a thief, or done (`JobsAreKept`). The youngest
  job of a deque can then only be the job of the call that pops.
* `ReturnsAreRight`: `ReturnsAfterItsRange`, from `RanOnce`: what lies behind a
  call on the stack has been run, whoever ran it.

It also proves, of `WorkerSleep` and for every number of threads and jobs,
`SleepIsSafe`: `SleepInvariant`. The counters are cardinalities of sets of threads, and a step
moves one thread in or out of a set (`OneMoves`). `NoLostNotify` holds as a thread
that changes `wait_flag` goes on to notify, and notifies all that have blocked. That
a deque is never overfull between the two steps of a push (`RoomToPush`) is part of
the inductive invariant: only its owner lengthens it.

The same module proves of `Deque`, for every `Capacity` of at least 3 and at most `Modulus`,
every depth and every set of thieves (`DequeAssumption`, the
assertions of `scheduler.h:36`):

* `DequeIsRight`: `DequeInvariant` holds in every reachable state. The properties
  alone are not inductive; what they need is collected at the end of `Deque`:
  `CountersInv` (the raw gap of the counters stays below `Capacity`, so `length`,
  which is reduced to a slot, is that gap), `PushInv` (between the owner's load
  and its store thieves only shorten the deque and leave an empty one alone, so
  the tail published from the old load is right), `PopInv` (after `PopLoad` one
  unit of the gap is left to subtract), `WindowInv` (the unclaimed jobs are
  exactly the positions from head to tail, in call order, and thieves take the
  oldest first - hence the job at the tail is that of the innermost call),
  `ClaimsInv` and `StackInv`.
* `DequeTypesAreRight`, `StealsAreRight`, `WaitersAreRight`, `JobsAreHeld` follow.
  `RightIsRight` is a further invariant relative to the first.
* `DequeForksAndJoins`: every step maps to a step of `ForkJoin` or to a stutter.

These proofs go action by action. Modular arithmetic is confined to a few lemmas
on distances (`Distances`, `DistanceInjective`, `LengthIsRaw`), which reduce `%` to
case distinctions; everything after them speaks of distances only.

**IndexSetProof** proves, for every capacity, width of a word, number of layers
that fits them, and set of threads (`WordsAssumption`), the two properties of
`IndexSet`:

* `SetIsRight`: `SetInvariant`. The invariant that is inductive, `Sound`, speaks of
  single bits: a summary bit differs from its word exactly where one thread on its
  way up is still to change it or, in `consume_each`, where a task is still to run
  (`Owed`). So a `fetch_add` never meets a bit that is set and a `fetch_sub` never
  one that is clear, and no carry reaches other bits (`AddBit`, `SubBit`); that it
  is one thread follows from the value `fetch_add` returns, as the first bit of a
  word comes only once. For the traversals, `TasksMeetRange`, `TasksAreApart` and
  `NobodyIsForgotten` follow each index to the one task above it. The masks of
  `for_range` are shown to select exactly the children that meet the range, and
  their shifts to be below the width, from arithmetic of quotients alone.
* `TreeIsASet`: the refinement of `AbstractSet`. Insertions and removals take effect
  at the lowest layer; each task or leaf visited is a step of the abstract
  traversal or a stutter; a traversal can only end when nobody is forgotten.

**IndexMapProof** proves, for every capacity, width of a word, number of layers that
fits them, largest value (`MapAssumption`) and set of threads, the properties of
`IndexMap`:

* `TreeIsRepaired`: `MapInvariant`. The inductive invariant, `Sound`, has four parts.
  The dirty bits are owed as the summary bits of `IndexSetProof` are (`AllOwed`).
  The least value of a node is the least of those in the lowest layer below it
  (`AugvalsAgree`), so that the layers above need no argument of their own. In the
  lowest layer it is at most each value that is not marked (`LeastIsBelow`) and
  is reached by an element, or by one lowered since (`LeastIsReached`): a value that
  `f` has lowered is stale only while its index is marked. And during an extraction
  each leaf under way holds its elements, with a running minimum of what it keeps
  (`Extraction`). `repair` computes, by layers, exactly the flags and minima in closed
  form; here a recursive function is shown to be that form by induction over layers.
* `MinimaAreExtracted`: `ExtractsTheMinima`. A leaf is entered if it holds an element
  at most the threshold, as its least value is no more; what `f` lowers is marked.
* `PrefixMinimaAreTaken`: `TakesPrefixMinima`, an action property, from what the running
  minimum is after each word and inside it.

The arithmetic of positions, words and layers that both trees need is in
**WordsProof**.

**ShortestPathsProof** proves, for every set of weighted graphs, with loops and parallel
edges or without, every number of vertices, largest distance and set of workers
(`ShortestPathsAssumption`), of `BellmanFord`:

* `RoundsAreEnough`: `BellmanFordInvariant`. Of an edge one needs during a round that it
  is relaxed, or its source is yet to push over it with the distance that it has
  now, or it is in the next frontier (`RelaxesAll`): a push that lowers the source
  after it was read inserts it, and a pull comes before the read. That walks of one
  more edge are covered (`CoversNext`) is weaker than that, and survives both.
  Nothing is too short, since the distances are closed under one more edge.
* `ShortestPathsAreFound`: `FindsShortestPaths` for `bellman_ford`. Walks of `n - 1`
  edges are long enough (`FewEdges`): if the shortest walk to some vertex needs `h`
  edges, then for each smaller number there is another vertex that needs just
  so many (`OneEdgeLess`), and there are only `n`. `WalkDistances` is shown to be
  what its recursion says by induction over the number of edges.

and of `Dijkstra`, over every map that `MapAssumption` allows:

* `DijkstraIsRight`: `DijkstraInvariant`. That extracted distances are final is not
  inductive; what is, `DijkstraSound`, is that no distance and no offer is too short
  (`NoneTooShort`) and that every edge is relaxed unless somebody still owes it
  (`EdgesAreOwed`): its source is in the map or on its way into it, is being
  relaxed, or an offer over this edge is under way. After `repair` no element
  lies below the least value, so every edge from below the threshold is relaxed,
  and by induction over the edges of walks all distances below the threshold are
  final (`FinalBelow`, from `ExactBelow`). What is extracted lies at the threshold,
  and is final as it is not too short and no shorter walk can end there. With an
  empty map the same lemma, with `Max` for the threshold, gives the result.
* `MapIsUsedInTurns`: `DijkstraSpec` implements the specification of `IndexMap`, so
  that `MapInvariant` and what an extraction promises hold of its map: `dijkstra`
  inserts, repairs and extracts only when the map allows it, though values and
  indices come from its own steps. The proof of `DijkstraIsRight` uses this: the
  invariant of the map, proved in `IndexMapProof`, is carried along.

**KCoreProof** proves, for every set of symmetric graphs without loops, every number of
workers, every sampling threshold that is at least that number, and every width
that holds the number of vertices (`KCoreAssumption`):

* `CountsAreKept`: `KCoreInvariant`. The inductive invariant, `Sound`, says what each
  count stands for. That of a sampled vertex, `k` more than its shards together, is
  exact (`SampledCount`); so is the count of a vertex that nobody has found to have
  `k` edges left (`ExactCount`). From then on the worker that found `k + 1` is about
  to remove it and nobody else is (`OneRemoves`), and the count with what is yet to
  be added back stays `k` (`RemovedCount`, `Settled`). Of edges yet to be visited
  there are then at most `k`, less those being added back: this is why `coreness`
  does not wrap, although `peel` subtracts first. Each edge is counted down once,
  after the vertex it comes from was peeled (`EdgesGoOnce`).
  A vertex is peeled with at most `k` edges left, so it is in no core of `k + 1`, and
  what is active is in the core of `k` (`CoresAreActive`).
* `CorenessIsFound`: `FindsCoreness`. Between rounds every active vertex has more than
  `k` edges to active ones, so they are the core of `k + 1` (`RoundsHave`).
* `RoundsRaiseK`: `KRises`, an action property, from what a round does to the shards
  (`RoundDoes`): `k` is taken back by less than it was raised, and to no more than
  any active vertex has left. The sum of the shards is a recursive function, shown
  to change by what one worker adds to it (`TotalAdds`) and to be kept by
  `distribute` (`DistributeKeeps`), by induction over the workers.

**GraphColoringProof** proves, for every set of symmetric graphs without loops, every
injective `hash32`, every palette and number of tasks (`ColoringAssumption`):

* `ColoringIsSound`: `ColoringInvariant`. What is inductive, `Sound`, follows a vertex
  from waiting to coloured: it is in one frontier or has one task (`PlacesAreApart`);
  its count is the number of neighbours before it that have yet to tell it, and
  with none of these left it is in a frontier or done (`CountsAreKept`); in the
  present frontier all neighbours before it have their colours (`BlockersGoFirst`);
  a task knows exactly the colours of the neighbours it has visited, in its
  palette or marked (`TasksKnowColors`). That no two neighbours are coloured in the
  same round is what keeps that knowledge fresh.
* `GreedyColoringIsFound`: `FindsGreedyColoring`. A chosen colour is the least that no
  neighbour before has (`ColorsAreLeast`), as the neighbours are too few to take
  all colours up to the degree. The order numbers the vertices (`RanksAreTaken`),
  so the first vertex without a colour at the end would wait for nobody, and
  each step of the sequential algorithm finds the colour that is there.

Numbers: to the provers `^` is any function, so `WordsAssumption` and
`PoolAssumption` state of powers what arithmetic makes of them,
`b^0 = 1` and `b^(k+1) = b^k * b`, and `KCoreAssumption` and `ColoringAssumption` that
`2^Width` is a number;
TLC evaluates them on the constants of its runs.

## 7. Only model-checked

Liveness (`JobsGetDone`, `Completes`, `ShutdownCompletes`, `CallsReturn`,
`Terminates`) is out of the prover's reach. The results of the primitives and of
`read_graph` (prefixes, orders, rows) and of the queries of an `IndexSet` are
compared by TLC with reference definitions on small inputs: the induction
theorems of the library take an operator, which the provers cannot instantiate,
and only the recursions that the proofs above need were unrolled by hand, from a
smallest counterexample.
Termination of `find` and `unite` is not checked as a liveness property;
`LinksAreForGood` is the reason for it: each failed link means that another
one succeeded, and there are at most `N - 1` of them.

## 8. Not modelled

* Weak memory: steps are atomic and in one order. Under `TOGGLE_TREE_WEAK_MEMORY`
  and with the relaxed orders of `atomic.h` more outcomes may exist.
* `wait_flag` wrapping by exactly 2^32 between two instructions; requests above
  2^63 bytes; random weights of 32 bits, for which `make_random_weight` computes a
  range of 0.
* Files whose ends are symmetric and whose weights are not: `read_graph` copies
  the out-edges to the in-edges, so that these carry the weights of the opposite
  edges. `RowsAreRight` makes no claim on them until `make_random_weight`.
* Collisions of the hashes in `is_file_symmetrized`: it adds up 64-bit differences
  of hashes, and a file that is not symmetric passes when they happen to cancel.
  The model compares the edges with the edges back.
* Opening, mapping and reading a file, all of whose errors end the program.
* An `IndexSet` with insertions and removals at once: callers keep them apart.
* Element construction, `stream_store`, prefetching and granularities: no effect
  on results.
* `std::sort`, which also sorts small inputs of `sample_sort`, and that `unhash32`
  and `unhash64` invert the hashes: arithmetic over all of 2^32 and 2^64. In the
  algorithms a `reduce` whose reads race with writes is a step of its own.
* The external scheduler (`TOGGLE_TREE_USE_PARLAY`), `verify.h`, `timer.h` and the
  benchmark programs: output and measuring that nothing in the library reads back.
