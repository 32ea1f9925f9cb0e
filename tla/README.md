# CoVault: TLA+ models of its processes, lists and queries

CoVault runs analytics in two-party computation (2PC). Two machines, LEFT and
RIGHT, evaluate garbled circuits (EMP-toolkit) over secret-shared encounter
data. To be safe against a malicious party the computation is done twice with
the roles exchanged (*DualEx*), and a value is only trusted after a maliciously
secure circuit has found the two executions equal. Around that core the
repository has reducers that merge and compact lists, mappers and ingress
programs that fill a redis store with garbled tiles, a shuffled encounter store
and the contact and flow queries over it.

What is hard in this code is not its arithmetic, it is the hand-overs: up to six
processes of a machine share patches of anonymous memory guarded by mutexes that
one process locks and another unlocks, meet the other machine in untagged
`io->sync()` calls, and must keep making the same calls in the same order.

## 1. Inventory

| Component | Source | State | Operations | Talks to |
|---|---|---|---|---|
| `SwappableRam` | `include/dualex_reveal.hpp:39-183` | two anonymous shared patches, four process-shared mutexes, per process `swapped`, `swap_set` | `choose_side`, `get`, `swap` | the two processes that share it |
| `Revealer` | `include/dualex_reveal.hpp:187-791` | eight `SwappableRam`s, per process `ready_to_request_eq_check`, `eq_check_in_progress`, `nonce` | `reveal`, `get_eq_check_results`, `request_eq_check`, `stop_eq_checker`, the checker loop | garbler, non-garbler and checker of a machine; the partner process of the other machine |
| process launch | `include/dualex_reveal.hpp:793-914` | which of the processes this is | `fork_n_processes`, `fork_and_setup` | `Revealer` |
| `Reusable_Secrets` | `include/secrets.hpp` | a secret per machine, per process party/side | construction only | `Revealer`, the encounter store |
| encounter store | `include/store_path_encounter.hpp` | shuffled, encrypted, MACed arrays held on both machines, sorted hash index | `store_path_encounter`, `send_shuffle`/`receive_shuffle`, `fetch_and_decrypt_encounter` | `Revealer` (every index revealed), NetIO |
| contact and flow query | `include/contact_path_query.hpp`, `include/flow_path_query.hpp` | the walk's frontier, filter lists and counts | a loop of fetches, a sort and a walk | encounter store, `Revealer` |
| shared-memory pipe | `include/shared_memory.hpp` | a named segment and a named semaphore per link | `sender`, `receiver` | the reducer processes of `test/node_q2.cpp` |
| reduce primitives | `include/primitives.hpp`, `include/reducer.hpp` | a list and a distance per cell | `compute_distance_mark_duplicates`, `compact`, `aggregate`, `filter` | reducers |
| reducers | `src/L1reducer.cpp`, `src/L2reducer.cpp` | two tiles' worth of list | receive, flip, merge, compact | mappers, over NetIO |
| dual-execution reducer | `src/reducer_eq.cpp` | labels and bools of two executions, one in named shared memory | fork, `reduce` twice, `wait`, `equality_check` | parent and child, both machines |
| test nodes | `test/node_q1.cpp`, `test/node_q2.cpp`, `include/io.hpp` | a list or a counter per process | map tiles, then up to four reduce stages over pipes and sockets | their peers, each other |
| mappers | `src/mapper*.cpp`, `include/mapper*.hpp`, `include/map_reducer.hpp` | the lists of matching devices | `process_first_pair`, `run_query_unique_devices` | redis, reducers |
| ingress | `include/ingress.hpp`, `src/ingress*.cpp` | a tile, its sort keys | sort, confirm, store in redis | redis |
| redis client | `include/redis.h` | one connection | `get`, `set`, reconnect | the redis server |
| encounter format | `include/encounter.hpp`, `include/types.h` | bit layouts | generating, sharing, `fillIntegers` | everything over tiles |
| Bloom filter | `include/bloomfilter.h`, `include/counter.h` | a string of bits | `insert`, `lookup` | the contact and flow queries |
| MACs, hashes, AES | `include/macs/*`, `include/dualex/hash.h` | none kept | circuits | ingress, mappers |
| old DualEx | `include/dualex/dualex.h`, `include/dualex/eq.h`, `include/dualex/ag2pc_wrapper.h` | labels of two rounds run in sequence | `dualex_wrapper` | NetIO |
| parsing and statistics | `include/utils/*` | none | pure I/O | programs |

### Behaviours that are hard, and what would be correct

* **Two processes, four mutexes** (`swap`). The patch a process owns depends on
  how many swaps it has made; mutexes are unlocked by a process that did not
  lock them. Correct means: never the same patch for two processes outside
  `swap`, no return before the other side has called, and no deadlock however
  far one side runs ahead.
* **Six processes and untagged rendezvous** (`reveal`). Correct means: two
  processes that meet in `io->sync()` are at the same sync of the same reveal;
  the value a process outputs is the one of this reveal; the verdict
  `get_eq_check_results` returns is about the reveal before it; all four
  processes get the same answers, because they branch on them; and every call
  returns.
* **Named objects that outlive their processes** (`sender`, `receiver`).
  Correct means: what is received is what was sent in the same round, and a
  receiver whose sender runs gets something.
* **Oblivious list code** (`compact`). It moves cells by powers of two without
  branching; correct means that no kept cell is overwritten, order is kept, and
  empty cells end up behind.
* **Client branches** (encounter store and queries). One machine stores, the
  other helps; an early return on one of them leaves the other waiting in a
  sync or a reveal.
* **A store written in several steps** (`store_garbled_data`). Three redis keys,
  results ignored, a failed `SET` reported as done after a reconnect.
* **Bits that only positions name** (`encounter.hpp`, `ingress.hpp`, `mapper.hpp`).
  The writer lists fields, the readers count bits. Correct means: what a query
  gives is what the encounters say, through shares, sort and confirmation.
* **A tree of processes that meet by names and ports** (`node_q1.cpp`,
  `node_q2.cpp`). Correct means: it ends, and every process's result is in the
  last one once.

## 2. Modules

| Module | Models | Kind |
|---|---|---|
| `Exchange` | what `SwappableRam` promises: an atomic exchange | abstract specification |
| `SwappableRam` | the class, one action per `lock()`/`unlock()` | component, implements `Exchange` |
| `SwappableRamProofs` | invariants and refinement of `SwappableRam` | theorems |
| `Revealer` | `Revealer`, `fork_and_setup`, the label helpers | component, composed over the exchange |
| `MCRevealer` | the programs `Revealer` is checked with | constants |
| `RevealerProofs` | invariant and the safety properties of `Revealer` | theorems |
| `ShmPipe` | `sender()` and `receiver()` over runs that reuse names | component |
| `MCShmPipe` | the lists | constants |
| `ShmPipeProofs` | invariant, delivery and clean-up of `ShmPipe` | theorems |
| `ReducerEq` | `main()` of `reducer_eq.cpp`: two executions on two machines | component |
| `MCReducerEq` | the bits of fresh memory | constants |
| `ReducerEqProofs` | invariant, and both directions of the equality check | theorems |
| `ListOps` | cells, emp's comparison, marking, distances, "compacted" | operators |
| `Compaction` | marking duplicates, and `compact()` cell by cell | algorithm, against `Compacted` |
| `BitonicSort` | `emp::sort`, `emp::bitonic_merge` | operators |
| `TileReducer` | `L1reducer.cpp`, `L2reducer.cpp` | composes `Compaction`, `BitonicSort` |
| `TileReducerProofs` | `compact()`, the sorting network and both reducers, for every length | theorems |
| `Encounters` | `encounter.hpp`: the generator, the shares, the bits of an integer | operators |
| `Mapper` | `ingress.hpp`, `mapper.hpp`: confirmation, both queries on a tile | operators |
| `QueryTiles` | `ingress_gv.cpp`, the mappers, a reducer: queries 1 and 2 on a tile from upload to output | composes `Encounters`, `Mapper`, `TileReducer` |
| `MCQueryTiles` | cells, ids and sizes | constants |
| `NodeReduce` | the list of one process of `test/node_q2.cpp` | composes `ListOps`, `BitonicSort` |
| `ReduceTree` | the reduce stages of `test/node_q1.cpp` and `test/node_q2.cpp`, all processes of both parties | component |
| `MCReduceTree` | the trees that are run | constants |
| `ReduceTreeProofs` | invariant, and who has whose results | theorems |
| `EncounterStore` | storing, shuffling, fetching, decrypting an encounter | operators, symbolic cryptography |
| `PathQuery` | `contact()` and `flow()` over a store filled shuffle by shuffle | composes `EncounterStore` |
| `MCPathQuery` | queries, histories and settings | constants |
| `PathQueryProofs` | bisection, decryption, the invariants of both queries and their five properties | theorems |
| `TileStore` | `ingress_gv.cpp`, `mapper_gv.cpp` and class `Redis` between them | composes ingress, store and mappers |
| `TileStoreProofs` | invariant and the three properties of `TileStore` | theorems |

### `Exchange` and `SwappableRam`

`Exchange` has no locks, regions or pointers. Each side has a `slot`; it is
"out" of a swap, "in" one, or "done" with it. `Trade` gives both sides the
other's contents at once; `Return` lets each side leave at its own time.

`SwappableRam` is the class statement by statement. `patch` is the contents of
the regions `a` and `b`, `locked` the mutexes `a`, `b`, `ab`, `ba` that are
locked, `swapped[s]` and `swap_set` the members of the same name in the process
that passed `s` to `choose_side` (after the fork each process has its own copy).
`Mine`, `my_mutex`, `next_intermediate` and `old_intermediate` are the pointer
functions of lines 67-97. `swap()` is five actions: the check of `swap_set`
(`CallSwap`), `next_intermediate()->lock()` (`LockNext`), `my_mutex()->unlock()`
with the toggle of `swapped` (`UnlockMine`; `swapped` is private to the process,
so the two statements are one step), `my_mutex()->lock()` (`LockMine`) and
`old_intermediate()->unlock()` (`UnlockOld`). A mutex is what the class makes of
it, a flag that one process waits for and the other clears. Unlocking a mutex
another process locked is undefined for `std::mutex`; the model is the behaviour
of the futex-based build. `init()` locks `a` and `b` in the parent before
the fork; `swapped` is not initialised, so `Init` lets it be anything.

`ImplementsExchange` maps a state to `Exchange` by *who has given up what*: a
side that waits in `LockMine` for a mutex that is still held keeps, abstractly,
the patch it gave up (`slotBar`), and has traded as soon as that mutex is free or
its own (`Traded`). The step that trades is the second `UnlockMine`.

### `Revealer`

Machines are `LEFT` and `RIGHT`, a process is `<<machine, role>>` and execution
`e` has its garbler on machine `e`. Each SwappableRam is a record of two patches,
`mine` of the DualEx process (of the non-garbler for `revealed_value`) and
`theirs`, and a swap is a joint step of the two processes, which is what
`Exchange` promises. The rest is the code's control: `reveal` up to its first
sync (with the nonce a one-sided reveal increments), the three syncs of the two
processes of an execution (`Sync`), the hand-over of the value from the
non-garbler to the garbler of the same machine (`SwapValue`),
`request_eq_check` with its early return, its swaps in order (`SwapWant`,
`SwapLabels`, `SwapBools`), the checker's loop (`eqpc`: which swap it takes next),
`EqualityCheck` and `SwapResult`.

Labels are symbols. What a garbler's labels select under a bit string and what
the evaluator holds are records that are equal exactly when execution, reveal,
bits and selector are, which is what `apply_labels` and the free-XOR labels give
(collisions of labels and of SHA-3 are left out). A value revealed to one machine
is encrypted under that machine's key and its nonce count.

The program is `script`, grown by `Decide`: any sequence of calls, but the same
in the four processes, since they run the same code on the same answers. That the
answers *are* the same is `SameReturns`, not an assumption: a process that gets
another answer still follows the script and the property fails. `sync()` pairs
whatever the two processes have reached; that it pairs the right things is
`SyncAligned`.

### `ShmPipe`

One link between two reducer processes, used again in every run of an
experiment. `seg` and `sem` are what the two *names* refer to, the objects
themselves (`constructed`, `vec`, `count`) live on without a name. `sender()` is
six actions, one per statement that opens, constructs, resizes, writes a cell or
posts; `receiver()` is seven, with its three ways to go back: no semaphore (spin),
no segment (start again, with the post used up), no `SharedData` in it (return).
`resize()` keeps the cells it finds, and throws when the list does not fit: the
exception is caught in `sender()`, which returns without a post. A copy behind the
end of a vector reads anything (`CopyCell`).

`NextRun` is the script that starts both processes again: after they have ended or
after they were killed wherever they were. Names, segments and posts stay. A post
that a killed receiver has not consumed makes the next receiver copy the segment
before the next sender has filled it; nothing in the code tells, so
the properties are stated for runs that start without one (`fresh = 1`), and
everything else a killed run leaves (a name, a half-written list, a semaphore at
zero) is covered by them.

### `ReducerEq`

A process is `<<machine, "parent" | "child">>`, a round is one execution of
`reduce()`: the parents run round 1 with ALICE as generator, the children round 2
with the roles switched. What `reduce()` computes is an input, `v[r]`: the bits of
the list of round `r`, any two lists. The rest is control: setup of both processes
of a round, the generator's half of the reveal, the evaluator's, the loops that
store labels wire by wire and then bits, `wait()`, the choice of labels by the
other round's bits (`Hashed`) and the check. `reduce()` of a
parent stores to its own memory, that of a child to the shared memory. Memory that
nobody has stored holds one word everywhere (`Zero`), so that it agrees with itself as
easily as it can, and any bits (`Fresh`): the code constructs one word and one bool in its
two segments and writes all others behind them, where Boost keeps records of its own. A label is `<<round, wire, bit>>`;
hashes are equal exactly when what is hashed is. The evaluator's second word of a
wire, which the code copies from the next label, is never read; the model makes it zero.

`Kill` ends any process anywhere. `wait()` returns for a killed child as it does for
one that exits, and the parent goes on with what the shared memory holds:
`EqualMeansEqual` says what the verdict is then worth. A process whose peer is gone
while it still needs it fails (`PeerLost`).

### `ListOps`, `Compaction`, `BitonicSort`, `TileReducer`, `NodeReduce`

A cell is an integer of 32 bits: `Half` is 2^31, `none` is `-Half`, and the
comparison is emp's, by the sign of the wrapped difference (`geq`). It makes `none`
the largest value beside *positive* fingerprints only (`NoneLargest`), and with fingerprints of
both signs it need not be an order at all (`Sorts`): a positive one, a negative one near it and `none`
form a cycle. Fingerprints are 32 bits of a hash, negative every second time, and no program
checks them. So the models take fingerprints of both signs, and the properties of lists say which of the two
they need: order needs `Sorts`, nothing lost needs `NoneLargest`, and that nothing else comes in needs neither.

`Compaction` is `compute_distance_mark_duplicates()` (`MarkDuplicates`, in one step) and
the double loop of `compact()`, one action per round of the inner
loop with its two conditional moves and both loop headers. The result is compared with
`Compacted`, "the kept cells in order, then none". It has no initial states of its own: it
is the end of every reducer in `QueryTiles`, where it also gets any other list.
`NodeReduce` uses `Compacted` for the whole of `compact()`.

`TileReducer` has one action per tile received (place it, sort or flip it, merge) and
goes on to the reduction; `level` says which of the two programs it is. `NodeReduce` is
the same for a process of `node_q2`, with the first pair, the further tiles and
the lists from other processes, which come reversed, as `ShmPipe` delivers them.
`Output` is what another process of the same program can send. `BitonicSort` computes the
*order* that emp's network leaves, from the keys, so that the same network sorts a list, or
a tile by keys that lie beside it. Its recursions are recursive functions of the length, so that
they can be reasoned about.

### `Encounters`, `Mapper`, `QueryTiles`

A string of bits is the set of the positions of its ones; xor is the symmetric
difference. `Encounters` is `encounter.hpp` as the programs use it: which draws of
devices, ids and reciprocation the hashes can give (`Draws`; even and odd encounters share
them if the pair is reciprocated, `Source`), the two shares, and the integers that
`fillIntegers` makes of a share and a list of fields. `Mapper` has `confirm_encounters` and
what both queries read out of a tile, by numbers of bits (`Slice`), as the code does. Ids of encounters and of
devices are `didbits` wide, fingerprints are the low `hashbits` of a device (`fingerprint`; 256
and 32 bits in the code, 4 and 3 here), the other fields are as wide as in the code. `ById` is the sorting network
on numbers as wide as ids, which ingress uses. Nothing of the layout is assumed: a
reader that is a bit off gives another result.

`QueryTiles` is the whole way: `Ingress` (reconstruct, sort by id, confirm, store),
`Map` (sick device, both queries), then `TileReducer` to the end of the compaction. The
mapper reads the same key for every tile, so a reducer of query 2 gets the same tile each time.

### `ReduceTree`

Every process of both parties, in `LAYERS` reduce stages. A process knows its role in a
stage (`Role`) from its id, its addresses and how it was compiled. `SyncBegin` and `Merge` are
the `io->sync()` of the two processes with an id, which both must have reached; everything
else is done by each alone. A pipe is what lies under a name (`Pipe`, `Name`), a name comes
from the ports that the code computes, `+50` and `+60` included, and `ShmPipe` says why a
pipe may be one cell here. A connection is made when the other process listens on
that stage's port (`Connect`), stays in the backlog until it is accepted (`Accept`), and what
was sent can be read after the sender has gone on. A result is the bag of the processes whose own results have
gone into it. `node_q1` hands `reducer_ip_2` to `parse()` twice; `ip_2` and `ip_3` are what its variables
then hold.

### `EncounterStore` and `PathQuery`

`EncounterStore` is the data path as operators. MACs, hashes and AES streams are
symbols that are equal when all that goes into them is; a stream put on twice is
gone, put on in another order it is not, and data under any layer reads as
`Nothing`. Only the *order* of hashes is numeric (the constant `Hash`, with a salt for the
secrets), because the stored array is sorted by it and searched by bisection (`Bisection`); it gives
no two keys of a store the same number (`SettingAssumption`). The
data of a dummy, which the code leaves as it is in memory, is `Nothing`.

`PathQuery` fills a store shuffle by shuffle (`StoreEpoch`, `SendShuffle`,
`ReceiveShuffle`), as the tests do, from a history `hist` of who met whom when, and
then runs one query. `Fetch` is one round of the innermost loop: decide between
the device's previous encounter and a dummy, look the key up in LEFT's and RIGHT's
hashes, decrypt, use it, step the previous time and the nonce, go on. `walk_previous` is what the
caller gives, the time of each device's last encounter, by list and place in the list (`source_previous` and
`sink_previous` of `flow()`). `FetchFails` is the store's answer "not found", which only
RIGHT gets; the machines then stand apart for good (`split`). `SortList` and
`WalkThrough` are the second half of `flow()`; a sorted list is given by how many elements come before each. Bloom filters are sets of positions;
`positions` gives each device its own, and one setting lets two devices share
them, so that filters err. The equality checks come out true here, `Revealer`
has them. What is stored goes to LEFT (`store_path_encounter`'s default), which shuffles and sends
it, and RIGHT keeps the shuffle and looks keys up, as in the tests of the store and of `contact()` and by the default of
`contact()` and of the fetch. `flow()` is modelled with RIGHT as well; its own defaults differ (section 5).

The history is an abstraction of what devices record: a meeting is of two different devices and has one
time, `Recorded` being the two records of it. The tests' `fill_flow_encounters` gives the two records
of a pair successive times and lets a device meet itself. The properties are about the time of an encounter as the walked
device has it.

### `TileStore`

Each party has its own Redis, an `ingress_gv` that overwrites three keys in every
repetition, and a `mapper_gv` that may start at any time. A value is the number of the
repetition that garbled it: labels of two repetitions do not fit together, and neither do
those of the two parties if they are of different ones. The 2PC computation of both
ingress programs (setup to confirmation) is one joint step (`Garble`), since no party
can end it alone; storing is three steps per party (`Stores`), one per `SET`, in the
order of `store_garbled_data()`. A mapper connects, gets the sick id, and for each tile
gets it and computes on it (`Map`), the evaluator behind the garbler.

`redisCommand` is hiredis: on a live connection the command is answered (executed, or refused
with an error reply if the server wants AUTH first), or the connection fails,
whether or not the server has executed it; on a failed one there is no reply.
`try_handle_error` connects again after an I/O error, without AUTH. `set` does not send
again, `Get` does once (`Retry`), and the callers end the program
(`Exit`) when the key is missing. An error reply has a text of length above 0,
which `UseReply` takes for labels, as the code does (`ErrorText`). Whether the servers want
AUTH is open (`requires`): the `redis.conf` of the repository sets no password, its
README speaks of one. `unstored` and `quiet` are history, read by properties only.

## 3. Runs

| Run | Instance | Shows |
|---|---|---|
| `swap_dance` | 3 contents, up to 3 swaps per side, 754 states, deadlock checked | the lock discipline `IInv`, `Exclusive`, `BlocksForOther`, every swap both sides call returns (`SwapReturns`), the dance is an atomic exchange (`ImplementsExchange`) |
| `revealer` | any 4 calls to one Revealer, any 3 to two with checkers garbling on different machines | the type invariant, `SyncAligned`, `VerdictMatches`, `OutputsMatch`, `SameReturns`, `CheckedBetween`, `EveryCallReturns`, `CheckersStop` |
| `revealer_blocks` | one Revealer, 2 calls | **violation**: `BlocksUntilChecked` |
| `shm_pipe` | 3 runs over the same names, each ended anywhere; two lists of 2 cells, one of 3 that does not fit | the invariant, `Delivered`, `CleansUp`, `ReceiverReturns` |
| `reducer_eq` | 2 wires, all pairs of lists, up to 2 kills, 73,960 states | the invariant, `EqualMeansEqual`, `AgreementIsSeen`, `CheckCompletes` |
| `query_tiles` | all uploads of 4 encounters between 3 devices; all three tiles of 2 cells in both reducers; all lists of 2 to 6 cells; fingerprints -2, 1, 3; 155,571 states | `UniqueDevices`, `CountsEncounters`, `MergedInOrder`, `NothingLost`, the loop invariant of `compact()`, `OrderKept`, `Compact` |
| `ingress` | 6 reciprocated encounters, ids over the whole range | **violation**: `BothConfirmed` |
| `node_reduce` | three tiles of 2 cells, one list received | **violation**: `ExpectsSorted` |
| `path_query` | all histories of 4 meetings in 2 shuffles, 3 queries, 4 settings, 138,695 states | `NoSplit`, `WalkComplete`, `FetchedOnce`, `ContactCounted`, `FlowCounted` |
| `contact_counts` | the contact query with lists of equal size | **violation**: `CountsContacts` |
| `reduce_tree` | 2, 4 and 8 processes on one machine, 4 on each of two, both parties, 243,314 states | `MergedOnce`, `TreeEnds` |
| `tile_store` | 2 repetitions, 2 tiles, up to 2 failing connections, with and without AUTH | `TilesNotOlder`, `AuthKeepsOrder`, `LabelsFit`, `AllEnd` |

What `tile_store` shows: mappers get tiles older than their sick id, or labels that do not
fit those of the peer, only where a write of ingress was lost (`TilesNotOlder`, `LabelsFit`), and then they do,
since `set()` reports success after a reconnect and its result is ignored anyway. With a
password the missing AUTH makes things *safer*: a Redis that has missed a value refuses all
later ones of that repetition (`AuthKeepsOrder`, which a reconnect with AUTH would break).

**Bounds.** The dance is periodic in two swaps (the toggles return to the same
pointers), and `IInv` shows a side is never more than one swap ahead, so three
swaps see every phase, with the wrap-around. For one Revealer, four calls are enough
for a reveal, its results, a second reveal with the reused patches and a refused call
or a stop; the three reveals are to both machines with equal values, to LEFT with
different ones and to RIGHT, so a stale verdict, value or nonce is visible. With two
Revealers the point is that their checkers and patches are independent; three
calls put a check of each under way at once. Three runs of the pipe let a run find
what a killed run left of what a killed run left. Two wires are the
least at which loops have a middle and lists differ in one bit and agree in
another; two kills lose both children. Six cells take three passes of `compact()`
with the last one partial. Three tiles make the overwritten half
one that a merge has left. Four encounters are two pairs, each reciprocated or not, so that a
confirmed pair stands before, behind or around others in the tile; ids are 0, 1 and 2 in `query_tiles`,
whose differences do not wrap (the other case is `ingress`), and three values leave out tiles
in which no pair is reciprocated, where both queries find nothing. The fingerprints -2, 1 and 3 of `query_tiles` have all cases:
1 and 3 with `none` are in order and `none` is the largest; -2 and 3 are in order, `none` between them; -2, 1 and `none` are a cycle
(`MCCellsMix`, which TLC evaluates). The trees of `reduce_tree` are those that
`run/node_query_run.sh` names for one and two machines, and the one of eight processes that `LOCAL` is
for; with them each stage over pipes is the last one once, and followed by others. Two shuffles of two times each put an encounter on
the border, before and after it; with a budget of 1 a device has more
encounters than are fetched, with 2 it never has; dummies
are enough for all fetches. Two repetitions are one that is overwritten by another, two tiles
let a mapper see them both, and two failures cover both parties, or a write
and a read, or a connection that fails again. `SwappableRamProofs`, `RevealerProofs`, `ShmPipeProofs`, `ReducerEqProofs`, `TileReducerProofs`,
`TileStoreProofs`, `ReduceTreeProofs` and `PathQueryProofs` remove the bounds of the safety properties of their components.

**Deadlock.** `swap_dance` checks it. In all other runs a program ends or may stop
calling, and states without successors are normal; the liveness
properties say what must not stop.

**Fairness.** `SwappableRam` assumes weak fairness of each process's steps
inside `swap()`: the scheduler runs a process whose next `lock()` can succeed or
whose next statement is an `unlock()`. Calling `swap`, writing and choosing a
side are never forced. Weak fairness is enough though `lock()` waits, because
each mutex has one waiter and stays free until that one takes it. `Revealer`
assumes weak fairness of all steps but `Decide`: no process is stopped inside a
call and the network delivers, and what the program calls next is left open.
`ShmPipe` assumes it of the sender and of the receiver (the receiver spins while
there is no name; that loop is its wait) and not of `NextRun`, so the script may
let a run last. `ReducerEq` assumes it of all steps but `Kill`: a process that
lives is scheduled, and TCP delivers or reports a closed connection. `TileStore` and
`ReduceTree` assume only that something goes on while anything can (`WF_vars(Next)`): their programs have no
loop that could keep the others from their turn (tries to connect that fail are no steps of `ReduceTree`).

## 4. Proofs

`SwappableRamProofs`, for every set of contents and every bound on the number of
swaps (assumption `SwapAssumption`: the initial contents are contents, the bound is
a natural number):

* `Inductive`: `SafetySpec => []IInv`. Neither exclusion nor the order of the
  swaps is inductive alone: that a process may unlock the mutex it unlocks
  depends on who holds every other one. `IInv` says, beside the types, that each
  mutex is locked by exactly the side whose place in `swap()` says so
  (`LockedByHolder`), that only processes that chose a side swap
  (`ChosenFirst`), and that either the sides have toggled equally often, with no
  side giving up its patch while the other has yet to finish (`Level`), or one
  side has toggled once more and waits (`Ahead`).
* `ExclusiveAlways` and `BlocksAlways`: both are consequences of `IInv`.
* `Implements`: every step is a step of `Exchange` or a stutter. The proof first
  computes the refinement mapping in the two shapes of `IInv` (`LevelBar`,
  `AheadBar`), then treats one action at a time.

`ShmPipeProofs`, for lists of every length, any capacity and any number of runs
(`PipeAssumption`: lists are not empty and made of cells):

* `PipeInductive`: a fresh run is either `NotPosted` (the receiver waits for the
  semaphore of this run and it is at zero; by the time the sender is about to post,
  the segment of that name is full) or `Posted` (one post, or it is used up and the
  receiver finds the full segment under its name). A run that is not fresh
  only keeps the types: that is why `fresh` is in the model.
* `DeliveredAlways` and `CleansUpAlways` follow from it. That every new run
  starts in `NotPosted` needs only that the semaphore it finds, if any, is at zero.

`ReducerEqProofs`, for every number of wires and of kills (`EqAssumption`):

* `Inductive`: `SafetySpec => []IInv`. The verdict is not inductive: it depends on what
  four processes have stored, at any place they may have been killed. `StoredUpTo`
  says what a process that lives has stored, by its loop counter; `OnlyStored`, for the lost
  ones too, that a cell of memory is untouched or right, and that a bit
  that is set was stored after all labels; `ChildFirst` that a parent that goes on has
  no child that still writes, and that what it hashed is still in memory.
* `EqualAlways`: from equal hashes the first round's words give `bools["A"][2] = v[1]`
  bit by bit (the parents have stored everything), and with it the second round's words
  give `v[2] = v[1]` if a bit is set, because a set bit comes after all labels, or if
  one child has returned. What is left is `Fresh` with two lost children.
* `AgreementAlways`: without a kill both children have returned, and the words that
  four processes keep are computed to be the same.

Every action is treated by itself, with the facts about records and tuples of words
in lemmas of their own.

`RevealerProofs`, for every set of Revealers, of values and of programs
(`RevealerAssumption`: `MaxCalls` is a natural number and no program is longer; it bounds
the types only). Neither the verdict nor the syncs are inductive: what a process will be
answered depends on the flags of four processes, on what eight patches still hold, and on
how far two checkers are. The module first says, of the calls of a process and what it
was answered, which reveal of a Revealer is under way before call k (`Open`), whether its
checker was stopped (`Halted`), whether call k goes on to the checker or is refused (`Goes`),
and which calls went there (`Done`). Two processes with the same calls and answers before k agree on
all of these, and a return changes them in one of three ways (`ReturnKnown`). With these
words the invariant says:

* of one process, that its flags `ready` and `in_progress` are what its history makes of
  them (`FlagInv`), its nonce counts its reveals to one machine (`NonceInv`) and
  every answer was right by its own history (`ReplyInv`, `AgreeInv`);
* of two that meet, the garbler and the non-garbler of an execution in `io->sync()`
  (`SyncInv`) or of a machine over the value (`ValueInv`), that they have had the same
  meetings: in the same call they have passed equally many, and if one is calls ahead, it has met in none of its
  call, the other in all of its own, and the calls between have none (`InStep`);
* of the patches, that what a process has put there is of the call it is in (`OwnInv`), that
  what a checker has taken is of the reveal under way (`HeldInv`), and that a verdict that has
  not been fetched is of it too (`VerdictInv`): a patch that is used again holds old data
  in all other states, so these are tied to the places of both;
* of a checker, which of the calls of its two processes it has served: the same of both, or one more of
  the garbler (`CheckerInv`, by the place in its loop). This is what makes `request_eq_check` of
  the two processes and the eight swaps of the checker pair up;
* of the two machines, whose checkers meet in the equality check only, that a verdict is given
  out, or was, only for a reveal that all four processes have returned from and that no checker is still to
  compare (`SettledNow`, `SettledPast`). Without it a process could go on to the next reveal while the
  other machine's checker has the last one's labels in hand.

`Inductive` treats the steps of the processes (what a step leaves alone, what a
write to a patch and a return do are lemmas of their own) and then those that move a checker. All
six safety properties follow: `TypesAlways`, `SyncAlignedAlways` (two processes that both stand at a sync
have passed equally many, so it is the same one), `VerdictMatchesAlways`, `OutputsMatchAlways`,
`SameReturnsAlways` and `CheckedBetweenAlways`. TLC finds the invariant to hold on the instance of
`revealer` (166,692 states) and on one with five calls to one Revealer.

`TileStoreProofs`, for every number of repetitions, of tiles and of failing connections
(`TileStoreAssumption`):

* `Inductive`: a mapper reads keys at any time, so the properties need what Redis has and not
  only what was read. `StoreInv` says for each key that it is of the last repetition whose write
  reached Redis, and that all later ones that are over are in `unstored`; `SickInv` and `TileInv` carry that to the
  labels a mapper holds; `SameRep` is the joint step of both ingress programs;
  `QuietInv` says that with no ingress running what was read is what is there.
* `AuthInv`: while a connection is authenticated, each key that was written is of this repetition. Once it has
  failed, no later write is accepted, since `try_handle_error` connects without AUTH; with that
  the keys are never out of order (`AuthKeepsOrderAlways`).
* `TilesNotOlderAlways` and `LabelsFitAlways` follow from these parts.

`TileReducerProofs` has three parts. The first is about `compact()`, for lists of every length from 2 (`CompactionAssumption`: `none` is a cell). `Compaction`
has the steps and `CompactSpec` one call of `compact()` on any list, which is how `QueryTiles` starts it too; lists of other
programs reach it through `MarkKeeps` and `CompactKeeps`, which are about the steps alone.

* `InvariantAlways`: `IInv`, which TLC checks in `query_tiles`, with the bounds of the loop variables (`LoopInv`).
  In a pass of steps of u, a cell that has made the pass has a distance in steps of 2u, one that has not
  in steps of u, and both distances lead to the cell's rank (`OnTheWay`). `Gap` is the heart of it: if the
  distance of cell k is odd, no cell of the u places before k is kept, for its rank would differ from k's by less than
  u cells and by an odd multiple of u more than the way between them. `Moved` says what a hop over such a gap
  does to all ranks, `PassEnds` that the first cells of the next pass have nowhere to go.
* `OrderKeptAlways`: so each round leaves the compacted list what it was.
* `CompactAlways`: after the last pass 2^i exceeds every index, so no distance is left. That powers of two
  double and outgrow every number is derived from the cardinality of sets of subsets, and `n_bits` exists by the
  least number with that.

The second part is about the network of `emp::sort` and `emp::bitonic_merge`, for every length, not only powers of two:

* Cells are any numbers of the range, and the order is a hypothesis about those in the list only: `Sortable` says that
  the comparison orders them (`Sorts`), `Height` counts for a cell those it is not below, so that it is a number to sort by (`HeightOrders`).
  `GeqOrders` and `PositiveSorts`: positive cells and `none` are such. `MixedSigns`: a positive and a negative one less than half the
  range apart are not, with `none`, so the hypothesis is not for convenience.
* The 0-1 principle, in place: for a value v the *late* places are those whose cell belongs behind v. A round of comparisons
  acts on late places as on bits (`Swapping`, `Compares`). `HalfClean` is the heart: if all early places are together (or, with
  2^e places, all late ones), then after comparing places m apart, m the greatest power of two below the length, either the
  first part is all early or the second all late, and both parts can be merged again.
  It is stated of the late places, with no cells.
* `MergeSorts` and `SortSorts` follow the recursion. That the recursive functions exist (`MergeExists`, `SortExists`), and what they
  compute, is proved by a least length at which it would fail.
* `SortAlways` and `MergeAlways` say it of lists: the window is in the direction asked for, and it has the same cells as before,
  rearranged by an injection (`Rearranged`). The second half needs no order: whatever emp's comparison says, two cells are exchanged or left.

The third part is about `L1reducer.cpp` and `L2reducer.cpp` (`ReducerSpec`), for every size of tiles and every number of them from two.
No theorem has a hypothesis about fingerprints, which are any cells: what is needed of those that came is part of the
property, and nothing is said to be in order where emp's comparison is none.

* `ReducerInv`: between two tiles the list has cells that came and no more of them than came (`Merged`); if these are sortable the whole list descends, and, if
  `none` is the largest and all fit in one tile, it has exactly the cells that came. `MergedInOrder` alone says nothing of what is overwritten; it is `KeptLast` that does: in a list that
  descends, a largest `none` is in front, so with at most tile_size kept cells the half that the next tile overwrites is all `none`.
  `FirstTile` (it goes to the second half, and L2 flips the other one) and `LaterTile` (sort or flip,
  then merge two halves in opposite directions) are what `Receive` does.
* `MergedInOrderAlways` follows. For `NothingLostAlways`, `MarkedOnce` says that marking neighbours in a descending list
  leaves each device once, `CompactAlways`' invariant goes on through the reduction, and `CompactedOnce` counts the front.

`ReduceTreeProofs`, for every number of machines, whatever they are called and wherever their addresses lead
(`SetupAssumption`: 2, 4 or 8 processes and 1 to 4 stages, as the code has them):

* `IInv`: the results that a process has are the ones its stage says (`ResultInv`: those of `Held`, once each, and
  after the stage between machines those of one other machine as well), and what lies in a pipe or a connection is all
  that its sender had (`ShmInv`, `StreamInv`). That sender and receiver of a stage hold disjoint parts is computed
  from their roles (`Received`, `Given`). An acceptor takes one connection, from a machine that names it (`AcceptInv`).
* `CountedOnceAlways`: no result is counted twice by any process if no setup has a second stage between machines
  (`OneTcpStage`); with one, machines merge what they have merged before (section 5).
* `MergedOnceAlways`: if every setup ends in one machine (`OneTree`: a machine by itself, or two that name the same
  one), the last process has every process's result once. TLC evaluates that the setups of `reduce_tree` are such.

`PathQueryProofs`, for every history of meetings of two, all lists of devices, any number of shuffles and their start times,
every budget, and every order of the hashes and placing of the devices in the Bloom filters
(`QueryAssumption`, `StoreAssumption`, `SettingAssumption`: ids are positive numbers, lists are not empty, newer shuffles start later,
and the hashes of a store do not collide). Three theorems have a hypothesis that is about the callers: a shuffle has a dummy for
every fetch of a list (`EnoughDummies`), or no device is listed twice (`DistinctDevices`); TLC evaluates that both hold of the queries that
are run.

* The store. `SearchExists` and `BisectionIsSearch`: the recursive function of the bisection exists. This is proved with no induction theorem:
  of the lengths at which no function would do there would be a least one, and it is none. `SearchFindsThePlace`: while the key is to the right of
  `min` and left of `max`, some guess meets it; place 0 is never guessed and is looked at first (`KeyIsFound`). `Sorts`: counting
  the smaller keys puts each element of the array in one place. `Decrypts`: three layers come off in the order of
  `decrypt_path_encounter`. Together (`Fetches`): a key is found exactly if it was made for the shuffle, and what is decrypted
  is what was recorded.
* `IInv`, of both walks. No property is inductive, for what a fetch looks up is known only from the one before.
  `PreviousInv` says that a walk stands at an encounter of its device or at the end, `LookedInv` and
  `SeenInv` that what was looked up is what it has come past, and `AheadInv` that in shuffles not yet visited it has
  everything before it. `WithinInv` counts: a device has no more encounters of this shuffle before it (`Before`) than rounds are left, so after the last
  round it stands before the shuffle begins. `NonceInv` bounds the nonce by the rounds so far, `CountInv` ties the count of
  `contact()` to the pairs of a shuffle and a device with a contact that the walk is over with (`Counted`).
* `NoSplitAlways`, `WalkCompleteAlways`, `FetchedOnceAlways` and `ContactCountedAlways` follow from it; the last one
  by an injection of the contacts into what was counted, and back when the filters do not err (`ExactIs` takes a
  positive answer of a filter back to a device). What is counted are pairs of a device and a shuffle; each device with contacts is in
  one at least, and in exactly one where none has contacts in two shuffles (`PairsCounted`).
* `FlowInv`, on top of `IInv`, for the second half of `flow()`. `ListInv`: what is listed was recorded, and what was come past is
  listed, whatever the order of the fetches; `Sorting` keeps that. In the walk through the list, whom a source met before what is left of the
  list is in the filter (`EncounteredInv`), whoever is in it met a source no later than anything that is left (`Past`), and each sink that is
  counted was reached (`InfectedInv`). An encounter of a sink and one of a source at the same time are the same encounter, and cannot
  follow one another on a path, since no device is a source and a sink.
* `FlowCountedAlways`: with the list empty these say that the count is the number of the sinks that were reached.

**Only model-checked.** Liveness and everything under fairness (`SwapReturns`,
`EveryCallReturns`, `CheckersStop`, `ReceiverReturns`, `CheckCompletes`, `AllEnd`, `TreeEnds`): fairness and
ENABLED are beyond the prover. `UniqueDevices` and `CountsEncounters` of `QueryTiles` say what both queries compute from the
bits of the encounters: numbers are folds over sets of positions of bits, and that shares recombine to the same numbers
is an induction over data. What comes after, the reducer, is proved for whatever tiles a mapper sends. `ExpectsSorted` of `NodeReduce` is violated (section 5).

## 5. What disagrees with the code, and what is not modelled

Four runs show that the code and what is said of it differ:

* `revealer_blocks`: `include/dualex_reveal.hpp:342` and `:372` say the calls block
  until `get_eq_check_results` is called; the code at 345 and 375 prints and returns
  false, after `reveal` has already written its output.
* `node_reduce`: `include/reducer.hpp:12` expects a sorted list; the lists that
  `test/node_q2.cpp` builds are not bitonic before the merge, so they are not
  sorted after it, and a device can stay in the list twice.
* `ingress`: emp compares by the sign of a wrapped difference. On encounter ids that take
  their whole range this is no order, `emp::sort` then need not leave the two encounters of an id next to each
  other, and `src/ingress_gv.cpp:176-178` ("if an encounter has been uploaded by both parties
  then the encounter is confirmed") does not hold: after the sort the ids are -4, -3, -3, 0, -4, 0, so two of three pairs stay
  unconfirmed.
* `contact_counts`: with as many sources as sinks `contact()` walks the sinks *and* fills the
  filter with them (`include/contact_path_query.hpp:52`).

The note of `include/store_path_encounter.hpp:25`, never to fetch the same encounter from the same
shuffle twice, holds for encounters and not for dummies: `flow()` sets the nonce back
and fetches the dummies of its sources again for its sinks (`FetchedOnce` allows it that).

Further disagreements are in the models but in no run of their own:

* `include/contact_path_query.hpp:25` says that `contact()` counts how many devices had contact. `this_device_had_contact` is made anew for
  every shuffle (line 102) and added to the count after it (line 153), so a device with contacts in two shuffles counts twice. The comment at line 138, "has sufficient duration
  and confirmed", is not what the code below it does either: `minimum_duration` is a parameter that `contact()` never reads, and
  short encounters count. `ContactCounted` therefore says that `contact()` counts no fewer devices than had contact, and exactly these
  where no device has contacts in two shuffles and none is too short (`EachOnce`); the instance of `path_query` has both cases.
* `include/mapper.hpp:46-47` takes `none` for the maximum so that "a sort will put it at the end". Beside a negative fingerprint it is not
  (`MixedSigns`). Then a merge can leave kept cells in the half that the next tile overwrites, and devices are lost; where the comparison
  is a cycle the list is in no order and a device can be left in it twice. To see it, take the premises `Sorts` and `NoneLargest` out of `MergedInOrder` or
  `NothingLost` and run `query_tiles`.
* `flow()` and `store_path_encounter()` have LEFT as the default storing side, `contact()` and `fetch_and_decrypt_encounter()` RIGHT. After
  a shuffle it is RIGHT that has the array, so `flow()` has to be called with RIGHT. `test/flow_path_query_test.cpp:208` passes `emp::BOB`,
  which is 2 and no side (`secrets.hpp:28-30`).
* The tests of the queries take the devices of successive encounters for their lists, three devices in lists of ten or so, so devices are
  listed several times. A device that is listed twice is walked twice, from where the caller says, its encounters are fetched twice, and `contact()` counts it twice.
  `FetchedOnce`, `ContactCounted` and `FlowCounted` are for lists without repetition (`DistinctDevices`), which line 25 of
  `store_path_encounter.hpp` ("never fetch the same encounter from the same shuffle twice") asks of the caller.
* `README.md:399` and `run/node_query_run.sh:22` name three machines with `LAYERS 4`. Stages 3 and 4 are
  between process 0 of *all* machines, and an acceptor accepts once: whatever the addresses, two
  machines connect to one, in both stages. With three machines in `MCSetups`, all addresses `m1`, TLC's simulation finds
  at once that a machine is merged twice and another never (`MergedOnce`).
* `node_q1.cpp:46` passes `reducer_ip_2` for the third address as well, so a configuration whose two addresses
  differ sends query 1 elsewhere than query 2. `reduce_tree` takes equal ones.
* `node_q1.cpp:132` adds the counts of the tiles to `sum`, and the reduce stages send `count`, that of the last
  tile, in fewer bits than `hashbits`, which the pipe and `send_list_reverse` read of it. `ReduceTree` says whose
  results arrive, not their bits.

Not modelled, and why:

* `reveal()` returns early when an AES or SHA-3 call fails; the partner processes
  are then left waiting. It depends on an external cipher failing.
* Calling `swap()` or `get()` before `choose_side` changes nothing in the code; it
  is not an action.
* A failed check inside the encounter store (`decrypt_path_encounter` returns void and
  the fetch goes on; `store_path_encounter` goes on with its loop), the combination of the
  MAC's result with a pointer (`store_path_encounter.hpp:579`) and the storing side being exchanged
  (`:449`): the runs have honest machines and the sides of section 2.
* `total_encounters_to_walk_through`, the positions of a Bloom filter as bits of an
  id, `aggregate`, `filter` and `inner_product`.
* `ingress.cpp`, `ingress_mv.cpp` and `mapper.cpp`, which store and
  read a tile in other forms for measurements, the tile sizes beside one another (their
  keys are different), and a program restarted by hand after it has ended early.
* The generator's times: `fillEncounters` links a device's encounters in the order of their indices, where
  its comment (`encounter.hpp:264-268`) speaks of the earliest and the last one; times are random, and no modelled
  program reads `previous` and `next` of a tile.
* A process or a machine of the reduce tree that dies: its peer then waits for ever, and nothing in the code handles it.
* Circuits of MACs and hashes, parsing, statistics and the
  scripts: no state that a property here depends on. `confirm_encounters` reads behind a tile of size 1
  and `io.hpp`'s `send_list` sends its first element each time; both are pure loops.

## 6. Plan

1. **`EncounterStore`** with failed checks and exchanged sides, composed with the promise of
   `Revealer` as an abstract specification: `RevealerProofs` shows what a caller of `reveal()` may rely on, and
   an atomic reveal with these answers is what the queries assume.
2. **`BloomFilter`**: positions from the bits of an id; no false negative.
