# AOCL-DLP in TLA+

AOCL-DLP is a library of low-precision and mixed-precision matrix
multiplications. Most of its lines are vector kernels; what decides whether a
result is right when many threads compute it is a much smaller amount of code:
who gets which part of C, who packs B into which buffer and when, what the
threads wait for, where the thread count comes from, and where the kernels are
kept. This directory models that code, checks it with TLC on small instances and
proves all the safety properties it checks with TLAPS for all instances.

Paths below are relative to `src/`.

## 1. Inventory

| Part | State | Operations | Who uses it |
|---|---|---|---|
| threading runtime, `classic/frame/runtime/dlp_runtime.c` | library-wide thread count, ways, "OpenMP is in control" flag (three separate atomics), a thread-local record, a once-flag | setters (library, local), getters, resolution `dlp_rntm_init_from_global` | every API entry point, from any application thread |
| barrier, `classic/frame/threading/dlp_gemm_thread_utils.c` | sense and arrival count of a communicator, the object its chief publishes | `dlp_atomic_barrier`, broadcast | the drivers |
| task ranges and ids, `classic/include/threading/dlp_gemm_thread_utils.h` | none | `dlp_thread_task_range`, work ids | drivers, packing, batch decorators |
| thread factorisation, same file and `classic/frame/threading/dlp_gemm_thread_decor_openmp.c` | none | prime factors, 2x2 partition, neighbour factors, `*_get_threading` of every data type | decorators |
| GEMM and batch decorators, `dlp_gemm_thread_decor_openmp.c` | communicators on the stack or heap, B's tag | plan, fork, permute thread ids, share out a group | API functions |
| five-loop drivers, `classic/frame/*/dlp_gemm_*.c` | per thread: loop variables, buffers; per team: shared pack buffer | jc, pc, ic loops, allocation, packing, barriers, compute, release | decorators |
| dispatch table, `src/include/kernel_register/kernel_dispatch_table.hh` | main table of chains, backup buckets, counters, mutex, watcher of the stored values | `insert`, `query` | kernel register, from any thread |
| kernel register, fallback storage, JIT register, C bindings, `src/include/kernel_register`, `src/frame/bindings` | tables per routine and data type, a second tier per thread with reference counts, the sink of replaced kernels, generators | look up, generate, register, replace, thread exit, tear-down | API functions, from any thread |
| decision engine, `src/include/decision_engine` | none | choice of tile and kernel; the width of reordered panels | C bindings |
| reordering, `classic/frame/*/dlp_gemm_reorder*.c`, `classic/frame/gemm_utils` | a buffer laid out in panels, which does not say how | size query, reorder, un-reorder | API; read by the drivers |
| global context, `classic/config` | tables made once | initialisation, per-call copy, merge of the application's metadata, validation | all calls |
| post-operations | the list made from the user's metadata | translation, iteration in kernels | drivers, kernels |
| environment and architecture managers | singletons read at start | queries | runtime, config |
| logger, system utilities, place query | none that matters | I/O, allocation, one OpenMP query | everywhere |
| micro-kernels, JIT generators | none | arithmetic | drivers |

How a call runs: an application thread enters an API function, which checks its
arguments and asks the *runtime* for a thread count or for ways. The *decorator*
turns that into `ic_ways x jc_ways` (*factorisation*), sets up one communicator
per jc team and opens an OpenMP parallel region. Each thread takes its *range*
of rows and columns and runs the *driver*, which packs B together with its jc
team, meeting it at *barriers*. Kernels were found in the *dispatch table*, which
other application threads may extend at the same time.

What is hard here:

- setters and resolutions of different threads interleave between atomic
  accesses; values are read, decided upon and written back (runtime);
- a barrier whose counter is reset by a plain store while fast threads come
  round again;
- buffers that one thread allocates, all fill, all read and one frees, ordered
  by barriers only; sized once and used for every later block;
- off-by-one errors that show for some thread counts and shapes only: ranges,
  edges, factors, cut panels, leftover threads of a batch;
- a shared tag that threads of different GEMMs write and read without order;
- lock-free readers of a table that grows, with values replaced without the lock;
- kernels owned through raw pointers by several tables, a sink, and counts in each
  thread, while other threads run them;
- a reordered buffer that outlives the call that packed it: every later call works
  out its panel width, padding and offsets again, from other rows, another thread
  count and inits in another order.

What makes each part correct:

- runtime: a resolved configuration is in exactly one mode, comes from one
  source, follows the priorities, and a setting takes effect;
- barrier: nobody leaves before all have come, for ever again, and everybody leaves;
- ranges and factorisation: every element of C is computed by exactly one thread,
  and each communicator gets exactly the threads it was set up for;
- drivers: what is read is complete, right, allocated and large enough; C receives
  every k block once; the team ends;
- batch: each GEMM is run by one whole team that agrees on how to run it;
- table: one slot per key, readers see only complete entries in allocated
  memory, what was handed out stays alive; to its callers it is a map;
- kernel register: whatever can still be followed points at a live kernel, and each
  kernel is freed once;
- reordering: every reader finds every element where the packer put it; the packed
  bytes do not depend on the number of threads.

`PROJECT.json` lists each part with its status, and under `hazards` the line of
each of these risks with the properties aimed at it.

## 2. Modules

| Module | Models | Composition |
|---|---|---|
| `ThreadRuntime` | the runtime, one shared access per action | |
| `AbstractBarrier` | what a barrier promises | |
| `AtomicBarrier` | `dlp_atomic_barrier`, one atomic access per action | implements `AbstractBarrier` (`INSTANCE ... WITH`, property `ImplementsBarrier`) |
| `TaskRange` | ranges and ids, as operators | used by the three below |
| `ThreadFactors` | factorisation, as operators | used by the two decorators |
| `GemmThreading` | single-GEMM decorator, up to each thread's tile | `TaskRange`, `ThreadFactors` |
| `GemmFiveLoop` | five-loop driver with packing of B | `TaskRange`; its barriers are those of `AbstractBarrier` |
| `BatchDecorator` | batch decorators | `TaskRange`, `ThreadFactors` |
| `AbstractTable` | what a dispatch table promises: a map with a sink | |
| `DispatchTable` | hash table of kernels, one shared access per action | implements `AbstractTable` (`INSTANCE ... WITH`, property `Refines`) |
| `KernelRegister` | the life of a kernel: lookups, generation, two tiers, tear-down | its tables are those of `AbstractTable`: an insert is one step, keys stay, a refusal is for ever |
| `ReorderLayout` | offsets in a reordered buffer and the walk over panels, as operators | `TaskRange` |
| `ShapeModel` | the bf16 tile chosen by the decision engine, as operators | `ThreadFactors` |
| `ReorderGemm` | size query, reorder, GEMM, gemv, tiny path and un-reorder over one bf16 buffer | `ReorderLayout`, `ShapeModel`, and through them `TaskRange` and `ThreadFactors` |
| `SharingProofs` | theorems and lemmas about `TaskRange` and `ThreadFactors` | extended by the next two rows |
| `TeamProofs` | theorems about `GemmThreading` and `AtomicBarrier` | `SharingProofs` |
| `GemmFiveLoopProofs`, `BatchDecoratorProofs`, `ReorderGemmProofs` | theorems about the module they extend; the last also holds the lemmas about `ReorderLayout` and `ShapeModel` | `SharingProofs` |
| `ThreadRuntimeProofs`, `DispatchTableProofs`, `KernelRegisterProofs` | theorems about the module they extend | |
| `MC_*` | instances for TLC | |

Layers are separated where the code separates them. The driver's barriers are
steps "arrive" and "leave when all have arrived", which is what `AtomicBarrier`
is shown to implement. The decorators stop at the ranges of their threads; the
driver begins with those ranges. `BatchDecorator` reduces a driver to whether it
meets its team, and shows that a team of several threads runs one GEMM only
(part of `BatchShared`), which is why `GemmFiveLoop` may begin with a fresh
communicator.

State and actions carry the names of the code where TLA+ allows it; `map` in
`PROJECT.json` gives the lines of every definition. Definitions whose comment
begins with "Mutant" are not part of any specification: they are wrong
variants of their neighbour, each of which makes TLC report the property paired
with it under `mutants`. `GemmFiveLoop` names some the same way without the
word (`NextJcFromCut`, `TempSizeOfCutBlock`, `SendBufferAtOnce`,
`PackWithoutBarrier`, `PackUnlessEmpty`, `ReleaseByAll`), as does
`ThreadFactors` (`PrevNumber`, `AdjustWithoutComparing`).

### Abstractions

- *ThreadRuntime.* Sequentially consistent atomics. `pthread_once` is one step,
  since callers wait for it. Integer widths are kept: `Half` stands for 2^31, and
  packing two 32-bit ways into a 64-bit word is modelled by what it computes.
  Whether a team can be made inside a parallel region is a free choice at each
  resolution of an OpenMP build.
- *GemmThreading.* Nothing depends on another thread, so the fork gives all
  threads their place in one step. Whether the machine's OpenMP places allow
  thread ids to be spread is an input.
- *GemmFiveLoop.* A kernel is reduced to the tile it adds to and the panel it
  reads, packing to which panel each column of the buffer holds and which k
  blocks its column sum has. Sizes of buffers are computed as in the code, with
  small padding constants. Tag `PACK_KC` is the driver for 4-bit weights
  (`bf16s4`); the others are `s8s8s32`, whose frame the remaining drivers share.
- *BatchDecorator.* The two plain accesses to the shared tag are a step each.
- *DispatchTable.* Every atomic access another thread can tell apart is a step;
  the locked search is one step, since only lock holders change keys and flags.
  Keys are compared by identity, which stands for the comparator. The flag of a
  slot orders its key and value as release and acquire do. Null arguments, refused
  at once, are left out. `AT` maps the table to a function from keys to values,
  the first occupied place of each key, and the full table to the keys it refuses;
  an insert takes effect at the store of the value, of the flag or of the new count of
  buckets.
- *KernelRegister.* A kernel is a number with a key and a validity bit. A table
  operation is one step, as `Refines` justifies; the second tier is the thread's
  own, so looking into both tiers is one step. Whether a table has room, whether a
  generator exists and whether it succeeds are choices. `freed` counts deletes. The
  query of the second tier for a quantised kernel compares with memory that is not
  a key (finding 4), so its answer is a choice. Threads end before the register is
  destroyed, as static destruction demands of the application.
- *ReorderGemm.* An element of B is its place and the buffer a map from offsets to
  places, "zero" or never written. The application hands all calls the same
  metadata, as the API's contract asks. The processor has AVX512-BF16, B is
  row-major and the GEMM's tag is `REORDERED`. The JIT packer writes what the
  reference packer writes (kernels are not modelled), and may not have been
  generated. The ic threads of a column way read the same panels and stand for
  one. The four ways to read (five loops, gemv with its own kc, tiny path as one
  block, vector copy) are the code's.
- *ShapeModel.* Over a reordered B only the hints describe the GEMM, so rows and
  threads of the call are not inputs. The thresholds of the streaming rule and the
  processor's L3 are constants.

## 3. Runs

| Run | Instance | Shows |
|---|---|---|
| `ThreadRuntime` | 2 threads, 2 calls each, 4 environments, 5 arguments with unset, negative and zero values, 3-bit halves | `ModesExclusive`, `NoTornConfig`, `LocalSettingWins`, `EnvKeepsControl`, `CallsReturn`, types; 582 539 states |
| `ThreadRuntimeLost` | one environment, one argument | finding 1 |
| `AtomicBarrier` | up to 4 threads, 3 rounds | `NoEarlyExit`, `ResetRacesWithNobody`, `ImplementsBarrier`, `EveryoneReleased`; 1 661 states |
| `GemmThreading` | 6 data types, 50 shapes, 21 counts or ways, ids spread or not | `TeamFactorised`, `EveryElementOnce`, `CommsFilled`, `TilesBalanced`, `HeuristicNeverHurts`; 75 600 states |
| `GemmFiveLoop` | 9 shapes, up to 4 threads | `PanelIntact`, `PackExclusive`, `BufferFits`, `BuffersFreedOnce`, `ResultComplete`, `TeamFinishes`; 138 895 states |
| `BatchDecorator` | groups of 0 to 3, 1 to 9 threads or none named, 8 shapes | `BatchShared`, `MeetsTeam`, `BatchFinishes`; 9 261 states |
| `BatchDecoratorTag` | two GEMMs of a 4-bit variant, four threads | finding 2 |
| `DispatchTable` | 2 threads, 4 calls, 3 keys in one chain | `KeyOnce`, `ReadsAllocated`, `HandedOutIsKept`, `QueryFinds`, `KeysStay`, `CallsReturn`, `Refines`, types; 266 460 states |
| `DispatchTableReturn` | as above | finding 3 |
| `KernelRegister` | 2 threads, 2 keys of one routine (each of the three), 2 data types, 3 kernels; threads and keys symmetric | `NoDangling`, `FreedOnce`, types; 1 478 267 states |
| `KernelRegisterFallback` | 1 thread, 1 quantised key | finding 4 |
| `ReorderGemm` | 4 shapes of B, 10 metadata, 4 runtimes, 3 numbers of rows | `ReadsWhatWasWritten`, `WrittenOnce`, `BytesFixed`, types (no write outside the size asked for); 5 512 states |

Why the bounds are enough for the cases of interest:

- *ThreadRuntime*: two calls per thread allow set-then-resolve in one thread
  against set, unset or fall-back in the other, the shortest sequences in which a
  flag is read, changed and written back. `Half` = 4 makes the ways and their
  sign bits small without making them coincide.
- *AtomicBarrier*: the sense has two values, so a thread that is one round late
  is told apart from one that is two rounds late only with a third round.
- *GemmThreading*: block sizes 2 and 3 with dimensions up to 23 give no, one and
  many blocks with and without a fringe; counts up to 30 include primes, squares
  and highly composite numbers, and the threshold of low-frequency reduction.
- *GemmFiveLoop*: each shape has a fringe in every dimension; together they have
  several jc, pc and ic blocks, threads without rows, teams without columns, a
  packing slice that is empty, and reordered panels that straddle two teams.
- *DispatchTable*: one slot in the chain, one in the first bucket: the second key
  goes to the backup table, the third grows it or is refused. One key has two
  values, for replacement.
- *KernelRegister*: three kernels of two keys allow one key's kernel to be replaced
  in a slot or in a table while another thread runs it, and to sit in one tier for
  one data type and in the other for the second. Keys of different routines share
  no table and no slot, so a program asks for keys of one routine; the three
  routines differ in their lookups and empty kernels. Symmetry is sound: no action
  names a thread or a key, and no temporal property is checked.
- *ReorderGemm*: widths are an eighth of the code's (NR 64, 48 and 32 become 8, 6
  and 4; the padding to 16 becomes 2), so that every relation between tile widths,
  padding and panels is kept: panels of 16 columns and 4 rows, n = 7 (less than a
  tile), 20 and 21 (two panels, the last with a fringe, odd or not), k = 3, 5, 6
  (odd, one or two panels down). Metadata without and with hints, hints that start
  the streaming rule, stated widths, heights, half tiles, panels no tile divides and
  a negative hint. One to four threads or pinned ways cut panels between threads.

Deadlock checking is off where the system may stop: all calls used up, or the
region finished. Stopping too early is what the liveness properties exclude.

### Fairness

Weak fairness of each thread's steps, only for threads that are inside a library
call or inside a parallel region: the operating system keeps running threads that
are ready. Entering a call is never fair. The barrier spins, so a thread that is
not preempted for ever gets to read the sense again. The mutex of the dispatch
table needs no strong fairness at these bounds, because the calls of a run are
finite; with an endless stream of inserts `std::mutex` promises no more than the
platform does.

## 4. Proofs

The theorems hold for every value of the constants under the named `ASSUME`s of
the modules, which TLC evaluates on its instances. For each component, what is
proved and along which argument:

**Barrier** (`TeamProofs`): `BarrierTypeCorrect`, `BarrierNoEarlyExit`,
`BarrierResetRaceFree`, `BarrierRefinement`, for any finite team and any number of
rounds. The invariant says that some number g of rounds is complete, that every
thread has passed g of them unless it still spins with the old sense (then g - 1),
and that the counter counts exactly the threads waiting in round g + 1.
`NoEarlyExit` alone is not inductive: it does not say why the increment that
reaches `n_threads` is the last one. The refinement maps arrival to the increment
and departure to the read of the flipped sense.

**Runtime** (`ThreadRuntimeProofs`): `RuntimeTypeCorrect`,
`ResolutionModesExclusive`, `ResolutionLocalWins`, `EnvironmentKeepsControl` and
`ResolutionNotTorn`, for any number of threads, calls and environments. The
invariant adds what a thread must know at each point of the resolution: having come
past priority 1 its own record configures nothing; having come to the OpenMP
fall-back the environment does not either, which in turn needs that the flag is set
only in such environments. For `ResolutionNotTorn` a second invariant (`GivenInv`)
follows every pair of ways from its setter through the packed word, the
thread-local record and the local variables of a resolution. Its arithmetic is that
packing two signed words into an unsigned double word loses nothing, which holds
only for ways that fit in 32 bits. Neither source of ways guarantees that by its
type: the setters take `md_t` and cast (`dlp_runtime.c:496`), and the variables of
the environment are read as `long`. The comment at `dlp_runtime.c:75-79` demands it
as a "critical invariant", and the theorem assumes it, of the setters' arguments in
`RuntimeAssumption` and of the environment in `WaysFit`. What a caller gets who
breaks that demand is not modelled.

**Ranges and factorisation** (`SharingProofs`): `TaskRangesTile` and
`TaskRangesAligned`, for every loop length, block size and number of threads, edge
at either end. The argument writes the number of whole blocks as q * n_way + r and
shows that the two formulas of the code, for larger and for smaller ranges, agree
where they meet. From this: each iteration has exactly one owner (`OneOwner`), and
the ranges differ by one block. The lemmas about `ThreadFactors` say that every
threading function returns a split, nt = ic * jc with both positive. The greedy loop
of `dlp_thread_partition_2x2` keeps t1 * t2 * (what is left of the factor) * (the
rest) equal to the thread count. The two searches for a neighbouring factor, one
upwards and one downwards, are independent in the code and reach a pair of
co-factors: the next divisor above d and the next below n / d multiply to n. The
loops over numbers and prime factors are functions over Nat; what they compute for
every input follows by taking the least number for which it would fail.

**GEMM decorator** (`TeamProofs`): `ThreadingTeamFactorised`,
`ThreadingHeuristicNeverHurts`, `ThreadingEveryElementOnce`, `ThreadingCommsFilled`,
`ThreadingTilesBalanced`, for every problem, block sizes, thread count or ways and
data type, GEMV included. The thread ids 0 .. nt-1 are the places of an ic_ways x
jc_ways grid; `dlp_gemm_modify_tid_on_distr_type` permutes them, for even and odd
teams; along each side of the grid the ranges give every iteration to one work id.

**Driver** (`GemmFiveLoopProofs`): `FiveLoopPanelIntact`, `FiveLoopPackExclusive`,
`FiveLoopBufferFits`, `FiveLoopBuffersFreedOnce`, `FiveLoopResultComplete`, for
every shape, blocking and team. None of them is inductive. The invariant has these
parts:
- `Control`, `Loops`, `Accumulator`: what a thread's place in the code says about its
  loop variables, its barriers and its temporary buffer;
- `Lockstep`: a thread has passed two barriers for each panel it is done with, the
  threads of a team go through the same sequence of panels, and two of them are at
  most one panel apart. If one is a panel ahead the other has passed both barriers
  of its panel and only computes;
- `Buffers`: the chief's, the published and the held pointer are one; a team has one
  buffer, as large as its widest panel; it is live until the chief is done;
- `Contents`: the slice of a thread holds the panel it packed, and the column sums of
  all k blocks up to it, until the last reader of the team is through;
- `Result`: each element has received the blocks its one owner is past.

That a panel needs two barriers, and that the loop may not skip them for a thread
without rows, is where `Lockstep` is used; that a slice is read whole is `OneOwner`
applied to the packing ranges. The reordered driver, whose blocks are cut at panel
boundaries of the layout, needs the same argument with a next block that depends on
where the block began (`NextStart`).

**Batch decorators** (`BatchDecoratorProofs`): `BatchTeamsShare`, `BatchMeetsTeam`,
for any group, count and shape. A team has several threads only if there are more
threads than GEMMs, and then there are as many teams as GEMMs: so a thread of such a
team calls one driver and arrives at its communicator once at most. The invariant
(`Meeting`) says this and that the arrivals at a communicator are counted by the
threads that pack; ic_ways of them are there only if the whole jc team is. It holds
with the racing tag of finding 2 too: the race costs termination, not this.

**Dispatch table** (`DispatchTableProofs`): `TableTypeCorrect`, `TableKeyOnce`,
`TableReadsAllocated`, `TableKeepsHandedOut`, `TableKeysStay`, `TableQueryFinds` and
`TableRefines`, for any number of threads, keys, values and calls and any sizes. The
first invariant (`IInv`) says which slots are allocated (one bucket more than counted
while the holder of the lock has made it and not yet raised the count), that a thread
about to write has the lock and points at a free slot, and that a value is in the
sink before it is stored. The second (`OnceInv`) says that the places before an
occupied one, in the order a key is searched, are occupied, so that a thread that
found the first free place has seen every slot of its key. That bucket b has
`baseBucketSize << b` entries needs 2^(b+1) = 2 * 2^b, which is proved by counting
subsets. A query that began when its key was there has the key ahead of it until it
finds it (`FindInv`). The refinement adds, for each place a thread can be in, what it
has seen of its key (`RefInv`, `Looks`); each step of the table is then shown to be a
step of `AbstractTable` or a stutter. An insert of a new key takes effect
when it raises the flag of its slot, or, in a new bucket, when it makes the bucket
known; one of a known key when it stores the value.

**Kernel register** (`KernelRegisterProofs`): `RegisterTypes`, `RegisterNoDangling`,
`RegisterFreedOnce`, for any number of threads, keys, routines, data types and
kernels. Who is to delete a raw pointer is nowhere written down in the code; the
invariant (`RegisterOwners`) says it. A kernel that was made is undeleted as long as
the sink has it, or some thread counts it, or some thread is registering it, and it
has been deleted once otherwise. Two threads never count the same kernel; a count is
the number of the thread's slots that hold the kernel, and no longer matters once the
sink has it; each slot receives a kernel once, because the list of data types names
each once.

**Reordered B** (`ReorderGemmProofs`): `ReorderInvariant`, `ReorderTypes`,
`ReorderReadsWhatWasWritten`, `ReorderBytesFixed`, `ReorderWrittenOnce`, for every
shape of B, block sizes, hints, tiles, thread counts and rows. Three arguments meet:
- *The layout is a bijection between blocks and offsets.* An offset of the buffer
  determines its panel of columns, its panel of rows and the rest, by division
  (`PanelOf`, `RowOf`, `RestOf`), and comes from them again (`Decode`, `Encode`);
  this needs that a panel's padded width is the width the traversal helper works
  out (`WidthIs`) and that padding the pieces pads the whole (`Pieces`,
  `RoundAdds`). Hence an offset belongs to one block of NR columns (`BlockOf`),
  and what a thread clears for a piece of its range is exactly the offsets of the
  piece's blocks (`ClearedWithin`, `ClearedAll`). In a panel the chunks do not
  overlap and the interleaving of `k_factor` rows is injective (`ChunksApart`,
  `ElemIs`), so two elements never share an offset (`PlaceInjective`).
- *Where a thread cuts a panel does not matter.* A thread that begins in the middle
  of a panel takes its chunks from the cut; the chunk of a column comes out the same
  (`ChunkShift`, `PieceAgrees`), and so it does for the tiny path, which takes all of
  B as one panel (`TinyAgrees`). Both rest on the ranges beginning at multiples of NR
  (`TaskRangesAligned`).
- *Every call comes to the same panels.* `Agreed` is a function of B, the metadata and
  the global context. A reorder and an un-reorder search for the tile with the
  context they begin with. A GEMM settles the tile in its first init, and its second
  finds MR and NR settled and leaves them (`SettledTile`); rounding NC twice is
  rounding it once. The height KC is either stated, in which case validation refuses
  a GEMM whose kernel changed it, or that of the global context (`GemmAgrees`).

The invariant says, for each phase, whether the buffer is fresh, filled exactly where
the threads have passed (`Filling`) or the whole `Image` (`Full`); what the context
still has in common with `Agreed`; that the team shares the columns and each thread
is at a block of its range (`Sharing`); and that what has been read is the columns
passed. `BytesFixed` alone is not inductive, since it says nothing while packing, and
`ReadsWhatWasWritten` not without knowing the whole buffer. The proof shows two
dependences between places of the code that no test states: the kernel for m = 1 has
a `kc` of 4096 written into `de_backend.hh:945`, which must be the KC of every map in
`dlp_gemm_blksz_map.h`, and every candidate tile must be a multiple of the padding
wide. Both are in `ReorderAssumption`, and true of the tables.

### Only model-checked

- Liveness under fairness (`EveryoneReleased`, both `CallsReturn`, `TeamFinishes`,
  `BatchFinishes`): out of this prover's reach, as is `ENABLED`.
- The violations of section 5, which are counterexamples.

The library's induction theorems cannot be used by the installed provers, since they
take an operator as a parameter. Where an argument is by induction over numbers (the
factorisation, the sizes of the buckets, the ranges) it is carried by the least
counterexample, or by counting a set whose cardinality grows with the number.

## 5. Findings

1. **A library-wide setting can be lost** (`ThreadRuntimeLost`,
   `classic/frame/runtime/dlp_runtime.c:386`). A resolution that found nothing
   set stores "OpenMP is in control" at its end; a setter of another thread that
   ran in between is undone, and every later resolution skips the library
   setting. The comment at lines 307-314 says the worst case is a delayed update.
2. **Threads of a team may run a batched 4-bit GEMM with different tags**
   (`BatchDecoratorTag`, `classic/frame/threading/dlp_gemm_thread_decor_openmp.c:1442`).
   Each thread stores `mtag_b[i]` inside the region but passes `*mtag_b`; whether
   it sees the picked tag depends on the threads of GEMM 0. One may pack and wait
   for another that does not. The comment at 1404-1405 says the tag is computed
   once before the region.
3. **An insert may return another thread's value** (`DispatchTableReturn`,
   `src/include/kernel_register/kernel_dispatch_table.hh:269`). It missed its key in
   the first scan, finds it in the chain with the lock held, and compares and stores
   its value (lines 261-264); before it loads the value to return, the replacement at
   line 226, which does not take the lock, stores another. The comment at 266-268
   says that cannot be. The property is about this branch alone; the branches that
   fill a free slot and those of the backup table claim nothing. Harmless for the callers: the value is for the same key and stays
   alive (`HandedOutIsKept`).
4. **A registered quantised kernel may not be found in the second tier**
   (`KernelRegisterFallback`, `src/include/kernel_register/kernel_fallback_storage.hh:188`).
   The query compares the caller's key with what `getKernelInfo` returns, which for
   a quantised kernel is the base of its key alone; the rest of the comparison reads
   the memory behind it. The call that registered the kernel can be refused, and the
   next one generates it again. The comment in
   `src/frame/bindings/c_wrappers/capi_kernel_frame_wrappers.cc:805` says the
   fallback is guaranteed to work. It needs a first-tier table that is full.

## 6. Not modelled

- Some 420 000 of the 488 000 lines of the implementation: micro-kernels written in
  vector intrinsics and the generators of JIT code. They are straight-line
  arithmetic over registers, without state that outlives a call; a model of them
  would be a second copy. The map covers the code around them that decides what
  they are called with, and its share of all lines stays far below one in ten
  for that reason.
- OpenMP giving a region fewer threads than asked for, and allocations that
  fail: the code tests for neither in the decorators and drivers, so a property
  would restate the missing test. All are listed as hazards. Where the code does
  ask OpenMP (the reference reorder), `ReorderGemm` lets the team be smaller.
- Builds without OpenMP, where the decorator runs one thread.
- The gemv and tiny-shape paths of the drivers other than their reading of a
  reordered B, the packing of A (private to a thread), column sums beyond their
  k blocks.
- Reordering of other data types: the 8-bit buffers carry column sums behind the
  panels and the 4-bit ones two elements to a byte; the panel walk and the layout
  are the same operators. `aocl_reorder_f32obf16` packs at the width of its context
  whatever the hints say.
- Reading a reordered bf16 B on a processor without AVX512-BF16, where the driver
  converts it to f32 first.
- The decision engine of the other data types, whose widths are fixed; attributes
  of a kernel that no layout depends on.
- Post-operations: a translation of the user's list into another, checked argument
  by argument, whose meaning is in the kernels.
- Stale values of relaxed loads, which no property depends on.
- Logger, benchmarks, tests.

## 7. Plan

Done: the runtime, the barrier and its abstraction, ranges, factorisation, the
decorators, the driver, the table and its abstraction, the register of kernels, the
reordered buffer, in the order in which the result of a GEMM depends on them; and
the proofs of section 4, which leave liveness to TLC. What would come next, in this
order:

1. The reorders of the other data types, over the same `ReorderLayout`: the lemmas of
   `ReorderGemmProofs` about it hold for them as they are. Column sums and scales
   behind the panels are what is new.
2. The translation of post-operations, up to the list the kernels walk through.
3. Teams smaller than asked for and allocations that fail, once the code answers
   them.
