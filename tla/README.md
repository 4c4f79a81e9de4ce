# Verification of patton

patton is a C++20 library of low-level building blocks: a fork-join thread pool (the *thread
squad*), queries of the processor's topology and sizes, aligned and page-wise allocation, and
buffers of aligned elements. This directory holds TLA+ models of its code, the TLC runs that
check them, and proofs about them.

All paths below are relative to the repository; `cpp` is `src/thread_squad.cpp`, `hpp` is
`include/patton/thread_squad.hpp`, and `detail` is `include/patton/detail/thread_squad.hpp`.
Where the code depends on the platform, the Linux build is modelled.

## 1. Inventory

| Component | State | Operations | What is hard | What makes it correct |
|---|---|---|---|---|
| Thread squad (`cpp` 505-961, `hpp`) | `task_`; per thread `incoming_`, `outgoing_`, the thread handle, the number of passes | `run`, `transform_reduce`, `transform_reduce_first` (each as lvalue, and as rvalue that ends the squad), destruction | n+1 threads; threads created during the first call; task objects on the caller's stack; signals that are bits; teardown along the tree | every index executed once, nothing active between calls, no lost notification, every call returns, freed last |
| Wake/await tree (`cpp` 603-679) | `numSubthreads_`, fixed after construction | `init`, `to_subthreads`, `from_subthreads` | rounding at every level, cut-off blocks, two different loops over one layout | one superordinate each, both walks agree, merge order is index order |
| Task execution and reduction (`detail` 62-130) | `subthreadData_`, an array of optionals | `execute`, `merge` | merges of finished threads while siblings run | values combined in index order |
| OS threads (`cpp` 378-472) | `handle_`, `coreAffinity_` | `fork`, `join`, `is_running` | the thread runs before its handle is stored | join only with a handle, creation failure terminates |
| Atomic wait (`cpp` 300-375, 764-778) | one `std::atomic<int>` per direction | `wait_and_load`, `toggle_and_notify` | a spin phase of relaxed loads, then a sleep; the notification is a step after the store; spurious wake-ups | no lost wake-up; whoever goes on sees what the other wrote |
| Synchronization points (`cpp` 681-697, 823-856; `hpp` 117-171; `detail` 133-215) | `upward_`, `downward_`, `syncData_` | `synchronize`, `reduce`, `reduce_transform` | sense reuse by consecutive points, pointers into other threads' stacks | a rendezvous; everyone gets the reduction of all values |
| Parameters, pinning (`hpp` 177-187; `cpp` 161-167, 476-487, 700-723, 1076-1104) | the parameters, `coreAffinity_` | `check_params`, `create`, `get_hardware_thread_id`, the constructor | limits that contradict each other, defaults, sharing of hardware threads | threads are spread evenly over hardware threads that exist |
| Processor information (`src/cpuinfo.cpp`) | a count and a pointer, atomics; a vector | `physical_concurrency`, `physical_core_ids` | racing lazy initialisation, a view that the caller keeps, cores identified by pairs of numbers | a list once returned stays valid, and is as long as it says |
| Hardware sizes (`src/new.cpp`, `detail/lazy-init.hpp`) | one atomic each | `hardware_large_page_size`, `hardware_page_size`, `hardware_cache_line_size` | racing initialisations, each of which asks for the next size | what is known of one size implies what may be assumed of the others |
| Page allocation (`src/memory.cpp`) | mappings, guard words behind them | `page_alloc`, `page_free`, `large_page_alloc`, `large_page_free` | failure of the second system call and of cleaning up; sizes and guard words computed anew when freeing | blocks complete, failure leaves nothing, damage found |
| Aligned allocation (`memory.hpp`, `detail/memory.hpp`, `detail/arithmetic.hpp`) | none | `lookup_special_alignments`, `provides_static_alignment`, the allocators and the adaptor | sizes known only at run time, decisions at compile time, sums near the maximum | aligned results that fit, the address that was allocated is freed |
| Buffers (`buffer.hpp`, `detail/buffer.hpp`, `detail/transaction.hpp`; `allocate_unique`) | data, sizes | construct, move, destroy, index, iterate | a constructor that throws half-way, sizes recomputed after moves, unsigned indices with signed distances | each element constructed and destroyed once, each block has one owner |
| Errors, traits, build files, tests, benchmarks | none | | | |

The main thread and the squad's threads interact only through `task_` (written by main alone,
between calls), the two signal bits of every thread, the handles, and the results of a reduction.
`incoming_[j]` is written by j's superordinate (by main during the first call, and for thread 0),
`outgoing_[j]` by j alone. Inside a task body, threads meet through `upward_` and `downward_`.
The other components do not share state with the squad: the setup hands it the size and the
affinities. The allocators ask the hardware sizes for what an alignment amounts to, page allocation
rounds up to them, and buffers and `allocate_unique` own what allocators give them.

## 2. Modules

| Module | What it is |
|---|---|
| `SquadTree` | `init` and both walks as functions of squad size, thread and concurrency; what the squad needs of them (`WalksAgree`, `UniqueSuperordinate`, `BlocksInOrder`) |
| `SquadLayout` | a squad of `NumThreads` threads with its walks laid out, and what is assumed of them (`TreeAssumption`) |
| `SquadLayoutProofs` | lemmas about walks, subordinates and blocks that the proofs about the squad and the synchronization points share |
| `SquadSetup`, `MCSquadSetup` | how a squad comes about: `check_params`, `create`, the constructor, pinning, the start of the threads; the inductive invariant |
| `SenseSignals` | `toggle_and_notify` on a family of sense bits |
| `ThreadSquad` | the squad: main in `run()`, the threads in `run_thread()`, and the properties |
| `ForkJoin` | what a squad promises its client, without threads, tree or signals |
| `MCThreadSquad` | clients for TLC |
| `CarefulSquad`, `MCCarefulSquad` | what the proofs assume of the client, and the inductive invariants |
| `ThreadSquadProofs` | the theorems about the squad |
| `SquadBarrier`, `MCSquadBarrier` | the synchronization points within a task, and their inductive invariant |
| `SquadBarrierProofs` | the theorems about them |
| `Rendezvous` | what synchronization points promise, without tree and senses |
| `AtomicWait` | waiting and notifying between a superordinate and a subordinate, step by step, and the inductive invariant |
| `TurnTaking` | what these two promise: they take turns |
| `CpuTopology`, `CpuInfo`, `MCCpuInfo` | parsing of `/proc/cpuinfo`; the racing initialisation, and its inductive invariant |
| `FoundationProofs` | the theorems about what the squad stands on: processor information, waiting, the setup of a squad, and its tree |
| `CheckedArithmetic`, `CheckedArithmeticProofs` | `try_multiply_unsigned` and `try_ceili` at a given width; that they are right at any, and lemmas about rounding, products and numbers that wrap |
| `HardwareSizes` | the chain of lazily initialised sizes, and its invariant |
| `PageMemory`, `MCPageMemory` | allocation of pages; it extends `HardwareSizes`, whose steps are steps of its calls; the inductive invariant of both |
| `PageMemoryProofs` | the theorems about sizes and pages |
| `Alignment` | alignments as sets of bits, and what they amount to on a machine |
| `AlignedAllocation`, `MCAlignedAllocation` | the allocators and the adaptor; it extends `Alignment`; the inductive invariant |
| `AlignedAllocationProofs` | the theorems about them |
| `Buffers`, `MCBuffers` | the owners of memory, and the inductive invariant |
| `BuffersProofs` | the theorems about them |

`SquadLayout` and `SquadSetup` extend `SquadTree`; `ThreadSquad` and `SquadBarrier` extend
`SquadLayout` and `SenseSignals`, which `AtomicWait` extends, too. `ThreadSquad` instantiates
`ForkJoin`, `SquadBarrier` `Rendezvous`, and `AtomicWait` `TurnTaking`, under refinement mappings.
The parts of the squad are connected by what each assumes of the others:

- `AtomicWait` shows that waiting and notifying are, for the rest, one step each that exchanges
  turns and memory; `ThreadSquad` and `SquadBarrier` have such steps. Its assumption, that two
  threads share an atomic, is `OneSuperordinate` of `SquadSetup`; its other one, that a
  superordinate notifies only when it is its turn, is `NotifiedWhenAnswered` of `ThreadSquad`.
- `SquadBarrier` starts a task when every participant has completed the last one, which is
  `QuietBetweenCalls` of `ThreadSquad`; `ThreadSquad` takes a task body, its synchronization points
  included, as one step that terminates, which is what `ImplementsRendezvous` says of these points
  when all participants execute them in the same order (`hpp` 114).
- What `SquadLayout` assumes of the tree is what `SquadSetup` checks, and what `SmallSquadLayout` of
  `FoundationProofs` proves.

### ThreadSquad: state and actions

A step is what one thread does between two accesses to state that another thread may be writing.

| Variable | Code |
|---|---|
| `task_` | `thread_squad_impl::task_`, with the task's parameters and operation instead of its address; `NoTask` is `nullptr` |
| `incoming`, `outgoing` | the two atomics of every `thread_data` |
| `handle` | whether `os_thread::handle_` is set |
| `pass` | `run_thread`'s local `pass`, of which the code only asks whether it is positive |
| `joinRequested` | `run_thread`'s local copy |
| `limit`, `pos` | the concurrency with which the current walk was begun (it is read once, `cpp` 539, 546, 553) and the position in it |
| `data` | `subthreadData_[i].value` as the sequence of the indices merged into it; empty for `nullopt` |
| `mainPc`, `forked`, `pc` | program positions |
| `last`, `ran`, `result` | history: last task, executions by thread, and what the last call returned |
| `failed` | the contract that ended the program |

| Action | Code |
|---|---|
| `Call` (`Submit`, `SubmitNothing`) | the client operations of `hpp` 225-404, `do_run`, the deleter, and `run()` up to `store_task` |
| `WakeAll`, `CreateThread`, `CreateFails`, `StoreHandle` | `fork_all_threads`: the toggles (no other thread exists yet, so one step), then `pthread_create` and the store of its handle as two steps |
| `NotifyRoot`, `AwaitRoot`, `JoinRoot`, `Return` | the remaining steps of `run()`; `Return` releases the task and hands over `data[0]` |
| `TaskWait` | `task_wait` once `incoming_` differs from `outgoing_`; the copy of `join_requested`; whether subordinates are to be woken |
| `NotifySubthread`, `WaitForSubthread`, `JoinSubthread` | one turn of the three walks; a wait includes the merge |
| `Execute` | `task_run`; the task body is one step |
| `Signal`, `BeginJoin`, `Exit` | `task_signal_completion`, the second read of `task_` by `join_subthreads`, and the end of the thread |
| `MainFails`, `ThreadFails` | the assertions: a failed `gsl_Expects`/`gsl_Assert`, a read of a released task, an empty optional that is merged, taken or overwritten |

What is abstracted: the order in which memory operations become visible (every signal is
sequentially consistent; that the release/acquire pairs of `cpp` 360, 368 and 372 order everything
that is read after a signal with what was written before it is `WritesVisible` of `AtomicWait`, with
the one exception of the handles, which the model does interleave); the values that
are computed; `init`, which the caller combines with the result after the squad is done; affinity
and names; `concurrency == -1`, which the interface replaces with the number of threads.
A result outside the array of results (see `MergeBeyondConcurrency`) counts as missing.

Definitions whose comment begins with "Fault" are mistakes that the code does not make. Putting
one in place of the definition that follows it makes the corresponding property fail.

### SquadBarrier: state and actions

| Variable | Code |
|---|---|
| `size`, `plan`, `round` | concurrency of the task; the operations its body executes, in order; how many of them each thread has passed |
| `upward`, `downward`, `syncData` | the members of `thread_data`; of `syncData_` only whether it is set |
| `oldValue` | the local of `synchronize_collect` |
| `value` | `synchronizer.data.value` on the thread's stack: the contributions merged so far, each with its thread and round; empty outside a reduction |
| `got` | what the last operation returned |

| Action | Code |
|---|---|
| `BeginTask` | the squad's next task; the senses stay as they are |
| `Enter`, `Leave` | construction and end of the synchronizer in `synchronize()` and `reduce()` (`hpp` 117-123, 163-171) |
| `CollectFromThread` | one turn of the walk in `synchronize_collect`: the wait and `synchronizer.collect` |
| `Publish`, `SignalUpward`, `AwaitDownward` | `syncData_` set, `upward_` toggled, the wait for `downward_` and the reset of `syncData_` |
| `TurnAround` | the same place for thread 0, which has no superordinate |
| `BroadcastToThread`, `SignalDownward` | one turn of the walk in `synchronize_broadcast`, as two steps: the write to the other thread's value, and the toggle |

`CollectFromThread` reads `downward_[j]` and waits for `upward_[j]` in one step: only the thread
itself writes `downward_[j]`. Not modelled: `reduce_transform`, see below.

### AtomicWait: state and actions

| Variable | Code |
|---|---|
| `waitMode` | `waitMode_`, chosen once |
| `sense` | `incoming_` (the superordinate's) and `outgoing_` (the subordinate's); at synchronization points `downward_` and `upward_` |
| `carries`, `sees` | the memory model: whether the last store of an atomic released what its thread wrote last, and whether the other has acquired it |
| `at` | position in `wait_and_load` or `toggle_and_notify` |

`Toggle` and `NotifyOne` are the two halves of `toggle_and_notify`. `SpinSees` and `SpinGivesUp` are
the outcomes of `wait_equal_exponential_backoff`, whose relaxed loads may miss a store that has
happened. `Sleep`, `StopWaiting` and `WakeSpuriously` are `std::atomic::wait`, and `LoadAcquire` is
the load that ends the wait. `Work` stands for what happens between an end of wait and the answer.

### SquadSetup: state and actions

| Variable | Code |
|---|---|
| `given`, `params` | the parameters before and after `create` |
| `hardware` | `std::thread::hardware_concurrency()` |
| `stage` | how far the setup has come |
| `affinity` | `coreAffinity_` of each thread |
| `forked`, `concurrency` | the number of threads started, and of threads a client asks for |

`Create` is `check_params` (its guard) and `create`; `Pin` is one turn of the constructor's loop and
`LayOut` its end, `init`; `Fork` is the start of the next thread with its affinity. `Fail` has the
assertions of all of these. `NextConcurrency` is a client that asks for every concurrency.

### CpuInfo: state and actions

`physical_concurrency`, `core_thread_ids_ptr` and `heap` (the vectors, named by the thread that
filled them) are shared; `query`, `count`, `ptr` and `won` are the locals of a call. `Call` and
`LoadPtr` are the loads at the begin of the two queries; `Guard`, `StoreCount`, `Publish` and
`LeaveInit` are `init_cpu_info` (`StoreCount` reads the file and stores the count, `Publish` is the
compare-exchange, `LeaveInit` moves the vector or destroys it), and `ReloadCount` and `ReloadPtr`
the loads after it. `counts` and `spans` are history: what was returned. A file is the sequence of
its lines that name a processor, socket or core. The loads are relaxed, but each reads one atomic
that is written once (or several times with the same value), in an order that interleaving shows
as well; that a reader sees the ids behind the pointer relies on the dependency of their address.

### HardwareSizes and PageMemory: state and actions

| Variable | Code |
|---|---|
| `machine` | what the system reports |
| `known` | the atomics of `lazy_init`; `Unknown` is -1 |
| `asked`, `at`, `rising`, `size` | for each thread the function it called, how far down the chain of nested calls it is, whether these are returning, and the last result |
| `block` | the mappings: the client's size, what is mapped, the guard words that were set and whether one was overwritten; `owner` is a client, a call in progress, or nobody |
| `pc`, `call`, `data`, `errno`, `ec` | position and locals of each thread |
| `failed` | what ended the program |

`LoadKnown`, `LoadUnknown` and `Store` are the accesses of `lazy_init`, `RefuseMachine` and
`InitThrows` the ways out. `CallAlloc`, `Refuse`, `Map` or `MapFails`, `Advise` or `AdviseFails`,
`UnmapFull` and `Raise` are an allocation, one system call per step, any of which may fail;
`CallFree`, `FindDamage`, `Unmap` and `UnmapFails` a release, `WriteBehind` a client that writes
behind its block. Unmapping takes the pages that the size given to `munmap` covers.

### Alignment and AlignedAllocation: state and actions

An alignment is the set of its bits: the three highest ones mean a large page, a page and a cache
line. All sizes have the width of the modelled `std::size_t`. A run is one allocation: machine,
element type, alignment and allocator are chosen by `Init`; `Allocate` is `allocate` with any
address that the allocator below may deliver, `Throw` `std::bad_alloc`, `Deallocate` and
`FindDamage` `deallocate` with intact or damaged guard words. The adaptor stores the address of
the allocation behind the guard words, and `GivenBack` is what it finds there.

### Buffers: state and actions

| Variable | Code |
|---|---|
| `obj` | the objects: `aligned_buffer`, `aligned_row_buffer`, or the array of `allocate_unique` with its deleter |
| `heap` | allocated blocks, with the places of the elements that are alive |
| `op` | the construction, roll-back or destruction in progress, element by element |
| `it` | an iterator of the client |

`Construct` allocates, `ConstructElement` constructs one element, `ElementThrows` is an exception,
after which the `transaction` destroys what was counted (`Counted`) and `FreeRolledBack` frees;
`Commit` ends a construction. `Destroy` and `MoveAssign` begin the destruction of what the object
holds, `DestroyElement` and `Free` carry it out, and `TakeOver` is the rest of an assignment.
`Begin`, `End`, `Advance` and `Retreat` are the iterator. Elements are destroyed in the order of
the code, forwards, except in the roll-back of an array.

## 3. Runs

| Run | Instance | Shows |
|---|---|---|
| `squad_setup` | breadth 8, all squads of 1 to 64 threads with every concurrency; small pinned squads with and without mapping on machines of 3 or an unknown number of hardware threads | `SameThreadsBothWays`, `OneSuperordinate`, `MergedInOrder`, `SpreadOverHardware` |
| `squad_deep` | breadth 2, 4 threads: a chain 0-2-3 and a leaf | `MergingInv`, the inductive invariant, types included; `ResultInOrder`, `CompleteOnReturn`, `NoContractViolation`, `QuietBetweenCalls`, `FreedAfterExit`, `NotifiedWhenAnswered`, `EveryCallReturns`, `ImplementsForkJoin`; the assumptions of the proofs |
| `barrier` | breadth 2, 4 threads; tasks of every concurrency with one point, or two points of equal or different kinds, one task after another | the inductive invariant `IInv`, types included; `PeerHoldsStill`, `CleanBetweenTasks`, `ImplementsRendezvous` |
| `handshake` | the two threads of `AtomicWait`, both wait modes | `NoLostWakeUp`, `WritesVisible`, `ImplementsTurnTaking` |
| `cpu_info` | 3 threads; two sockets with a core of two threads, a machine without cores, an unreadable one | `SpansStayValid`, `OneThreadPerCore`, and the inductive invariant `IInv` |
| `page_memory` | 2 threads, 2 blocks, sizes of 6 bits; machines with and without large pages, and two that are refused | the inductive invariant `IInv`, types included; `KnownFromBelow`, `BlocksComplete`, `FailureLeavesNothing`, `OnlyDamageFound`, `DamageFound` |
| `aligned_allocation` | sizes of 10 bits, 20 alignments, 2 types, 3 machines, all allocators | `ResultAligned`, `FitsIntoAllocation`, `FreedAsAllocated`, `PromiseKept`, `CombinesRequirements` |
| `buffers` | 3 objects, 3 blocks, sizes of 6 bits, 8 shapes | the inductive invariant `IInv`, types included; `ConstructsApart`, `DestroysOnce`, `FreedAsAllocated`, `OneOwner`, `IteratorSound` |
| `skipped_subthreads`, `merge_beyond_concurrency`, `join_before_handle`, `core_ids_too_early` | see below | violations |

*Why the bounds are enough.* A squad is a loop: after a call it is in one of few idle states, so
TLC covers call sequences of every length, with all concurrencies (0 included) and both kinds of
join. The tree's breadth is 8 in the code; a smaller breadth gives deep trees with few threads, and
`squad_setup` shows with the real breadth that the layout has the same properties. `handshake` is
complete: two threads are all that ever share an atomic, and nothing in it is bounded. The calls of
`cpu_info` are not bounded either; the three machines are the three outcomes of reading the
file, and with three threads one wins, one loses, and one comes late. The parameters of
`squad_setup` have threads and maxima below and above the number of hardware threads, and mappings
shorter and longer than it, to hardware that does not exist, and that name a hardware thread twice;
what `check_params` rejects is among them. `page_memory` lets two
threads initialise, allocate and free at once; sizes go from 0 over less than a page, a page and a
rest, to one that cannot be rounded up. In `aligned_allocation`, addresses cover every
residue that the machines' alignments tell apart, and the numbers of elements include those at which
the product, the sum, or neither, exceeds the largest size. In `buffers`, three objects and blocks
allow an assignment between two objects that hold memory while a third one has been moved from; the
shapes include empty ones, a single element, several per row, and ones that overflow in the row, in
the product, and in rounding.

The widths (6 and 10 bits instead of 64) keep what the code compares: sums and products wrap at the
same places relative to the maximum. `Buffers` takes no allocation larger than half the
address space (as `PTRDIFF_MAX` in the implementations of `new`), and machines have cache lines no
smaller than `hardware_constructive_interference_size`, which the code takes for granted
(`detail/memory.hpp` 84).

TLC's deadlock check is on in the passing runs: states in which the program has ended, or
terminated, stutter by an action of their own (`Stopped`, `Ended`, `Terminated`, `Undefined`).
The type invariant of a module that is proved about is a conjunct of the inductive invariant.
`handshake`, `squad_setup` and `aligned_allocation` check no type invariant: their properties would
fail, or could not be evaluated, on values of other types.

Every action of the models fires in the passing runs, with one intended exception: of the
disjuncts of `MainFails` and `ThreadFails` only `CreateFails` does. That the others cannot happen
with a careful client is what `NoContractViolation` says; they fire in the runs of the findings.
`Next` guards all actions of `ThreadSquad` with `failed = "none"`, so TLC reports their coverage by
expression.

**Careful clients.** The passing runs use clients (`CarefulFirstCalls`, `CarefulLaterCalls`) that
avoid the calls of the findings below: the first call reaches every thread that has subordinates
and does not end the squad, and a reduction that ends the squad uses all threads. On a squad of
up to 8 threads only thread 0 has subordinates, so that any first call that does not end the
squad and has a positive concurrency is careful.

**Fairness.** `FairSpec` asks that main and each thread, if it can take a step from some point on,
takes one: the operating system runs every runnable thread, and task bodies terminate. Weak
fairness is enough since no step of one thread disables a step of another. In `SquadBarrier` this includes
that a task body reaches its next synchronization point. In `AtomicWait`, each thread that can run
does, a spin phase ends (it counts its turns) and a subordinate's work ends; the superordinate may
keep its turn for ever, since a client need not call again, and nothing need wake spuriously, so that
no thread depends on it. Nothing makes the client call again, and nothing prevents `pthread_create`
from failing. The other models are checked for safety only: their calls do not wait for anybody.

### Disagreements between code and documentation

With a run that finds them:

1. `skipped_subthreads`. A thread does not wake its subordinates in its first pass (`cpp` 888).
   This is right if main woke them in `fork_all_threads`, but main wakes only those the first task
   runs on. With nine threads, `run(f, 1)` followed by `run(f, 4)` returns although thread 3 did not
   execute `f` (`hpp` 218: "waits until all tasks have run to completion"). For the same reason
   `run(f, 1)` followed by destruction never ends (`test/test-thread_squad.cpp` 108: "no
   deadlocks"): teardown reaches the other threads in their first pass.
2. `merge_beyond_concurrency`. An rvalue `transform_reduce` with a concurrency below the number of
   threads awaits, and merges, all of them (`cpp` 613-619, 776), although the array of results
   has only `concurrency` elements (`hpp` 292) and `hpp` 270 allows the call.
3. `join_before_handle`. If the first call ends the squad, a thread may join a subordinate whose
   handle main has not yet stored (`cpp` 448-450 against the assertion at 459).
4. `core_ids_too_early`. `init_cpu_info` returns at once if the count is there (`src/cpuinfo.cpp`
   240-244), although the list may not be published yet: a second thread gets a span of null pointer
   and positive length.

Without a run of their own; each can be reproduced:

5. From 65 threads on, `init` may give the first thread of a cut-off block more subordinates than
   the block has (`cpp` 638), and some thread two superordinates; the diagram at `cpp` 913-924 shows
   a tree. (`MaxThreads = 65` in `SquadSetup.cfg`: `OneSuperordinate` fails.)
6. The counter of constructed elements in `aligned_buffer`'s constructor is not initialised
   (`buffer.hpp` 82), so that the roll-back destroys any number of elements. (Add `"buffer"` to
   `ThrowingKinds` in `Buffers.cfg`: `DestroysOnce` fails.)
7. `large_page_free` unmaps the size asked for instead of the size mapped (`src/memory.cpp` 115); the
   rest of the last large page stays mapped. (Check `NothingLeft` of `PageMemory`.)
8. A failed `mmap` is not noticed (`src/memory.cpp` 83, 140 compare with `nullptr`, not
   `MAP_FAILED`); the call fails later, with the error of `madvise`. (`MapFails`.)
9. `create` raises `max_num_hardware_threads` to the number of hardware threads (`cpp` 1091), so that
   a smaller maximum (`hpp` 51) has no effect, and a mapping with fewer entries than the machine has
   hardware threads fails an assertion. (Check `PinnedWithinMaximum` of `SquadSetup`.)
10. The move assignment of `aligned_row_buffer` (`buffer.hpp` 389-403) and the assignments of the
    iterators from other iterators (`detail/buffer.hpp` 171-176, 316-322) do not return a value.
    (`TakeOver` may go on with anything.)

Noticed while reading, outside the models: `reduce_transform` (`hpp` 139, 147) names `transform`
where its parameter is `transformFunc`: it compiles only if argument-dependent lookup happens to
find some function of that name. On a machine whose `/proc/cpuinfo` has no core ids, a second
processor makes `physical_concurrency()`, which is `noexcept`, throw (`src/cpuinfo.cpp` 170), and a
single one leaves the count at 0, so that every call reads the file again; the model has both
(`Terminate`, and the machine `NoTopology`).

## 4. Proofs

Each component has one inductive invariant, `IInv` (of the squad also `OrderInv`; `WaitInv` and
`SetupInv` where three components share a module), which is proved of every reachable state; the
properties follow from it. There is
one lemma per action, and under it one step per conjunct that the action can disturb.

| Module | Theorem | States |
|---|---|---|
| `ThreadSquadProofs` | `Inductive` | `Spec => []IInv` |
| | `TypeCorrect` | `TypeOK` |
| | `Completeness` | `CompleteOnReturn` |
| | `ContractsHold` | `NoContractViolation` |
| | `Quiescence` | `QuietBetweenCalls` |
| | `SafeRelease` | `FreedAfterExit` |
| | `NoLostNotification` | `NotifiedWhenAnswered`, an action property |
| | `Ordered` | `MergingInv`: `IInv` and `OrderInv` |
| | `OrderedResult` | `ResultInOrder` |
| | `SafeForkJoin` | `Service!Init` and `[][Service!Next]`: the safety part of `ImplementsForkJoin` |
| `SquadBarrierProofs` | `Inductive`, `TypeCorrect` | `IInv`, `TypeOK` |
| | `PeersHoldStill` | `PeerHoldsStill` |
| | `CleanAfterTask` | `CleanBetweenTasks` |
| | `SafeRendezvous` | the safety part of `ImplementsRendezvous` |
| `PageMemoryProofs` | `Inductive` | `IInv` |
| | `SizesKnownFromBelow` | `KnownFromBelow` |
| | `ClientsBlocks` | `BlocksComplete` |
| | `NothingLost` | `FailureLeavesNothing` |
| | `NoFalseAlarm`, `DamageIsFound` | `OnlyDamageFound`; `DamageFound`, an action property |
| `BuffersProofs` | `Inductive` | `IInv` |
| | `ElementsApart` | `ConstructsApart` |
| | `ElementsDestroyedOnce` | `DestroysOnce` |
| | `SizesAgree` | `FreedAsAllocated` |
| | `BlocksOwned` | `OneOwner` |
| | `IteratorsStayGood` | `IteratorSound` |
| `AlignedAllocationProofs` | `Inductive` | `IInv` |
| | `AllIsWithin` | `FitsIntoAllocation` |
| | `FoundAgain` | `FreedAsAllocated` |
| | `ResultsAligned` | `ResultAligned` |
| | `PromisesKept` | `PromiseKept` |
| | `RequirementsCombine` | `CombinesRequirements` |
| `FoundationProofs` | `Inductive` | `IInv` of `CpuInfo` |
| | `ListsStayValid` | `SpansStayValid` |
| | `CoresCounted` | `OneThreadPerCore` |
| | `WaitInductive` | `WaitInv` of `AtomicWait` |
| | `NoWakeUpLost` | `NoLostWakeUp` |
| | `WritesAcquired` | `WritesVisible` |
| | `TakesTurns` | the safety part of `ImplementsTurnTaking` |
| | `SetupInductive` | `SetupInv` of `SquadSetup` |
| | `ThreadsSpread` | `SpreadOverHardware` |
| | `SmallSquadLayout` | what `TreeAssumption` says of a squad, for every breadth and up to breadth squared threads |
| | `WalksOfSquads` | `SameThreadsBothWays`, for such squads |
| | `SuperordinatesOfSquads` | `OneSuperordinate`, for such squads |
| | `MergesOfSquads` | `MergedInOrder`, for such squads |
| `CheckedArithmeticProofs` | `CeilingReported`, `ProductReported` | the results of `try_ceili` and `try_multiply_unsigned` |

`SquadLayoutProofs` holds lemmas only.

### The squad

The theorems hold for every number of threads and every set of calls. They rest on the
assumptions of `SquadTree`, `SquadLayout`, `ThreadSquad` and `CarefulSquad`. `TreeAssumption`
says that the layout is a tree, that both walks of a thread visit the same subordinates, and that the
subordinates head consecutive blocks of indices. For squads of up to `TreeBreadth` squared threads,
64 in the code, this is the theorem `SmallSquadLayout`, see below; for larger ones it may be false,
finding 5. `ClientAssumption` says that the client is careful. Without either the theorems are
false: these are the findings above.

*Calls.* During a call each thread within reach of the task (`Lim` threads) is `Pending`,
`Notified`, `Busy` or `Done`; all others stay `Pending` (`PhaseInv`). A thread is told of the task
after its superordinate and done before it (`TreeInv`), because the superordinate's walks say so
(`WalkInv`): the part of a walk before `pos` has been told, or is done, and the rest has not.
That a walk reaches all subordinates below the limit, once each, is `TreeAssumption`. In a thread's
first pass main has done the telling, and `PassInv` says that this covered everybody the thread has
to care for; this is where a careless client breaks the proof. When thread 0 is done,
well-founded induction on the thread index (`AllDone`) gives that all threads are: `Completeness`
and `Quiescence`. `HandleInv` and `ExitInv` play the same roles for the walk that joins, with
`AllExited`: `SafeRelease`. `DataInv` follows the value of each thread from its execution to its
merge.

*Results.* `OrderInv` says what the value is: while thread t waits for its subordinates, it holds the
stretch of indices from t to the beginning of the block that it merges next (`NextOf`), and, when
t is done, t's whole block. A merge appends the block of one subordinate, and `TreeAssumption` says
that these blocks follow each other. The block of thread 0 is everybody: `OrderedResult`.

*Refinement.* `SafeForkJoin` maps each step: a submission begins a call of `ForkJoin`, the execution
of the task by a thread is the execution of its index, `Return` ends the call with the result
that `OrderInv` knows, the creation that fails is the failure of `ForkJoin`, and all else is invisible.

### Synchronization points

The theorems hold for every number of threads and every sequence of operations, on
`TreeAssumption`. A thread's two senses agree except while it waits (`SenseInv`), so that "it has
arrived" and "it has been released" can be read off them, whatever operations came before.
`TreeInv` ties a thread to its superordinate: it is released from a point exactly if the
superordinate has been there with its broadcast, and it has arrived if the superordinate's collection
has passed it. Hence whoever is about to be touched waits in the same operation: `PeersHoldStill`.
`ValueInv` says what the value is, as `OrderInv` does for the squad: a stretch that grows along
the block, and after the turn the reduction over all participants.

For `SafeRendezvous`, no thread leaves a point before all have entered it (`AllEntered`). A released
thread has a released superordinate (`ReleasedAbove`), so the least released thread (`LeastNat`) is
thread 0, which has turned round. A thread that has collected has subordinates that have collected
theirs (`CollectedBelow`), and this goes down the tree from thread 0 (`DownTheTree`).

### Hardware sizes and pages

The theorems hold for any number of threads and blocks, any machine, and sizes of every width. What a
release computes anew, the mapped size and the guard words, is what the allocation had (`BlockAt`):
the sizes of the machine, once known, are always the same, and by `QueryAt` a call knows the size that it
has been answered. `Holds` says which call in progress has a mapping in hand; there is at most one
(`HeldOnce`), and every mapping that is not a client's has one. So a failure between two system
calls leaves nothing that no one would clean up (`NothingLost`), with the exception that is finding 7:
what it leaves mapped belongs to `nobody`, and the invariant says nothing of it. Of the machine only
types are assumed; that its sizes divide each other is what the code checks (`Consistent`).

### Buffers

The theorems hold for any number of objects and blocks, any shapes, and sizes of every width. Their
one assumption beyond types is `ThrowingAssumption`: no element of an `aligned_buffer` throws while it
is constructed. Without it the theorems are false, see finding 6.

*The argument.* Whatever has a block fits into it (`Fits`): rows are as long as their elements at
least, a multiple of the alignment, and their product is the size of the block, which
survives every move. `Alive` says which elements live, from the progress of the operation: up to `done` during
a construction, from `done` on during a destruction, and, in the roll-back of an array, up to
`total - done`. `PlacesApart` and `PlacesDiffer` show that the places of different elements do not
overlap, row by row, so that an element more or less in `Places` is exactly the one constructed or
destroyed (`PlacesStep`). That an assignment or a move hands a block over without sharing or
losing it is one lemma for all of them (`Rearranged`). For iterators, `IteratorSound` follows from
modular arithmetic: a wrapped distance that is converted to a signed number and back is the same.

### Aligned allocation

The theorems hold for a `std::size_t` of every width that `Alignment` admits, and every machine, type,
alignment and address. Alignments of types, the interference size and the sizes of machines are powers
of two (`Alignof`), as the standard and the kernels have it and as the code uses them, namely as masks;
each size of a machine divides the next one, which the code checks. `OverheadAssumption` says that a
pointer and two guard words take less than half of the address space.

*Sizes:* the code rejects a size by comparing the sum with the data's size after it may have wrapped,
and a sum of two sizes that wraps is smaller than either of them (`SumWraps`), so that whatever is
not rejected has not wrapped (`AllocationFits`). Aligning within the allocation costs less than one
alignment, which the sum includes.

*Bits:* `floor_2p` fills all places below the highest bit (`SmearedFacts`; six shifts suffice
for 64 places) and so yields the highest bit (`HighestBit`). What an alignment amounts to is thus the
largest of its bits on the machine, and divisible by all the others (`BitsCombine`):
`ResultsAligned` and `RequirementsCombine`. `PromisesKept` goes through the cases of
`provides_static_alignment` (`StaticIsDynamic`). These proofs use functions that are defined by
recursion over numbers; that such a function exists is `RecursionExists`, and what it computes follows
by `InductionOverNat`, which is stated over sets of numbers since the provers cannot instantiate
an operator.

### Processor information

The theorems hold for any number of threads, any file, and calls in any order. `FilesAssumption`
says that a file describes no processor twice, and that its list of cores is not `nullptr`.

*The race.* The count is stored
before the pointer (`CountStored`, `PublishedWithCount`), so once there is a pointer nobody begins to
initialise again; the pointer is set once, by a thread that then knows it has won (`WinnerKnows`) and
does not destroy its vector; and a count and a pointer that were loaded one after the other go
together if the pointer is there (`LoadedTogether`, `SpansOfCores`). If it is not, they need not:
this is finding 4.

*The file.* Whatever the order of its lines, what is read of one processor differs from what is
read of any other (`ReadLineKeepsDistinct`, line by line, and `IdsFacts`). Of the processors of one
core, exactly the one with the lowest number is kept (`Representatives`, `ListCovers`): `CoresCounted`.

### Waiting

`WaitInv` says that a thread is past its wait only in its turn (`InTurn`), where the turn can be read
off the two senses, and that a thread's last store has released its writes unless it is still
writing (`Released`). So the load that ends a wait acquires everything, in either wait mode and
whatever the relaxed loads before it have seen: `WritesAcquired`. A store that ends a wait leaves its
thread at the notification, and a thread that looks again later does not go to sleep: `NoWakeUpLost`.

### The setup of a squad

`SetupInv` follows the affinities from `create` to the start of the threads, for any parameters and any
hardware: a squad is pinned only with a mapping that is long enough, and a thread is started only
where the hardware thread exists. The rest of `ThreadsSpread` is arithmetic. The hardware threads in use
are those of the remainders of the started threads; and of two remainders none occurs twice more often
than the other (`RemaindersEven`): leave out the first thread that has one of them, and the others
can be moved down, one by one, to threads that have the other.

### The tree

`SmallSquadLayout` holds for every breadth. In a squad of n threads, at most breadth squared, dividing
the stride twice leaves 1 (`Substrides`). So `init` gives thread 0 all of the squad, the multiples of the
first stride a stride, and the others themselves (`Own`, `OwnStride`), and both walks, which recur over
strides, have closed forms (`ToWalkOf`, `FromWalkOf`). From these follow the threads a walk visits
(`Kid`, `WalksVisitKids`), that each has one superordinate (`Parent`, `OneParent`), and that the
threads awaited head consecutive blocks (`Follows`, proved for thread 0 in `FollowsFirst` and for the
others in `FollowsBelow`). With more threads a third stride appears, which need not divide the second
one, and the first thread of a cut-off block may get more subordinates than its block has: finding 5.
The theorems about `SquadSetup` assume `SmallSquadsOnly`, that neither parameters nor hardware ask for
more.

### Checked arithmetic

`CheckedArithmeticProofs` proves that `try_ceili` and `try_multiply_unsigned` return the exact
result, or an error exactly if it does not fit, for unsigned
types of every size. Both rest on the uniqueness of quotient and remainder. The lemmas about rounding
(`CeilingFacts`, `CeilingDivisible`), multiples (`MultipleDivides`) and numbers that wrap
(`WrappedFacts`) serve pages, buffers and the adaptor.

### Only model-checked

Liveness: `EveryCallReturns`, and the progress in `ImplementsForkJoin`, `ImplementsRendezvous` and
`ImplementsTurnTaking`. The prover has no rules for fairness. All other properties of the passing
runs are theorems.

## 5. What is not modelled

Not modelled, and left out for good: the Windows and macOS branches; `reduce_transform`, which does
not compile as it is; error translation (stateless; that it throws is part of the models); type
traits and other compile-time code; the state of allocators that are moved along with buffers;
`zero_init` and `default_init` allocators (stateless); tests, benchmarks and build files.
