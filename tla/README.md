# A TLA+ verification of the CS416 operating-systems projects

The repository holds four course projects in C. Three of them are libraries with
concurrency or crash behaviour that a test hardly reaches: a thread-safe paged
virtual memory (`proj3-code`), preemptive user-level threads (`project2-release`)
and a file system on an emulated disk (`project4`); the fourth (`proj1-submit`) is
three small programs. This directory has TLA+ models of all four, TLC configurations
that check them on small instances, and TLAPS proofs of their most important invariants
for every value of the parameters.

    tlc -config VMem_churn.cfg MCVMem      one run
    tlc -config RUFS_faults.cfg MCRUFS
    tlapm VMemProofs.tla                   the proofs about one component

`PROJECT.json` lists the runs, the source lines every definition models, the
hazards each property is for, the findings and the theorems.

## 1. The system

### Virtual memory library: `proj3-code/code/my_vm.c`, `my_vm.h`

*State.* Simulated physical memory (`phys_mem`) whose frame 0 is the page directory
and whose other frames are page tables or user pages; two bitmaps (`phys_bitmap`,
`virt_bitmap`); a TLB (`tlb_store`) with a fill count and a round-robin victim; five
mutexes: `setup_lock`, `page_table_lock`, `phys_bit_lock`, `virt_bit_lock`, `tlb_lock`.

*Operations.* `set_physical_mem`, `n_malloc` (`get_next_avail`, then
`allocate_phys_page` and `map_page` per page), `n_free`, `put_data` and `get_data`
(`translate`, i.e. `TLB_check` and a page-table walk with a refill, per page),
`mat_mult` on top of them.

*Interaction.* Any number of pthreads call it at once. `n_malloc` works page by page
and holds no lock between two pages; `map_page` takes `phys_bit_lock` inside
`page_table_lock`; `n_free` takes the other three locks inside `page_table_lock`, but
clears the bit of an emptied page table with no lock around the bitmap; the
translation is used after every lock has been released.

*Hard.* Lost updates of bitmap bytes, translations that outlive their page, TLB slots
reused while a caller holds a pointer into them, allocation failing half way, the
unlocked test before the set-up, nested locks, arithmetic on addresses.

*Correct means.* A virtual page has one owner; a frame has one use; the TLB agrees
with the page tables; a read returns what the owner wrote; what was allocated comes
back; every call returns; to its callers the library is first-fit ownership of pages.

### User-level threads: `project2-release/thread-worker.c`, `datastructures.c`

*State.* TCBs with a state, a saved context, joiner and scheduling data; the thread
table; a run queue: a linked list (RR), a heap (PSJF and CFS), or one list per level
(MLFQ); `running_tcb`; a mutex with flag, owner and wait queue.

*Operations.* `worker_create`, `worker_yield`, `worker_exit`, `worker_join`,
`worker_mutex_init/lock/unlock/destroy`, `schedule` and the four policies, the timer
handler.

*Interaction.* One processor. A SIGPROF tick may come between any two machine
instructions of user code *and of the library*, and swaps to `schedule()`, which
blocks the timer, queues the preempted thread, and resumes another.

*Hard.* Ticks inside the library: a thread half way between two queues, a list half
linked, a context saved over another one. Wake-ups that get lost or go to the wrong
thread. TCBs freed while something still refers to them. Empty run queues.

*Correct means.* The mutex excludes; no thread drops out of all queues or stands in
two; nothing freed is resumed; a wake-up is never lost; `worker_join` returns after
the worker's end, and does return; the list is a FIFO and the heap a priority queue.

### RUFS file system: `project4/code/rufs.c`, `block.c`

*State.* On the disk: superblock, inode and data bitmaps, inodes with 16 direct
pointers, data blocks. In memory: only the superblock; everything else is read from
the disk when it is needed. FUSE calls it from one thread (`-s`).

*Operations.* `rufs_mkfs`, `rufs_init`, `rufs_destroy`, `rufs_mkdir`, `rufs_create`,
`rufs_write`, `rufs_read`, path lookup (`get_node_by_path`, `dir_find`), `dir_add`,
`get_avail_ino`, `get_avail_blkno`.

*Hard.* Every operation is several block writes in a fixed order with no journal: a
crash between any two, a disk that becomes full between any two, reads and writes whose
failure is ignored or mistaken for something else, blocks that are assumed to be zero,
transfers that begin and end inside blocks.

*Correct means.* After any crash or failed transfer, everything in use is marked, blocks
and inodes have one owner, names are unique, files and directories are not mixed up, the
names a path can reach are those that completed calls added, and a call that reports
success has created what it says.

### Exercises: `proj1-submit`

`threads.c`: main creates two pthreads, which add to a global under a mutex, joins them
and prints it. `bitops.c`: bits set and read in an array of chars, with the same
arithmetic as the bitmaps of my_vm.c and rufs.h. `ucontext.c`: main runs a worker on a
stack of its own and is resumed through `uc_link` where `getcontext` returned first.

*Hard.* An increment is a load and a store; a signed char becomes negative with its last
bit; `getcontext` returns twice.

*Correct means.* No turn is lost when the counter is printed; a bit is what was last stored
in it; the worker runs once, on a stack that is freed after it.

## 2. Modules

| Module | Models | State and actions |
|---|---|---|
| `VMem` | my_vm.c after set-up, several threads | bitmaps, frames, TLB, locks, and per thread its place in the call; one action per stretch of code between two points where other threads can intervene |
| `PageOwnership` | what `n_malloc`/`n_free` promise | who owns which virtual page; acquire, release, abandon |
| `MCVMem` | | `VMem` with the symmetry of its threads |
| `VMSetup` | `set_physical_mem` and the first `n_malloc` calls | each assignment of the set-up is an action |
| `FirstFit` | the loop of `get_next_avail` | one turn per action |
| `PageGeometry` | the shift and mask macros of my_vm.h, `n_malloc`/`n_free` on byte addresses | |
| `DataCopy` | the loop of `put_data`/`get_data` | one piece per action |
| `Workers` | thread-worker.c | processor, TCBs, run queues, table, mutex; one action per stretch of library code between two observable effects, ticks, `schedule()` |
| `RunQueue` | `enqueue`/`dequeue` of datastructures.c under ticks | the list, and per thread its place in `enqueue`, one statement per action; a tick puts the running thread at the end, an exit or a block takes it away |
| `ReadyFIFO` | what the round-robin queue promises | a line |
| `Heap` | `heap_push`/`heap_pop` | one comparison per action |
| `RUFS` | rufs.c on block.c | the disk, the call under way; one disk write per action; a crash, a failing read or a lost write at any point |
| `MCRUFS` | | `RUFS` with the symmetry of its names |
| `Namespace` | what the file system promises about names | the set of directories and the set of files |
| `FileIO` | `rufs_write`/`rufs_read` on bytes | one block per action |
| `BitOps` | bits in arrays of chars: bitops.c, my_vm.c, rufs.h | set and clear of a bit, chars signed or not |
| `MatMult` | `mat_mult` of my_vm.c | one turn of the inner loop per action |
| `Counter` | threads.c | main, the adders, the mutex; the load and the store of `x` |
| `Context` | ucontext.c | what runs, the flag, the worker's stack |
| `SmallParts` | | `Heap`, `RunQueue`, `FileIO`, `PageGeometry`, `DataCopy`, `MatMult`, `VMSetup`, `Counter` and `Context` side by side, for proofs and for TLC |
| `MCParts` | | `SmallParts`, `FirstFit` and `BitOps` side by side; the first state picks the one that moves |
| `VMemProofs`, `VMemFramesProofs`, `VMemPhasedProofs` | | theorems about `VMem`: types, virtual pages, the refinement; frames, TLB, data; leaks, programs with phases |
| `WorkersProofs` | | theorems about `Workers` |
| `RUFSProofs`, `RUFSTreeProofs`, `RUFSNameProofs` | | theorems about `RUFS`: the disk; directories and entries; paths |
| `PartsProofs` | | theorems about `FirstFit` and all of `SmallParts` |

The concurrent models take some loops as one step: `VMem` the first-fit search, the
copying of a page, the shifts and masks, a bitmap as a set; `Workers` a queue operation;
`RUFS` the bytes of a block and its bitmaps. Each of those steps has a module of its own
that has the loop.

### How the models correspond to the code

**VMem.** Addresses are page numbers. A word of memory is a page-table entry or the
name of the thread that wrote it, so a page table overwritten by user data is
visible; an access through such an entry goes wild (`fault`) and ends the process.
A critical section under `virt_bit_lock` or `tlb_lock` is one action, since what it
touches is only ever touched under that lock. `page_table_lock` and `phys_bit_lock`
are variables. A set or clear of a bit in `phys_bitmap` under the lock that can
overlap with the unlocked clear of `n_free` is two actions, load of the byte and
store of the byte. `translate`'s result is a pointer (`ptr`), into the TLB slot or
into the page table, and it is dereferenced by a later action, as in the code. A
thread only uses regions that have been written and frees only its own, and nobody
frees a region while another thread reads it: the library promises nothing else.
`Starts` says how the callers behave: `"alloc"` is multi_test.c, where main joins all
threads of one kind of call before it starts the next kind; `"any"` is no discipline
between threads. `Pinned` adds a page of main's that stays allocated.

**Workers.** A saved context is a program counter. `Tick` moves the processor to
`schedule()`, whose first lines queue the preempted thread; picking (`RunNext`) and
`Resume` follow. `Preemptible` says where ticks land: in user code, at chosen points of the
library or all of them, also in `schedule()` itself between the unblocking of the timer and
`setcontext`, where the tick saves the scheduler's context over that of the thread
it was about to resume (`clobbered`). Any tick of an MLFQ build may end the promotion
period: `promote_all_threads` changes nothing while the lower levels are empty, and
would take the threads of a level off and put them back for ever if one were not
(`"spin"`, thread-worker.c:607). Nothing ever queues a thread on a lower level, so that
end is not reached in any run. The ends that the code can run into (main's
stale context, a spin with the timer blocked, a NULL dereference) are states. One
source builds four schedulers: `policy` is chosen in the initial state.

**RUFS.** Each action reads what the code reads and ends with one `bio_write`. Local
copies of inodes (`cp`) are kept where the code keeps them, so a stale copy written
back would show. `Crash` forgets the memory at any point, `Mount` starts on the disk
it left, including a disk on which `mkfs` was cut short. `writei` reads the block of the inode
before it writes it back; no caller looks at its result. Reads and writes of the disk
can fail, and the model does with a failure what the code does. `failed` records the kinds:

| Kind | What happens in the code |
|---|---|
| `crash` | the process dies between two block writes |
| `read` | a read fails and the handler gives up with an error |
| `find` | a read fails in a lookup, and `dir_find`'s -1 is taken for a name that is free (`dir_add`, rufs.c:195) or missing (`rufs_getattr`) |
| `inode` | the read that `writei` begins with fails (rufs.c:127): the inode is not written, and the call goes on (rufs.c:222, 259, 387, 613, 671, 809) |
| `write` | the write of an inode or a data block is lost and its result is ignored, or `dir_add` reports it and the call gives up |
| `bitmap` | the write of a bitmap in `get_avail_ino` or `get_avail_blkno` is lost (rufs.c:52) |

A lost bitmap write lets the same inode or block be handed out again; nothing in the code
repairs that. The properties about the disk are therefore stated for behaviours without
one (`MarksKept`) and tolerate the other five kinds, unless they say otherwise:
NamesUnique also excludes `find` (a failed search lets `dir_add` add a second entry of the
same name), SizesCount allows only `read` (entry and directory inode are two writes, and
either `inode` or `write` can keep the second from the disk), CreatedIsFound excludes `write`
and `inode`, after which a call reports success without an inode, and ListedIsFound allows no
fault and needs a free block, since `rufs_mkdir` leaves its entry behind when it finds none.

**The loops.** `Heap` compares through `psjf_cmp` and `cfs_cmp` as they are, a difference of
longs returned as an int, the largest of which is `INT_MAX`; PopsTheLeast claims the order only where no two
values in the heap have been half the int range apart, and that nothing is lost in any case.
`PageGeometry` has the 32-bit `num_pages` of `n_malloc`, which wraps around for a request
less than a page below 4 GB and yields 0 pages, which is refused.
`BitOps` has the promotion of a char to int and back. `MatMult` multiplies modulo the
word size.

## 3. Runs

| Run | Checks | What it shows |
|---|---|---|
| `vm_phased` | ReadsOwnData, NothingLeaks | with the discipline of multi_test.c the library is correct: right data, everything comes back over two rounds |
| `vm_pinned` | FramesExclusive, TLBCoherent | with no discipline at all, as long as no page table becomes empty: frames have one use and no stale translation stays, with the TLB full and slots reused, refilled and invalidated at any time |
| `vm_churn` | TypeOK, VirtExclusive, TLBUnique, RefinesOwnership, CallsReturn | what holds whatever the callers do, with frames and page tables running out, TLB evictions, bitmap races and wild accesses; every call returns unless a wild access ends the process: no deadlock of `page_table_lock` and `phys_bit_lock`, also when `map_page` allocates a table under the former or finds no frame for it |
| `vm_bitrace` | FramesExclusive, violated | a bit of `phys_bitmap` is lost and a frame gets two uses |
| `vm_tlbptr` | ReadsOwnData, violated | an evicted TLB slot redirects an access to another thread's frame |
| `setup_cold` | InitBeforeUse, violated | a second first call runs on a library that is half set up |
| `workers_user` | NobodyLost, NoUseAfterFree, NoLostWakeup, JoinWaits, AllJoined | RR, PSJF, MLFQ with ticks in user code and at two points of the library that do no harm: the library is correct and main gets to its end |
| `workers_preempt` | TypeOK, MutualExclusion | MLFQ and CFS with ticks everywhere, a full thread table and clobbered contexts: the mutex still excludes |
| `workers_lost` | NobodyLost, violated | a tick in `worker_mutex_lock` between lines 490 and 491, the only point of the library where this run has ticks: the thread is in no queue |
| `workers_double` | NoUseAfterFree, violated | MLFQ queues a yielding thread twice; it is freed while queued |
| `rufs_faults` | TypeOK, BitmapsCover, BlocksExclusive, EntriesExclusive, FreshIsZero, KindsApart, NamesUnique, SizesCount, ListedIsFound, CreatedIsFound, RefinesNamespace | the disk is consistent after crashes, failed reads, lost writes and on a full disk; names appear one at a time, and what a handler reports as created is there |
| `parts` | FindsFirstFit, PopsTheLeast, EveryoneInLine, RefinesFIFO, ReadsBack, CopiesExactly, BackedByOwnFrame, SetupOnce, EveryCallerServed, BitsAreASet, ComputesProduct, CountsEveryTurn, RunsOnceOnItsStack | the loops and the set-up compute what the other models take for granted, and the programs of proj1-submit do what they are for |

The five violations are findings: each refutes a comment of the code, quoted in
`PROJECT.json`. The passing runs next to them show the conditions under which the
same property holds, so they say exactly what the defect needs.

### Bounds, and why they are enough

*VMem.* Two threads, since every race found and every exclusion argued is between
two; regions of one and two pages, so that a call can fail, be overtaken or be evicted
between its pages. `vm_phased` has two entries per page table, so that two pages lie in
two tables and tables empty and come back in the second round; there are as many frames and
TLB slots as `PhasedIsSafe` (section 4) asks for. In
`vm_pinned` the threads ask for more pages than there are (the search fails), and there are two
TLB slots for four pages.
`vm_churn` has two TLB slots for three pages, two entries per page table, and frames for fewer
pages and tables than both threads ask for: both `n_malloc`'s frame and `map_page`'s table run
out half way. `ByteBits` is 8: all frames share a bitmap byte, the worst case for the race.

*Workers.* Three workers and a critical section each twice: one holds, one waits,
one comes in between. Accumulated time is capped at `MaxUsed`, one is enough for
threads to overtake each other in the order. `MAX_THREADS` 1 makes the table
overflow. `workers_user` has two points of the library that are not
fragile (section 4) and where a tick makes a difference: main has created a thread that is in
no queue yet, and the mutex is free while its waiters still sleep. Two MLFQ levels, since nothing leaves the first.

*RUFS.* Three inodes, four blocks, two pointers, one entry per block: both bitmaps
run full, directories run out of pointers, and a second entry needs a second block.
Two names, paths of depth two: a name can exist in two directories. Two faults per
behaviour, of the same or of different kinds: a crash can follow a lost write, and a
second crash can hit the calls that follow the first (the proofs have no bound on faults).

*Parts.* Bitmaps of eight pages with blocks of up to four, every bitmap; heaps of five
threads with three values, on an int of four bits (`INT_MAX` = 7): 0 and 7 compare right, 0
and 8 do not.
Main and two workers in the list, each creating or waking others, exiting and blocking, so that
two enqueues can be interrupted while the third thread empties the queue, and a tick in user code
and before any statement of `enqueue` but the two of section 6; three-byte writes on two-byte blocks, so a write can begin
and end inside a block, cover one, pass the last pointer and find the disk full; every
transfer of up to 13 bytes on pages of four, with every set of mapped pages; 4 KB pages
around the end of the first page table, with requests of nothing, of parts of pages and
within a page of 4 GB; four first callers; two bytes of bits, with the first and last bits
of each; matrices of up to two by two, also one with itself, on words of two bits so that
products wrap; two adders of three turns.

### Fairness

*VMem* (`CallsReturn`): weak fairness of each thread's steps inside a call. pthreads are
scheduled by the operating system, which does not stop a runnable thread for ever; a
step that waits for a lock is not enabled. No fairness for making a call.

*Workers* (`AllJoined`): weak fairness of the scheduler, which runs with the timer
blocked; strong fairness of each thread's steps, since a thread is on the processor
only now and then, but a quantum (10 ms) is many instructions long, so a thread that
gets the processor again and again gets somewhere. That it does get the processor
again and again is not assumed: it is what the scheduler must bring about. CFS is not
in this run: it dereferences NULL after an exit (section 6).

*VMSetup* (`EveryCallerServed`): weak fairness of the callers together.

## 4. Proofs

The theorems hold for every value of the constants that satisfies the ASSUME of the
component's module, and the hypotheses in the statement: any number of threads, pages,
frames, TLB slots, inodes, blocks, faults. No fairness is used. What bounds the behaviour of a
model beyond its constants bounds the theorems too: paths have at most two components (`Paths`
of RUFS), and a round of a caller is what section 2 says.

| Module | Theorems (and the property) | Hypotheses |
|---|---|---|
| `VMemProofs` | `TypeCorrect` (TypeOK), `PagesExclusive` (VirtExclusive), `OneSlotPerPage` (TLBUnique), `ImplementsOwnership` (RefinesOwnership) | none |
| `VMemFramesProofs` | `FramesHaveOneUse` (FramesExclusive), `TLBAgrees` (TLBCoherent), `ReadsWhatWasWritten` (ReadsOwnData), `NoWildAccess` (Running) | neither known race strikes (`Careful`) |
| | `PinnedIsSafe` (all three) | `Pinned`, one page table, `NoRedirect` |
| `VMemPhasedProofs` | `NothingIsLost` (NothingLeaks) | no known defect strikes (`Careful`, `Thrifty`) |
| | `PhasedIsSafe` (all of these and NothingLeaks) | phases (`Starts = {"alloc"}`), `EnoughFrames`, `EnoughSlots` |
| `WorkersProofs` | `MutexExcludes` (MutualExclusion), `WorkersTyped` (TypeOK) | none: ticks anywhere |
| | `NobodyIsLost` (NobodyLost), `FreedIsGone` (NoUseAfterFree), `WakeupsArrive` (NoLostWakeup), `MainIsLast` (JoinWaits) | `SafeTicks` |
| `RUFSProofs` | `DiskTypes` (TypeOK), `NothingUnmarked` (BitmapsCover), `NoBlockShared` (BlocksExclusive), `NamesFormATree` (EntriesExclusive), `UnusedIsZero` (FreshIsZero) | none; the properties name the faults they tolerate |
| `RUFSTreeProofs` | `DirsAndFilesApart` (KindsApart), `NoNameTwice` (NamesUnique), `SizesAreRight` (SizesCount), `CreationComplete` (CreatedIsFound) | the same |
| `RUFSNameProofs` | `ImplementsNamespace` (RefinesNamespace), `EveryNameLeadsSomewhere` (ListedIsFound) | the same |
| `PartsProofs` | `SearchIsFirstFit` (FindsFirstFit), `EveryByteInPlace` (CopiesExactly), `SetUpOnce` (SetupOnce), `NoTurnLost` (CountsEveryTurn), `WorkerRunsOnce` (RunsOnceOnItsStack) | the constants are numbers or names of threads |
| | `PopIsLeast` (PopsTheLeast) | ids are ints, no more threads than slots |
| | `WrittenIsRead` (ReadsBack) | a block has a byte at least |
| | `EveryByteBacked` (BackedByOwnFrame) | 4 KB pages, page numbers and sizes of 32 bits |
| | `EveryoneStands` (EveryoneInLine), `ImplementsFIFO` (RefinesFIFO) | no tick between the test that finds a tail and the store of the new one (`"link_tail"` and `"set_tail"` not in `TickPoints`); NULL is no node and no thread |
| | `ProductIsComputed` (ComputesProduct) | sizes are naturals, elements integers, the word size positive |

### Virtual memory

**Virtual pages** (`VMemProofs`). VirtExclusive is not inductive: how much of its region a
thread still owns depends on where it is in `n_free`, and a page given back must be one it
owned. `IndInv` adds `RegionOK` (a region lies in the address space; the index is inside it
while a page is worked on; a thread at rest stands at its beginning) and `TargetOK`. It
holds whatever the bitmap race does to physical frames, since virtual pages are only marked
under `virt_bit_lock`. The refinement maps every action to an acquire (`n_malloc`), a
release (`FreeVirt`), an abandon (a failed `n_malloc`, a skipped page) or a stutter.

**Frames, translations, data** (`VMemFramesProofs`). The runs `vm_bitrace` and `vm_tlbptr`
show two races. These theorems show that there is no third. Each race is a condition on a
single step: `NoLostUpdate` says that nobody sets a bit of the same byte between the load and
the store of the unlocked `clear_bit` in `n_free`; `NoRedirect` that no TLB slot is given
to another page while a caller holds a pointer into it. `Careful` is both. The theorems are
`Spec /\ [][Careful]_vars => []P`, for callers with and without discipline. The hypothesis
leaves whole families of behaviours: with TLC, `[][Careful]_vars` holds of *every* behaviour
of the instance of `vm_phased`, and of that of `vm_pinned` with a TLB slot for every page. There
are two reasons. With the discipline
of multi_test.c nothing allocates while something is freed, and nothing is freed while
something is read. With `Pinned`, the page table is never empty, so the unlocked `clear_bit`
is not reached: `PinnedIsSafe` proves that, and needs only `NoRedirect`.

`FrameInv` is the induction. `LiveOK`: the page tables map exactly the pages some thread has
placed, where the pages placed follow from a thread's program counter and index. `PagesOK`,
`TablesOK`, `HeldOK`: directory, page tables, live pages, and the frames held in the middle of
`map_page` or `n_free` are all marked and all different. `ByteOK`: a byte of the bitmap
that has been loaded misses no bit set since. It is what the first race breaks, and all the
locking of `phys_bitmap` is for. `SlotsOK`: a valid slot translates a live page, or
one that an `n_free` between its two unlocks is about to invalidate. `AccessOK`: the pointer
in a caller's hands leads to the entry of its page; this is what the second race breaks.
`FilledOK` and `ReadOK`: what is written stays.

**Leaks** (`VMemPhasedProofs`). NothingLeaks is the converse of what `FrameInv` says: what is
marked is used. `UsedInv` says it of frames (`PhysUsed`), page tables (`TablesUsed`: a table
stays in the directory only while it has a page or an `n_free` is about to look whether it
has) and pages (`VirtUsed`), and `FreshOK` says that the byte a `set_bit` has loaded holds no
bit that was cleared since; without it the store would bring a frame back that nobody owns.
Two more conditions on steps are needed and name two more defects: `NoRevival` (nobody clears
a bit of the same byte between the load and the store of a `set_bit`: the unlocked `clear_bit`
can) and `NoGiveUp` (no call runs out of frames half way: my_vm.c:505).

**Programs with phases.** `PhasedIsSafe` has no condition on the interleaving. With the
discipline of multi_test.c (`PhasesOK`) nothing is freed while something is allocated, so
neither bitmap race can strike. A TLB slot is reused under a pointer, or a call runs out of
frames, only if there are too many pages: `EnoughFrames` is a frame for the directory, each
page table and each page the threads can hold, `EnoughSlots` a slot for each such page. Then
`NeverFull` counts: the frames in use are covered by the directory, its entries and the places
where a thread can hold a page. For the TLB the count is subtler, since slots are filled in
turn and the victim is not chosen for being free: `SlotsInTurn` says that while pages are
allocated, the busy slots are the last in turn, so the next victim is busy only when all are.
`vm_phased` is an instance: 7 frames and 4 slots for two threads of two pages.

### Threads

**The mutex.** `MutexInv` adds to MutualExclusion that the flag is set while a thread is
between its test-and-set and its clear. The argument needs only that test-and-set is one step
and that a context resumes where it was saved or is lost, so it holds for every policy and
for ticks anywhere.

**Where ticks do no harm.** `SafeTicks` says: ticks land in user code and in the library, but
not at the seven points `Fragile` and not in `schedule()` itself; no `worker_yield` in an MLFQ
build; no more workers than the thread table holds. Then, for every policy and any number of
workers and rounds, nobody is lost, nothing freed is queued or running, no wake-up is lost, and
main returns last. `WorkersInv` says who is where: a READY thread is in exactly one queue once,
unless it is on the processor or main is about to queue it; a BLOCKED worker is in the mutex's
queue once; main's program counter and index say which workers are created, running and freed
(`MainAt`), and whom it waits for (`JoinOK`); a waiter of a free mutex has somebody on the
way (`WakeOK`).

Nothing can be dropped from the hypothesis. With one more tick, at the point named, TLC finds:

| Tick at | In | What breaks |
|---|---|---|
| `join_block`, before main is BLOCKED | `worker_join` | AllJoined: the target exits unnoticed, main waits for ever |
| `join_wait`, before main is the target's waiter | `worker_join` | NobodyLost |
| `lock_block`, before the thread is BLOCKED | `worker_mutex_lock` | NoLostWakeup: the mutex is freed in between |
| `lock_enqueue`, before it is in the mutex's queue | `worker_mutex_lock` | NobodyLost (`workers_lost`) |
| `lock_swap`, before it gives the processor up | `worker_mutex_lock` | NoLostWakeup: woken in between, it swaps out although it is RUNNING (three workers) |
| `exit_wake`, `exit_swap`, TERMINATED and still running | `worker_exit` | NoUseAfterFree: main joins and frees it |

A yield under MLFQ is `workers_double`; a full thread table lets main return early.

### File system

**The disk** (`RUFSProofs`). One induction: what a call has in its hands must be unused for
the next write to be right. `DiskInv` adds that everything referred to is marked (`Marked`), how
far `mkfs` has come (`Formatting`), that a call's local copy of the directory or file agrees
with the disk up to the block it has just obtained (`Working`), and that the new inode number
is marked and named by no entry but its own (`NewOK`). A crash or a failed read only forgets the
locals, so it preserves the invariant in one line; a lost write leaves the disk as it
was with the call one step further, which is harmless because of the order of the writes
(bitmap first). A lost write of a bitmap breaks `DiskInv` for good, so the induction is over
`FaultInv`: the types hold always, and `DiskInv` as long as `MarksKept`, which no step makes
true again.

**Directories** (`RUFSTreeProofs`). `TreeInv`, on top of `FaultInv`, holds as long as
`MarksKept`. `CopyOK` relates the handler's copy of the directory to the disk, exactly;
`KindOK` is KindsApart for the copy too. NamesUnique needs `PackedOK`: entries fill
a directory from the front, so the place `dir_add` finds is the first that is free, and no
lookup changes when it is filled. `NameOK`, `EntryOK`, `LeadOK` and `SizeOK` hold under the faults
their property tolerates (`failed` only grows, so a weaker fault set is never needed later).
`CreationComplete` is an action property: the last write of a call finds the entry where
`dir_add` put it.

**Paths** (`RUFSNameProofs`). `get_node_by_path` is a recursive function; it is unfolded once
per component (`WalkOK`), which the bound on paths makes possible, and a path is then one or two
hops. Every action but the one that puts the entry's inode in place leaves every hop as it
was; that one adds one hop, to an inode that had none, and no hop leads out of the new inode.
With crashes in mind: a directory whose inode was never written is not there, so the
names below it are not either. Each step is a step of Namespace or a stutter.

### Parts

`SearchIsFirstFit`: when the loop of `get_next_avail` returns, it returns the lowest block
that is free and long enough, or there is none. `LoopInv` says what `free_pages` counts and
that no block that ends before `vpn` is long enough. This is the step `VMem` and
`PageOwnership` take as one. `EveryByteInPlace`: `CopyInv` says that the bytes before
`curr_va` have been moved; a piece ends within its page, so its offsets are those of its
addresses (`SamePage`). `SetUpOnce`: only the holder of `setup_lock` publishes.
`NoTurnLost`: x is the sum of both counters, and of a turn stored but not counted; the holder
of the mutex has loaded the current value. `WorkerRunsOnce`: main's place says how often
the worker has run.

`PopIsLeast`: in `HeapOrder` a parent comes before its children, but for the one place the
sift loop is at, where the order holds between its parent and its children. The root then comes
before all: the first slot it did not come before would have a parent with the same fault.
The comparisons are those of `psjf_cmp`, exact by `ToIntExact` while `wide` is FALSE; that the
array holds every thread once (`HeapHolds`) needs no order at all. `WrittenIsRead`: `KnownOK`
says that what is known is in the file. While `rufs_write` runs it works on a copy of the inode, so
`CopyExtends` says that the copy only adds blocks, which the bitmap did not have, and
`WriteProgress` says where the loop is; a call that finds no block stops with the old inode
in place. `EveryByteBacked`: `RegionOK` ties a region's address, page numbers, frames and page-table
entries together, two regions have disjoint pages and frames, and both bitmaps are the union of
what the regions hold. Page numbers below 2^20 have entries of their own (`SlotsApart`, by
division with remainder), so one region's `map_page` or `n_free` leaves the others' entries; no
frame but 0 has address 0, so `n_free` skips no entry of its region. `RoundedUp` is the 32-bit
rounding of `num_bytes`: it wraps to 0 pages or does not wrap.

`EveryoneStands` and `ImplementsFIFO`: RunQueue reads the line off the list with a recursive
function, `Chain`. `QueueInv` says instead that there are nodes `c[1] .. c[m]`, each linked to the next,
with a waiting thread each (`HasLinks`, `HasThreads`), that `tail` is the last but between the two
stores of `enqueue` (`HasEnd`), and that nothing else is in use but the nodes that threads are
about to link (`HasNodes`). `ChainUnfolds` shows that a function as `Chain` is defined exists, and
`ChainFrom` that along such nodes it gives their threads; both are inductions on a number up to a
bound, which `UpTo` draws from the library's least-number principle. Each action then
turns `c` into another such list: a link adds a node at its end, a tick takes the first away and
adds one at the end, an exit or a block takes the first away, and the rest leaves it alone. What
`enqueue` has learnt of the tail is part of `HasEnd`, for the thread that runs; `QueueTyped`
says that all others have been interrupted before they looked, which is the hypothesis. `ProductIsComputed`: c is the sum of the terms so far modulo the word size, and
the elements before (i, j) are done (`Partial`); `Modular` carries a remainder through an addition,
`Answers` says that an element of the answer has a word of its own, so that `put_data` changes
neither the arguments nor the elements done, and `SameSums`, again by `UpTo`, that sums over
the same words are the same.

### Only model-checked, and why

- Liveness: CallsReturn, AllJoined, EveryCallerServed. Fairness and ENABLED are outside the
  prover.
- BitsAreASet: `BitOps` uses `Bitwise`, and no theorem can be stated about it or about
  `MCParts`, which reaches it.
- CountsEveryTurn for more than two threads (threads.c creates two): it needs a sum over the
  threads.
- InitBeforeUse is false (`setup_cold`).

## 5. Plan

Done: VMem with its runs and PageOwnership; VMSetup, FirstFit; Workers; RUFS and Namespace; the
loops; failing disk reads and writes; 32-bit arithmetic in Heap and PageGeometry,
`promote_all_threads`, `mat_mult`, the programs of proj1-submit; the theorems of section 4.
Of the invariants and action properties of the passing runs, all but BitsAreASet are proved.

What could follow: paths of RUFS of any length (the proofs unfold two components), and the
Counter for any number of threads.

## 6. Disagreements met while modelling

With a run: the five violations of section 3. Without one:

- my_vm.c:505: `n_malloc` that fails at page *i* frees the first *i* pages; the frame of
  page *i* and the bits of the pages from *i* on stay set ("Free previously allocated
  pages", line 504). NothingLeaks is checked where no call fails; PageOwnership
  has the loss as `Abandon`.
- thread-worker.c:146: `cfs_cmp` and `psjf_cmp` return a difference of longs as an int; with
  2^31 microseconds between two threads the heap is out of order. PopsTheLeast
  excludes exactly that.
- rufs.c:52: the result of `bio_write` is ignored (the fault kind `bitmap` of RUFS).
- rufs.c:598: `rufs_mkdir` gives up after its entry has been added when no block is
  free: the name is listed and cannot be looked up (ListedIsFound excludes a full disk).
- my_vm.h:92: `PFN_SHIFT` is 12 for every page size, while my_vm.h:71 onwards supports
  sizes up to 64 KB. PageGeometry is checked for 4 KB.
- thread-worker.c:627: no MLFQ thread is ever demoted, contrary to the comment on line
  622: `schedule()` has already made the preempted thread READY and queued it, so the
  branch for a RUNNING thread, the one that demotes, is never taken.
- thread-worker.c:739: `sched_cfs` dereferences `running_tcb`, which is NULL after an
  exit (`NullSlice` in Workers).
- thread-worker.c:321: the failure of `add_thread_to_table` (line 62) is ignored; a later
  `worker_join` does not find the thread and returns at once.
- datastructures.c:25: between the test of `queue->tail` and the store through it on line 26
  a tick can run the only thread in the queue until it exits or blocks; the thread in `enqueue`
  is then dequeued, the queue is empty, and line 26 dereferences NULL. RunQueue has the steps;
  with `"link_tail"` in `TickPoints` TLC finds it. One statement is one step there, and
  `queue->tail` is read again where it is dereferenced, as in a build without optimisation.
- datastructures.c:31: a tick between the link of the new node and the store of
  `queue->tail` lets the scheduler append to the node before it, and the new thread drops out of
  the list; with `"set_tail"` in `TickPoints` TLC finds it. In user code, before the test, and
  before line 28 a tick does no harm (`EveryoneStands`).
- rufs.c:222: `writei` reads before it writes, and its result is ignored here and at lines 259,
  387, 613, 671 and 809: after a failed read or write the call reports success although the
  size, the pointers or the whole inode did not get to the disk (the fault kinds `inode` and
  `write` of RUFS, which SizesCount and CreatedIsFound exclude).
- rufs.c:770: `rufs_write` returns -ENOSPC after a partial write, and the inode on the
  disk does not get the blocks already written (line 809 is not reached).
- threads.c:58 creates two threads; lines 41 and 53 announce four.

## 7. Not modelled

- `print_TLB_missrate` and the TLB counters, the run-time statistics of the thread
  library, `print_heap`, `get_top_bits` (one shift, printed): output only.
- The branch of `sched_mlfq` that demotes: `schedule()` never leaves a thread RUNNING, so it
  cannot be reached.
- Failing `malloc`, `getcontext` and `swapcontext` in the thread library (they end the
  call or the process); memory that `malloc` returns is taken as zero (`worker_create`
  leaves `waiting_thread`, and `init_main_thread` the scheduling fields, uninitialised:
  thread-worker.c:271).
- A tick inside `heap_push` (PSJF and CFS), which runs the scheduler on a heap whose order is
  not whole: Heap has no tick inside a call, and Workers takes a call as one step.
- The page directory overwritten by user data: VMem takes an entry that is no frame as
  unmapped where the code would follow it (my_vm.c:321-332, 545). No run reaches such a state,
  and under the hypotheses of the theorems about frames the directory is intact.
- The read in `rufs_write` whose failure is ignored (rufs.c:777): `bio_read` clears the buffer
  (block.c:64), so the rest of the block is overwritten with zeros. RUFS keeps no bytes and
  FileIO has no faults.
- A heap with more threads than slots (datastructures.c:80): what is overwritten depends on
  the layout of the globals.
- The stubs of rufs.c that return 0 (`rmdir`, `unlink`, `truncate`, `flush`,
  `utimens`, `release`), time stamps, names longer than a directory entry; `getattr`, `open`,
  `opendir` and `readdir` only read what the modelled lookups read, and are operators.
- `ucontext.c` without its output. The encoding of machine instructions and signal frames
  plays no part in it.
- Benchmarks: they are the callers. The models take the order of calls from parallel_cal.c
  and multi_test.c; the arithmetic and the output of the benchmarks, and the ones that call the
  libraries in the same ways, are left out.

Hazards without a property: thread-worker.c:739 (the NULL dereference is a state of Workers,
and the liveness property is checked for the other three policies), thread-worker.c:271,
datastructures.c:80 and datastructures.c:120 (above), thread-worker.c:321 (a thread that is not in
the table is not joined: main returns early, so JoinWaits is checked with room in the table;
MutualExclusion holds with a full one but would not show it), my_vm.c:344 (it takes a caller that
frees what another one reads) and rufs.c:52 (the fault is in RUFS, and what it breaks stays
broken).
