# Yalnix: verification project

TLA+ models of the Yalnix kernel in `src/yalnix_framework`, the TLC runs that
model-check them on small instances, and TLAPS proofs of what matters most for
every value of the constants. `PROJECT.json` lists the components, the runs, the
source lines each definition models, the mutants that show each property can
fail, the hazards the properties are for, and the theorems.

To check: `tlc -workers 2 -config FrameTrackingMC.cfg FrameTracking` (and so on,
see *Runs*), `tlapm AllocatorProofs.tla` (and so on, see *Proofs*).

## 1. The system

Yalnix is a teaching kernel for a simulated 32-bit machine with one processor.
User processes trap into the kernel; the clock and the terminals interrupt user
processes. **The kernel itself takes no interrupts**: a handler runs to its
end, or to the context switch with which its caller blocks. What interleaves is
therefore whole handlers, in any order the user programs and the clock produce,
and the halves of a handler before and after it blocked. Every pcb has one
`next` field with which it is linked into at most one queue.

### Inventory

| component | source (`src/yalnix_framework/src`) | state | operations |
|---|---|---|---|
| frame tracking | `frame_tracking.c` | bitset, `next_free` | `acquire_frame`, `find_frame`, `free_frame` |
| run queue, dispatch | `scheduler.c`, `interrupt.c` | `running_proc`, `MAIN_QUEUE` | `schedule_process`, `get_next_process`, `FullContextSwitch`, clock |
| process life cycle | `syscalls.c`, `pcb.c`, `scheduler.c` | pcbs, parent and children, waiting queue | `Fork`, `Exit`, `Wait`, `Delay`, clock |
| sleeper heap | `scheduler.c` | array heap ordered by `wake_up` | `put_to_sleep`, `wake_sleepers` |
| object tables | `synchronization.c` | table, size, open index (locks; cvars) | `new_*`, `delete_*`, growth, shrinking |
| locks, semaphores, cvars | `synchronization.c` | permits, holders, queues, `needed_by` | `LockInit`, `SemInit`, `CvarInit`, `Acquire`, `SemDown`, `Release`, `SemUp`, `CvarWait`, `CvarSignal`, `CvarBroadcast`, `Reclaim` |
| terminals | `tty.c` | line buffers, reader and writer queues | `TtyRead`, `TtyWrite`, receive and transmit interrupts |
| pipes | `pipe.c` | circular buffers, reader queues, table | `PipeInit`, `PipeRead`, `PipeWrite`, `Reclaim` |
| user memory | `user_memory.c` | region 1 page tables, `brk` | `Brk`, stack growth, fork copy, free |
| kernel memory, stacks | `kernel_memory.c` | region 0 page table, kernel break | `SetKernelBrk`, `KCCopy`, `KCSwitch` |
| program loading | `load_program.c` | page table of the caller | `Exec`: commit point and error paths |
| boot | `kernel_start.c` | all of the above | `KernelStart` |
| dispatch, argument checks | `interrupt.c`, `user_memory.c` | none | validate user pointers, call the service |

Interactions: every blocking service takes its caller off the processor with
`FullContextSwitch(get_next_process())` and gives it back with
`schedule_process`. `Wait` and `Delay` return through the clock handler
(`wake_waiters`, `wake_sleepers`), locks through `release`, condition variables
through `release` and `acquire` together, pipes through a write, terminals
through interrupts. All memory comes from frame tracking or the kernel heap,
and either can run out in the middle of an operation.

### What is hard here, and the properties that answer it

* *Long legal sequences.* `find_frame` scans from `next_free` only; tables are
  halved and doubled under an open index; pcbs are freed and reused under
  pointers from their parents. → `NoFreeFrameMissed`, `ImplementsPool`,
  `OpenIsLowestUnused`, `OneObjectAtATime`, `NoDanglingChild`, `NoPcbLeak`,
  `HeapOrder`, `ImplementsQueue`. Pipes' buffers wrap around, grow and are
  reused; brk, stack, fork and exec move frames between tables. →
  `ImplementsStream` (`Pipe`), `FramesConserved`, `ProgramIsWhole`.
* *Interleavings.* A permit passes from releaser to waiter while others acquire,
  wait on condition variables, exit or are preempted. → `PermitAccounting`,
  `PlacedOnce`, `WakesWithLock`, `NoBarging`. Writers of a terminal queue while
  its interrupts send chunks. → `ImplementsStream` (`Tty`). Readers of a pipe
  compete for a write. → `NoReaderBesideBytes`.
* *Stale state.* A signalled process re-acquires the lock id it stored when it
  went to sleep; the table slot could have been reclaimed and reused. What
  prevents it is that `needed_by` counts sleepers. → `NeededByExact`. A woken
  reader of a terminal does not look again whether there is a line
  (→ `OneReaderPerLine`); one of a pipe does, but its
  pipe may be gone (→ `OnlyWokenReadersLoseTheirPipe`).
* *Something must happen.* Waiting parents and sleepers are looked at only by
  the clock. → `EveryoneRuns`, `WaiterReturns`, `TickLeavesNoWaiter`,
  `NobodyStarves`, `HandlerEnds`, `EveryWriteReturns`, `BytesReachReaders`.
* *One step of several failing.* An allocation fails in the middle of `Fork`,
  `LockInit` or `Exec`. → `OpenIsLowestUnused` (with `NewFails`),
  `NoPcbLeak` and `TickLeavesNoWaiter` (with `unlisted`), `BrokenOnlyByRefusal`.
* *Order at boot.* The kernel allocates memory before and while it sets up the
  tables that must describe it. → `SoundWhenAgreed`.

`PROJECT.json` has the full list.

## 2. The modules

| module | models | composes |
|---|---|---|
| `FramePool` | what a frame allocator promises (abstract) | |
| `FrameTracking` | `frame_tracking.c`, and how boot uses it | implements `FramePool` |
| `ObjectTable` | the table handling shared by locks and cvars | |
| `RunQueue` | processor and main queue | |
| `Synchronization` | `synchronization.c` and its callers | `RunQueue`, two `ObjectTable`s |
| `SyncClient` | the cvar clients of `user/torture.c` | `Synchronization` |
| `Processes` | Fork, Exit, Wait, Delay, the clock | `RunQueue` |
| `SleepQueue` | what sleeping comes to (abstract); `Processes` relies on it | |
| `SleepHeap` | the array heap of `scheduler.c` | implements `SleepQueue` |
| `TtyStream` | what `TtyWrite` promises (abstract) | |
| `Tty` | `tty.c` and the terminal interrupts | `RunQueue`, implements `TtyStream` |
| `PipeStream` | what a pipe promises (abstract) | |
| `Pipe` | `pipe.c` and the pipe branch of `Reclaim` | `RunQueue`, implements `PipeStream` |
| `PageTables` | the free frames, region 0, and the page loops of both memory modules, as operators | |
| `AddressSpaces` | `user_memory.c`, `kernel_memory.c`, `load_program.c`: Fork, Exec, Exit, Brk, stack growth, the kernel's heap | `RunQueue`, `PageTables` |
| `Boot` | `kernel_start.c`, and region 0 from boot on | `PageTables` |
| `SynchronizationMC`, `ProcessesMC` | symmetry sets for TLC | |
| `QueueLemmas` | lemmas about sequences and about families of queues between which processes move | `RunQueue` |
| `AllocatorProofs` | theorems about the two that hand out the lowest free slot, `FrameTracking` and `ObjectTable` | both |
| `SleepHeapProofs` | theorems about the module it is named after | |
| `SynchronizationProofs` | theorems about `Synchronization`, its two tables and its clients (`SyncClient`) | |
| `ProcessesProofs`, `TtyProofs`, `PipeProofs` | theorems about the module they are named after | `QueueLemmas` |
| `AddressSpacesProofs` | theorems about `AddressSpaces`, and about `Boot`, whose page loops are the same | `AddressSpaces`, `Boot`, `QueueLemmas` |

Definitions keep the C names where there is one. Operators whose comment begins
with *Slip* are the plausible mistakes used as mutants; nothing else uses them.

**FrameTracking.** `frame_bitset[n]` is bit `n & 7` of byte `n >> 3`; `owned` is
a history variable, the frames that are out. `UP_TO_BYTE` is computed as the
code computes it. Bits whose byte lies past the allocation are the heap's:
`HeapNeighbour` may flip them at any time, and `calloc` does not clear them. Bit
`NUM_FRAMES` is in the model because `find_frame` reads it before it tests the
bound. The frames boot reserves are taken in increasing order, before any
`find_frame`. Those of the kernel's heap (`HeapFrames`) can be freed later, when
`SetKernelBrk` lowers the break; the others never are, and the kernel stack's, the
last to be taken, tell that boot is over. `free_frame` of a bad or free frame
changes nothing and is not a step.

**ObjectTable.** The state is the set of used indices, the size and the open
index. Growth copies `open_idx` entries into a zeroed block (`AfterGrowth`),
shrinking copies half. `calloc` fails beyond `MAX_ARR_SIZE` and may also fail
when a table would shrink (`DeleteInPlace`) and after it grew (`NewFails`).

**RunQueue.** `SwitchToNext(q)` is `get_next_process` and the switch;
`Preempt(q)` is the tail of the clock handler. The `state` field of a pcb is left
out: the kernel only ever reads `EXITED`.

**Synchronization.** One record per lock: `capacity`, `val`, `pids` (the C array
of holders as a set), `queue`, `needed_by`. `Acquired` and `Released` are the
entry after `acquire` and `release`; both are also called inside `CvarWait`,
`CvarSignal` and `CvarBroadcast` with `cvar_use`. A semaphore differs from a lock
in its capacity only. A broadcast is a loop that nothing interrupts: its rounds
are steps of the model, and `draining` keeps everything else out meanwhile. Any
process may name any index at any time and may exit at any time, holding
whatever it holds. Calls that return `ERROR` change nothing and are not steps.
A signal that finds nobody waiting is likewise no step. `Proc` are the processes
init forked; init itself only waits. Reclaiming a lock clears its entry in the
model at once; the code does so when the entry is next used, and nothing reads
it in between.

**Processes.** A member of `Proc` is a *block of heap* that can hold a pcb, so
freeing and reusing is visible; `parent` is a history variable telling who
really forked the process now in a block. `add_child_proc` may fail
(`GrowthMayFail`), and `KernelFork` goes on as the code does; the history variable
`unlisted` keeps the children it failed for, whose pcbs are never freed. `find_exited_child`
frees the first exited child, compacts the array and may halve it.
`trap_clock_handler` is one step: `wake_waiters`, `wake_sleepers`, reschedule.
`wake_up` is kept relative to the current tick. Abstracted: exit codes, memory
contents, the array heap (kept as "earliest first, ties in any order", which is
what `SleepQueue` says).

**SleepHeap.** The heap array with its length and size. The sifting loops and the
loop of `wake_sleepers` are modelled round by round, with `loop` and `i` as their
program counter and index; nothing else happens while one is under way. `due` is
`num_ticks + t` without overflow; `wake_up` is what an `int` makes of it. (Signed
overflow is undefined in C; the addition wraps around in what compilers make of
it.) `SleepQueue` states the promise of `headers/scheduler.h:22`, "sleep for a fixed
number of clock ticks", with exact sums. It leaves out the sleeps whose time an
`int` cannot hold (`Promised`), which the code ends at the next tick: nothing is
said of when those processes wake, and everything of the others, beside which
they lie in the heap.

**Tty.** One record per terminal: owner, size of the last chunk, writer queue,
lines, reader queue. (`transmitting` is set and never read.) A write blocks its
caller always and a read when there is no line; the rest of the call,
`WriteReturns` or `ReadReturns`, is a step of its own that must come first when the
process runs again (`InKernel` keeps everything else out). A line that is typed may be
empty: the code keeps whatever `TtyReceive` returns, wakes a reader for it and
drops the line when that reader has read its 0 bytes. The device is external:
it holds a chunk, puts it on the screen and interrupts. Bytes are identified by
call and offset, or by their number in the input, not by value. `calls`, `screen`,
`typed`, `delivered`, `taken` and `leftover` are history.

**Pipe.** The table, its size and open index, and per pipe the buffer with `cap`,
`head` and `len`; the indices are computed as in the code. `ensure_capacity` takes
the first doubling that is large enough. Doubling cannot overflow in the
system: buffered data is bounded by region 0. `inside` is a blocked call with the
index it kept. Bytes that have been read are forgotten at once, while the code
leaves them in the buffer: reading one again would show as `None`. `robbed` is
history: readers that had been woken, and had not run, when their pipe was
reclaimed.

**AddressSpaces.** A table maps pages to `[pfn, prot]`. `PageTables` says what the
loops over `alloc_page` and `dealloc_page` come to, using that `find_frame` returns
the lowest free frame (proved in `AllocatorProofs`): the n-th page gets the
n-th free frame, and an allocation that fails gives back what it took. As in the
code, `alloc_page` overwrites an entry that is already valid. The running
process's `sp` is the page of its stack pointer, which the program moves
(`Pops`, `Pushes`); a push below the mapped stack goes through `expand_stack`. In
`Fork`, the page a copy fails or faults at is the first for which there is no frame
or no source page (`Reached`). `KernelExit` stands also for the ends of a process by
a trap and by an Exec that returns `KILL`. `fault` is what the kernel itself faulted
on, after which nothing happens: a missing page of the caller's stack in Fork
("page"), the pcb that `create_new_pcb` did not get ("pcb"), the kernel stack of the
process it switches to ("switch"), or a user's pointer ("pointer"). The last is
`StoresThroughPointer`: `Wait` (`syscalls.c:144`, `:148`), `PipeInit` (`pipe.c:71`) and
`LockInit`, `SemInit` and `CvarInit` (`synchronization.c:207`, `:227`, `:246`) store their result
through a pointer that is compared with NULL at most, so a program that passes a page
that is not mapped or not writable stops the kernel. (A pointer into region 0 would
overwrite the kernel's own memory; as the contents of pages are left out, that is
not in the model.) `refused`, `stackless` and `overgrown` are
history. `refused[p]` are the pages of `p`'s stack that there was no frame for when `p`
last needed them, in `expand_stack` or in an Exec that returns `ERROR` after it has
set the new stack pointer; a page that is served later leaves the set. `stackless`
are the processes whose kernel stack `KCCopy` could not make. `overgrown`: a heap was
grown onto mapped stack pages, or its break stood on one during Fork. malloc may return NULL only when
`SetKernelBrk` would refuse (`MallocMayFail`). Idle's tables and page contents are
left out.

**Boot.** The steps of `KernelStart` in order (`done` counts them). malloc is
external: each initializer may move the end of the heap or find enough room.
`old_end` and `agreed` are history. The initializers' own results are ignored by
`KernelStart`, and no failure of theirs is modelled. `SetKernelBrk` and `KCCopy` are
`BootSetKernelBrk` and `BootKCCopy` here: `AddressSpaces` has them for a kernel that
runs, over the heap alone.

## 3. Runs

| run | module / cfg | instance | result |
|---|---|---|---|
| `frames` | `FrameTracking` / `FrameTrackingMC` | 16 frames, base 2, 8 kernel frames in three groups, one of them the heap's | pass |
| `frames_short_bitset` | `FrameTracking` / `FrameTrackingShort` | 24 frames | **violation** |
| `tables` | `ObjectTable` / `ObjectTableMC` | 3 entries, at most 12 | pass |
| `sync` | `SynchronizationMC` | 4 processes, tables 1 → 2, capacities 1 and 2 | pass |
| `sync_client` | `SyncClient` / `SyncClientMC` | 2 Bouncers, 2 SonarGals | pass |
| `processes` | `ProcessesMC` | init and 3 blocks, delays up to 2, growth may fail | pass |
| `process_liveness` | `Processes` / `ProcessesLive` | init and 2 blocks, growth may fail | pass |
| `sleep_heap` | `SleepHeap` / `SleepHeapMC` | 5 processes, array 2, delays 1–3, 3 ticks, `INT_MAX` 4 | pass |
| `tty` | `Tty` / `TtyMC` | 3 processes, 3 writes of 3 bytes, 2 typed lines of 0 or 2, reads of 1 and 3 | pass |
| `pipe` | `Pipe` / `PipeMC` | 3 processes, table 1 → 2, buffer 2 → 4, writes of 1 and 2, reads of 1 and 3 | pass |
| `memory` | `AddressSpaces` / `AddressSpacesMC` | 2 processes, 9 frames, 7 pages | pass |
| `boot` | `Boot` / `BootMC` | 18 frames, growth by up to 2 pages | pass |

The type invariants of `FrameTracking`, `ObjectTable` and `Synchronization` are
proved (section 4) and in no run.

Why the bounds are enough:

* 16 frames fill two bytes exactly, so the bit read past the end lies outside
  the bitset; reserving kernel frames in several groups leaves holes below, between
  and above them, and one of them, at the end of a group, comes back; nine frames exhaust and refill memory in every order.
* 3 → 6 → 12 and 3 → 1 → 2 → 4 → 8 takes the table through odd halves, through the
  size 1 that must not shrink, and through re-growth.
* Four processes allow a holder, a queue of two (so that order and hand-over
  matter) and a signaller; two locks with two cvars let a sleeper's lock differ
  from a re-created one; a table of one entry grows and shrinks in every trace
  with two objects. `MAX_ARR_SIZE`, `Capacity` and `MaxDelay` are the named bounds.
* Three blocks besides init allow grandchildren, a freed and reused block beside
  a live one, and an array of children that grows 1 → 2 → 4.
* Five sleepers give a heap of three levels with a last level that is not full,
  in every order of ages and ties, and an array that goes 2 → 4 → 8 → … → 1.
  `MaxTick` is the longest delay. With `INT_MAX` = 4 the sum for a delay of 3 from
  tick 2 on overflows, beside sleepers whose sums do not.
* Terminals: an owner and two waiting writers make the order of hand-over matter;
  a text of a line and a half goes out in two chunks of different sizes. Three
  readers are one woken, one blocked and one that comes by in between; a line of
  two is left half read, an empty one is used up by any read, and two lines wake two
  readers. Terminals share only the
  processes, each of which is inside one call at a time, so one terminal is
  enough. `MaxWrites` and `MaxLines` bound the histories.
* Pipes: a buffer of two wraps at once and grows to four while wrapped; two byte
  values show any change of order; three processes are a woken reader, a second
  one or a writer, and one that reclaims and makes the pipe anew, any number of
  times. Pipes at index 1 are made, blocked on and reclaimed, but not written to:
  no call looks at the bytes of two pipes. `MAX_PIPES`, `MaxBytes` and `Written` are
  the named bounds.
* Memory: two processes with kernel stacks of a page and a program of three pages
  each take 8 of 9 frames, so frames run out inside Fork, Brk, `expand_stack`, Exec
  and the kernel's heap, and come back with Exit and shrinking. Seven pages leave
  four for heap and stack to meet in, which is enough for a stack of three that
  shrinks and a heap that grows over it. Programs with stacks of one and of two
  pages let an Exec that fails leave a stack pointer that is not the caller's.
* Boot: three places where malloc may move the break, by 0, 1 or 2 pages, before
  and after `init_kernel_brk`, `init_region0_pt` and `enable_vm`.

Deadlock is checked except in the `Processes` runs, where the machine stops when
init exits, in the `SleepHeap` run, which stops at `MaxTick`, and in the
`AddressSpaces` run, where it stops when the kernel faults.

### Fairness

* `WF(trap_clock_handler)`: the hardware clock keeps interrupting, and the
  handler can always run. Nothing is assumed of user processes in `Processes`: a
  process may run for ever, and the properties hold all the same.
* `SyncClient` adds `SF` of each client's next step: a process that gets the
  processor again and again executes its instructions and reaches its next call.
  Weak fairness would say nothing, as every tick disables the step.
* `Tty` and `Pipe` assume the clock, that a process switched to inside a call
  finishes it (`Resume`, `ReadGoesOn`: kernel code that nothing interrupts), and,
  for terminals, that the device ends every transmission with its interrupt.
  Nothing is assumed of programs or of who types.
* `WF(KernelStep)` in `SleepHeap`: the kernel does not stop inside its own loops.

### Where the code departs from its comments

`frames_short_bitset` is a run of its own: `BYTE_MASK` (`frame_tracking.c:7`) is
`~BYTE_SIZE` (clears bit 3) where rounding up needs `~BIT_OFFSET` (clears bits
0–2), so half of all memory sizes, for example 24 frames, get a bitset one byte too
short. The comment "The frame bitset represents which physical frames are free or
in use" (`frame_tracking.c:20`) is then not true of the last frames, whose bits
are other heap data. The theorems below state the assumption `BitsetCovers`.

The other departures are in the models as the code has them. For most, a history
variable records that one has happened and to whom, and the property that the
comment suggests holds *except* then: the property does not catch the departure, it
shows that there is no other way in and how far its effect reaches. Two are
steps of the model that no property excludes.

| where | what the code does | what it says | the property with its exception |
|---|---|---|---|
| `syscalls.c:135` | `KernelFork` ignores that `add_child_proc` returned false: the child runs unlisted, its exit wakes no waiting parent, and its pcb is never freed | "Wake up any processes blocked waiting for a child to exit" (`scheduler.c:83`) | `TickLeavesNoWaiter`, `NoPcbLeak`, `WaiterReturns`: not for `unlisted` |
| `scheduler.c:104` | `num_ticks + t` overflows for a large `t`, and the process is woken at the next tick | "Put the current process to sleep for a fixed number of clock ticks" (`headers/scheduler.h:22`) | `ImplementsQueue`: not for a process whose time is past `INT_MAX`, and for all others beside it |
| `pipe.c:146` | a reader that a write has woken has left the pipe's queue; until it runs the pipe can be reclaimed and its index reused, and the read fails or goes on with another pipe | "Readers still blocked, cannot reclaim" (`pipe.c:145`) | `OnlyWokenReadersLoseTheirPipe`: not for `robbed` |
| `user_memory.c:57` | Brk is checked against the stack pointer's page; a stack that has shrunk is still mapped, the heap grows over it and `alloc_page` overwrites entries whose frames then stay in use for nothing | `frame_tracking.c:20`, quoted above | `FramesConserved`: not when `overgrown` |
| `syscalls.c:137` | `KCCopy`'s failure is ignored when the child is already scheduled; the child has no kernel stack | "The kernel stack mappings are copied into the child PCB" (`kernel_memory.c:105`) | `BrokenOnlyByRefusal`: not for `stackless` |
| `syscalls.c:124` | `create_new_pcb`'s NULL goes to `UCCopy`: one process's use of memory stops the kernel | "maintains isolation even under heavy memory load" (`src/README.md:3`) | none: `ForkWithoutPcb` is a step of the model |
| `user_memory.c:97` | `expand_stack` ignores that frames ran out; a Fork then copies a stack page that is not there | "maintains isolation even under heavy memory load" (`src/README.md:3`) | `BrokenOnlyByRefusal`: not for the `refused` pages |
| `load_program.c:126` | after the new stack pointer is set, a failed malloc makes Exec return `ERROR` to the old program | "committed to either loading succesfully or killing the process" (`load_program.c:112`) | `BrokenOnlyByRefusal`: not for the `refused` pages |
| `syscalls.c:144`, `:148`, `pipe.c:71`, `synchronization.c:207`, `:227`, `:246` | results are stored through user pointers that are not checked | "maintains isolation even under heavy memory load or user error" (`src/README.md:3`) | none: `StoresThroughPointer` is a step of the model |
| `kernel_start.c:47`, `:54` | heap that malloc took before `init_kernel_brk`, or between `init_region0_pt` and `enable_vm`, is not mapped unless a later move of the break covers it; it depends on when the library's malloc extends its heap | "Initialize region 0 page table entries for kernel text, data, and stack" (`kernel_memory.c:34`) | `SoundWhenAgreed`: only when `agreed` |

## 4. Proofs

| theorem | says | rests on |
|---|---|---|
| `AllocatorProofs!TypeCorrect` | `TypeOK`, for every memory size, covered or not | inductive as it stands |
| `AllocatorProofs!NoFrameIsMissed` | `NoFreeFrameMissed` when the bitset covers the frames | `TypeOK`, `NeighbourLeavesFrames` |
| `AllocatorProofs!FrameTrackingImplementsPool` | the allocator implements `FramePool` | `BitsetIsOwned` and `NoFreeFrameMissed` |
| `AllocatorProofs!OpenIndexCorrect` | `OpenIsLowestUnused`, all sizes | `TableTypeOK` and the property itself |
| `AllocatorProofs!ObjectsSurviveResizing` | `OneObjectAtATime`, all sizes | the same, `GrowthCopiesAll` |
| `SynchronizationProofs!TablesStayOrdered` | `OpenIsLowestUnused` of both tables, in `Synchronization` | `TablesOK` |
| `SynchronizationProofs!SyncTypeCorrect` | `TypeOK` of `Synchronization`, any processes, capacities and table sizes | one lemma per helper |
| `SynchronizationProofs!PermitsAddUp` | `PermitAccounting`, any processes, capacities and table sizes | `IInv` = `TypeOK`, `SepInv`, `PermitInv` |
| `SynchronizationProofs!NobodyOvertakes` | `NoBarging`, the same | the same `IInv` |
| `SynchronizationProofs!CountsAreExact` | `NeededByExact` | `FullInv` = `IInv`, `NeedInv`, `AliveInv` |
| `SynchronizationProofs!EverybodyPlacedOnce` | `PlacedOnce`: no signal loses a process | `FullInv`, `SleeperCanAcquire` |
| `SynchronizationProofs!NobodyWakesWithoutLock` | `WakesWithLock`, an action property | `FullInv` |
| `SynchronizationProofs!ClientsExcludeEachOther` | `RunsHoldingMutex`, any number of clients | `FullInv` and `HoldInv` |
| `SleepHeapProofs!TypeCorrect` | `TypeOK`: all sleepers fit the array | `IInv` |
| `SleepHeapProofs!HeapStaysOrdered` | `HeapOrder` | `IInv`: one form of the order for each loop |
| `SleepHeapProofs!HeapImplementsQueue` | the heap implements `SleepQueue` | `IInv`, `FirstIsEarliest` |
| `AddressSpacesProofs!TypeCorrect` | `TypeOK` of `AddressSpaces` | `IInv` |
| `AddressSpacesProofs!FramesAreConserved` | `FramesConserved` | `FramesOK`: all tables as one memory |
| `AddressSpacesProofs!BrokenByRefusal` | `BrokenOnlyByRefusal` | `ProcessesOK`, `FaultOK` |
| `AddressSpacesProofs!ProgramStaysWhole` | `ProgramIsWhole` | `ProcessesOK` |
| `AddressSpacesProofs!KernelStartIsSound` | `SoundWhenAgreed` of `Boot`, any layout | `StartInv` = `StartOK`, and `RegionOK` when agreed |
| `PipeProofs!TypeCorrect` | `TypeOK` of `Pipe`: the bytes of a pipe always fit its buffer | `new_cap` is the first doubling that is large enough |
| `PipeProofs!OpenIsLowest` | `OpenIsLowestUnused` | `TableInv` = `TypeOK`, the property and `Clean` |
| `PipeProofs!NobodyWaitsBesideBytes` | `NoReaderBesideBytes` | `IInv` |
| `PipeProofs!EverybodyPlacedOnce` | `PlacedOnce` | `Placed` |
| `PipeProofs!OnlyReadyReadersLose` | `OnlyWokenReadersLoseTheirPipe` | `Reading` and `Placed` |
| `PipeProofs!PipeImplementsStream` | the circular buffer implements `PipeStream` | `IInv`, what reading and growing do to the bytes |
| `ProcessesProofs!TypeCorrect` | `TypeOK` of `Processes` | `QueueType` and `FamilyInv` |
| `ProcessesProofs!ChildPointersHold` | `NoDanglingChild` | `FamilyInv` |
| `ProcessesProofs!PcbsAreFreed` | `NoPcbLeak` | `FamilyInv` |
| `ProcessesProofs!EverybodyPlacedOnce` | `PlacedOnce` | `Placed` |
| `ProcessesProofs!TickServesEveryWaiter` | `TickLeavesNoWaiter`, an action property | `IInv` |
| `TtyProofs!TypeCorrect` | `TypeOK` of `Tty` | `Sending`: a waiting writer has sent nothing |
| `TtyProofs!EverybodyPlacedOnce` | `PlacedOnce` | `Placed` |
| `TtyProofs!BytesInOrder` | `InputInOrder` | `IInv` |
| `TtyProofs!LinesMeetReaders` | `OneReaderPerLine` | `Counted`, `Reading` |
| `TtyProofs!TtyImplementsStream` | the terminals implement `TtyStream` | `Writing` |

All of them hold for any set of processes (finite where processes are counted),
any table sizes, buffers, texts and lines.

The refinement proof needs both invariants at once: `BitsetIsOwned` shows that
the frame the scan finds is not out, so the step is an `Allocate`; when the scan
finds none, `NoFreeFrameMissed` covers the frames below `next_free` and the scan
itself those above, so all of them are out and the step is `Exhausted`.

`GrowthCopiesAll` is where the open index matters: a table grows only when the
open index is its size, and then everything below it is in use, so copying
`open_idx` entries copies all.

`PermitAccounting` is not inductive. `release` hands its permit to the head of
the lock's queue; the number of holders stays the same only if the head is not
a holder already. So `PermitInv` adds that holders and queue are disjoint. That
in turn is kept by the hand-over only if the head is not in the queue a second
time, and this can be shown only for all the kernel's queues together, because
processes move between them: `SepInv` says that no queue has a process twice, no
two queues share one, and the running process is on none. Its proof treats the
queues as one family and every action as a composition of four moves with a
lemma each (`Take`, `Put`, `Clear`, `Dispatch`). `NoBarging` follows from `val = 0`
beside a queue.

`NeededByExact` and `PlacedOnce` need each other. `signal` takes a process off the
condition variable and calls `acquire` for the lock it came with; if that lock had
been reclaimed, `acquire` would refuse and the process would be on no queue at
all. `delete_lock` refuses while `needed_by` is not zero, so an exact count keeps the
lock there (`SleeperCanAcquire`), and the count is exact because nobody leaves a
condition variable in another way. `NeedInv` says this for every index, used or
not: unused entries have nobody on them (`UnusedInv`), the count of each lock is
the number of its holders, of those on its queue and of the sleepers that named it
(`CountInv`), and nobody sleeps with the lock it will need (`SleepInv`). `AliveInv` adds that the processes on queues are
exactly those that have not exited. For the clients of `torture.c`, `HoldInv` follows
each through its program: past its `Acquire` it is a holder of the mutex, on its
queue, or asleep on the condition variable with the mutex named; as the mutex
has one permit, whoever runs there is the only holder. `TablesStayOrdered` carries
the order of a single table over to the two instances of `ObjectTable`: what
`Synchronization` does to them are steps of a table.

*SleepHeap.* The sifting loops are argued about on the wake-up times in the array
(`Keys`). Between the loops they are in order; in `add_to_heap`'s loop they are
except between the moved entry and its parent, in `remove_from_heap`'s except between it
and its children, and in both its parent is no later than its children
(`Spans`), without which a swap could break the order elsewhere. `SwapUp` and
`SwapDown` say that one round moves the exception along, `UpEnds` and `DownEnds` that the
loop's exit leaves none. `Distinct` and `Filled` say that the entries in the heap are
processes, each once: this is why changing the `due` of one process moves no
other entry's time, and why a removal removes one sleeper. The refinement is then
a matter of `FirstIsEarliest`: if some entry were earlier than the first, the one
of those with the least index would be earlier than its parent, a smaller index.
For a process that is `Promised`, `wake_up` and `due` are the same, and one that is not is
no entry that `Wake` or `Done` of `SleepQueue` looks at. `remove_from_heap` is `Wake`, the end of `wake_sleepers` is `Done`, and the
rounds of the loops and the halving of the array change nothing `SleepQueue` sees.

*AddressSpaces.* The page loops are operators that name the frame of the n-th page by its
rank. `FrameFacts` says what that comes to: if there are enough frames, every page
gets a free frame and no two the same one. With this every
action is a sequence of replacements of one table, and since frames move between
the tables of several processes, their kernel stacks and the kernel's heap, the
invariant treats all the tables as one `Memory`: `Isolated` (no frame in two
entries, or in one and free) is kept by a `Fill` from the free frames and by a `Drop`
into them; `Covered` (no frame lost) by a `Fill` of entries that were empty, which
is where `overgrown` comes in. `ProcessesOK` has for each process its program and
its stack; the stack part (`StackOK`) is stronger than the property, as pages a stack
has left behind stay mapped and are relied on when it comes back: above any page
mapped outside the program, and not only above the stack pointer, all that is
missing is in `refused`; and a stack pointer is at or below the break only when its
page was refused, after an Exec that failed.

*Boot.* Before VM is enabled, a move of the heap makes `agreed` false for good, so
`RegionOK` has to be shown of `init_region0_pt`, where each page gets the frame of its
own number, and of the steps after it. It says more than the property: the mapped pages are
*exactly* those in use, which is why a heap that grows, and the pages `BootKCCopy` uses
for a moment, never meet a valid entry; and `old_end` is never above the
heap's end, so pages gained after VM was enabled are not among those that must
be in place.

The other proofs share the way of treating queues. In the proofs of `Pipe` and
`Tty`, `Placed` says that the queues, as one family, are `Separate` (`QueueLemmas`) and
that every process is on one of them or running; in that of `Processes`, which has
two queues and the sleepers, it says the same of these directly, for the live ones. `PlacedOnce`
counts places and says nothing about which queue a step takes from; it follows
from `Placed` (`OncePlaced`), not the other way round. The owner of a terminal is a
queue of at most one process in this family.

*Pipe.* `Clean` says that an entry not in use is empty and nobody queues on it,
without which `PipeInit` could hand out a pipe with old readers. `Reading` says that
those who queue on a pipe are inside a read of it. The refinement maps the buffer
to the bytes from `head` on, modulo `cap` (`Bytes`); the proof's lemmas say that
`WriteStep` appends to it, `ReadBytesTakesFront` drops from its front, and that
`ensure_capacity` leaves it as it is when it unrolls the buffer. That the doubling
reaches a size that is large enough is `DoubledGrows` (the k-th size exceeds k) and
`NewCapFits`; the first such size exists by the least-number principle (`LeastNat`
in `QueueLemmas`), which stands in for induction wherever a *set* of numbers can
express what is needed.

*Processes.* `NoDanglingChild` and `NoPcbLeak` say what a parent's list means;
neither is kept without the other, and `FamilyInv` joins them with the types (the
array has room for the list), with `init` being alive, and with nobody being its own
parent, so that an exit which changes a list and a parent changes two blocks. `TickLeavesNoWaiter` is then a fact about one step:
`wake_waiters` visits the whole queue, and what it leaves on it has no listed
child that has exited.

*Tty.* Writing: `Sending` says, with a number `d` of writes already sent, that write
`d + 1` is the owner's, that of its text exactly `sent` bytes are on the screen
and the next chunk is at the device, and that the later writes are those of the
waiting writers in their order, none of which has sent anything. This is what makes
every transmit interrupt a `Show` of `TtyStream`, which knows neither owner nor queue,
only the last byte on the screen. A write that returns is that of the running
process, which by `Placed` is neither owner nor waiting, so all its writes are
among the first `d`. Reading: `OneReaderPerLine` is not inductive; `Counted` bounds
the lines by the woken readers while others wait and nothing was left over, and
`Reading` says that those on a reader queue are in a read of that terminal, so that
waking one of them makes it one of `Woken`.

Assumptions are only those on the constants (`FrameAssumption`,
`TableAssumption`, `BootAssumption`, `IdleAssumption`, `SyncAssumption`, `ClientAssumption`, `PipeAssumption`,
`ProcessAssumption`, `TtyAssumption`, `HeapAssumption`, `SpaceAssumption`,
`NoneAssumption`) and, where stated in the theorem, `BitsetCovers`. They
say that sizes are positive, that the kernel's text, data, heap and stack lie in that order in real memory, that `None` and `Idle` are no processes and `None` is no
valid page table entry, that delays and ticks are within an `int`, and that the
processes are finitely many; TLC evaluates them in the runs.

Two definitions are written so that they can be reasoned about: `Selected` in
`Processes` (the members of a queue that satisfy a condition, in their order)
and `new_cap` in `Pipe` (the first of the doubled sizes that is large enough)
say by a condition what the loops compute, where a recursive definition would
need induction over data, which the prover lacks. TLC evaluates both in the runs.
`TtyStream` likewise says what may appear next by the last byte on the screen
(`Turn`, `Offset`).

Only model-checked: liveness (fairness and `ENABLED` are beyond the prover):
`EveryoneRuns`, `WaiterReturns`, `NobodyStarves`, `HandlerEnds`, `EveryWriteReturns`,
`BytesReachReaders`. Every invariant, action property and refinement that a
passing run checks is also a theorem.

## 5. How the project grew, and what is left

The order was: frames, tables and synchronization; process life cycle and
sleepers; terminals and pipes; memory and boot; and for each the type invariant,
then the invariant that the hazards point at, then the refinement. Each inductive
invariant was first checked by TLC on the instance of its run.

Every component that keeps state is modelled, and every safety property is proved.
What could be added:

1. A composition of `Processes` with `SleepHeap` instead of the abstract sleepers;
   `SleepHeapProofs!HeapImplementsQueue` is the step that justifies the abstraction.
2. Liveness proofs, once the prover has fairness.
3. The identifier macros, if identifiers of several kinds are ever mixed up.

## 6. Not modelled

* Argument checks (`check_c_string`, `check_argv`, `check_c_buf`, `has_perms`) read
  page tables and user memory and change nothing; what they refuse is no step. They
  are called for Exec, and for the buffers of terminals and pipes; the calls that
  have no such check are `StoresThroughPointer` in `AddressSpaces`.
  Dispatch itself, `trap_kernel_handler`, is the choice between the actions.
* The identifier macros: the modules use the table index inside an identifier; an
  identifier of the wrong kind is refused.
* Parsing executables and reading files (I/O), trace output, the machine's own
  code outside the repository, contents of pages, and
  `IO_BLOCKING_QUEUE`/`io_block_process`, which nothing calls.
* User programs, except the condition-variable clients of `torture.c`: in the other
  models a process may make any call at any time, which includes what the test
  programs do.
* That a process which exits while it holds a lock never releases it is in
  `Synchronization` (`KernelExit` keeps the holders), but nothing in the repository
  says otherwise, so there is no claim to check.
