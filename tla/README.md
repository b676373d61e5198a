# TLA+ model of the OS simulator

The repository simulates a small multiprocessor operating system: CPU threads
take processes from a multi-level ready queue and run one instruction per time
slot, a loader thread adds processes at their start times, a timer thread keeps
everybody in step, and a paging memory manager serves the instructions. This
directory holds TLA+ modules of its concurrent and its algorithmic parts, TLC
configurations that check them on small instances, and proofs checked by TLAPS.

The headers of the program (`mm.h`, `queue.h`, `common.h`, ...) are not in the
repository. Their constants (`MAX_PRIO`, `MAX_QUEUE_SIZE`, `PAGING_PAGESZ`, ...)
are CONSTANTS here; nothing depends on their values. The configuration that
builds, `MLQ_SCHED` and `MM_PAGING`, is the one that is modelled.

## Inventory

| Part | State | Operations | Talks to |
|---|---|---|---|
| Timer, `timer.c` | `_time`, `dev_list` with `done`, `fsh`, two mutexes and two condition variables per device, `timer_started`, `timer_stop` | `attach_event`, `start_timer`, `timer_routine`, `next_slot`, `detach_event`, `current_time`, `stop_timer` | every thread |
| CPU threads, `os.c cpu_routine` | `proc`, `time_left` | fetch, finish, put back, dispatch, run, end the slot, stop | scheduler, timer, `run` |
| Loader thread, `os.c ld_routine` | `i`, the flag `done` | wait for the start time, add, set `done` | scheduler, timer |
| Scheduler, `sched.c` | `mlq_ready_queue`, `slot`, `running_list`, `queue_lock` | `get_proc`, `put_proc`, `add_proc`, `init_scheduler` | CPUs, loader, killall |
| Queue, `queue.c` | bounded array | `enqueue`, `dequeue`, `dequeue_running`, `empty` | scheduler, `os.c:67`, killall |
| Memory library, `libmem.c` | `symrgtbl`, free list, `mmvm_lock`, FIFO list | `liballoc`, `libfree`, `libread`, `libwrite` and below | `run`, killall |
| Area, page table, `mm-vm.c`, `mm.c` | `vm_end`, `sbrk`, `pgd` | `inc_vma_limit`, `vm_map_ram`, `alloc_pages_range`, `vmap_page_range` | library, system call 17 |
| Physical memory, `mm-memphy.c` | free frame list, storage | `MEMPHY_get_freefp`, `MEMPHY_put_freefp`, read, write | all memory code, all processes |
| Loader of programs `loader.c`, instructions `cpu.c` | pcb, `avail_pid`, `pc` | `load`, `run` | `os.c` |
| System calls, `syscall.c`, `libstd.c`, `sys_*.c` | none | dispatch, memmap, killall, listing | `run` |

What is hard in it:

- **Threads and locks.** The timer protocol uses two mutexes and two condition
  variables per device for one flag; the scheduler is called by all CPUs and the
  loader; `done` and `_time` are read without a lock; `running_list` is changed
  both with and without `queue_lock`; one mutex serialises all memory calls.
- **Decisions from stale reads.** `cpu_routine` uses what `get_proc` returned, and
  `done`, one after the other; its `time_left` outlives the process it was for.
- **Partial failure.** An allocation may fail after it has taken frames and moved
  the limits of the area.
- **Long sequences.** Regions are split, merged, freed twice, allocated again;
  quotas of the ready queue run out and are reset.

What makes each part correct: the timer is a barrier (nobody enters slot *t+1*
while somebody works in slot *t*), loses no wake-up and ends; a process is in one
place at a time, is never lost, gets whole quanta and its turn; the loader is on
time; CPUs that stop leave no work behind, and do stop; the address space of a
process is partitioned into regions, frames are conserved, and programs see
private memory that keeps what they write; every library call returns.

`PROJECT.json` lists the hazards one by one with the properties that cover them.

## Modules

| Module | What it is | Code |
|---|---|---|
| `SlotClock` | abstract: the barrier `timer.c` promises | `next_slot`, `detach_event`, `timer_routine` as seen by a device |
| `Timer` | `timer.c` and the part of `main` that starts and stops it | one action per critical section; `pthread_cond_wait` is falling asleep and waking up |
| `TimerProofs` | inductive invariant, safety theorems, refinement of `SlotClock` | |
| `Mlq` | ready queue and quotas, one step per operation (all run under `queue_lock`) | `sched.c`, `queue.c` |
| `MlqService` | `Mlq` under processes that never end | who is served, how late |
| `MlqServiceProofs` | how many others the quotas serve before a process that waits | |
| `Kernel` | CPU threads and loader over `Mlq` and `SlotClock` | `os.c`, `run`, `load` |
| `KernelProofs` | safety theorems about `Kernel`; no process is lost, nothing is left behind, if the queues have room | |
| `RunningList` | `Kernel` with `running_list`: one step under `queue_lock`, the steps of its loops at os.c:67 | `dequeue_running`, `sched.c`, `os.c` |
| `RunningListProofs` | the list disturbs nothing of `Kernel`, and is exact until two threads use it at once | |
| `Killall` | `RunningList` with a program that calls `killall` | `sys_killall.c`, `run` as a read and a store of `pc` |
| `KillallProofs` | who is stopped, who is freed, and what happens to queues and list until the named events | |
| `ProcessMemory` | abstract: private regions; what each call does to the bytes of one of them, and to nothing else | the `lib*` calls and `memmap` as seen by a program |
| `FramePool` | abstract: who asks for a number of frames gets as many that nobody has, or none if there are fewer | `alloc_pages_range` as seen by its caller |
| `Memory` | regions, free list, area, page tables, frames, bytes | `libmem.c`, `mm-vm.c`, `mm.c`, `mm-memphy.c` |
| `MemoryProofs` | partition, merging, frames, mapping; refinement of `ProcessMemory` | |
| `MemLock` | `mmvm_lock`: who gives it back; the free frames it protects, one step per read and assignment of the list head | `libmem.c`, `mm.c`, `mm-memphy.c` |
| `MemLockProofs` | frames are held once, requests are granted in full or refused (refinement of `FramePool`), until a `memmap` races | |
| `Swap` | page replacement, for programs that reach any page | `pg_getpage`, `find_victim_page`, page table entries, swap frames |
| `SwapProofs` | the FIFO list, the frames of RAM and swap device, and why no page comes back | |
| `MC*` | instances for TLC | |

Composition: `Kernel` extends `Mlq` and instantiates `SlotClock` on the devices
"CPUs and loader"; `Timer` implements `SlotClock`, which is what justifies using
the clock's three actions in `Kernel` in place of the lock protocol. `RunningList`
extends `Kernel` and `Killall` extends `RunningList`: each adds variables and splits
steps of the one below. `Memory` implements `ProcessMemory`; `MemLock` implements
`FramePool`, and so justifies that `Memory` takes or puts back all frames of a call in
one step.
`Swap` is what `Memory` is without: accesses outside the regions. The memory
modules are independent of `Kernel`: `cpu_routine` ignores the result of an
instruction, and only an instruction that never returns (see `MemLock`) could
disturb it.

A definition with an underscore and a verb or adjective after the name of another
one (`HasLeft_Miscounted`) is a faulty variant. No action uses it. It is
substituted for the right one to see that the property named in `PROJECT.json`
is then violated.

### Correspondence worth knowing

- `Timer`: devices are numbered in the order of `attach_event`. Since it prepends,
  the list is N, N-1, ..., 1 and `temp->next` is `temp - 1`; 0 is NULL. A signal
  reaches a thread only if it sleeps (`eventSignal`, `timerSignal`), and a sleeper
  may wake up at any time. `done` is cleared under another mutex than the one it
  is set under; as every section touches the flag of one device once, sections
  are single steps all the same. `slot[d]` is a history variable.
- `Kernel`: labels are "check" (top of the loop), "refetch" (the `get_proc` after a
  finished process or a put back), "recheck" ("Recheck process status"), "end_slot"
  (a `next_slot`). An idle CPU goes from "check" to "end_slot" and back (os.c:60-63).
  `get_proc`, `put_proc`, the test of `done` and `next_slot` are separate steps.
  `running_list` is left out: nothing in `Kernel` reads it (see `RunningList`). A
  program is its number of instructions. `ran` and `addedAt` are history variables.
- `MlqService`: `passed` is a history variable; it counts the processes served while
  one waits, up to one more than the bound `MostPassed` that `WaitBounded` states.
- `Kernel`'s clock stops counting at `MaxTime`, after which the loader reads it no
  more; slots still end.
- `RunningList`: `dq[c]` is where CPU c is in the unlocked `dequeue_running` of os.c:67:
  looking for its process, moving the entries behind it, dropping the last. Every
  step reads the size of the list again. Entries are compared by pid in the code,
  by process here. `raced` is a history variable: another CPU used the list
  meanwhile.
- `Killall`: one process is the caller, at one instruction of its program; `named` is
  the set of processes whose path contains the name. `run` reads `pc` (`ReadPc`) and
  stores the next value later; for `proc->pc++` the build may store the value it
  read plus one or read `pc` again, so both are outcomes (`NextPc`). The walk ends at
  the first match in each list, and each entry is one step. The operations of
  `sched.c` stay single steps. A step on a pcb that was freed reads what was in it.
  `killed`, `steps`, `before`, `midway` and `disturbed` are history variables: `midway`
  holds the processes whose CPU was between the read and the store of `pc` when
  `killall` stopped them, `disturbed` says that a ready queue was used under
  `queue_lock` while `killall` was removing from one.
- `Memory`: `named` is the set of identifiers whose entry of `symrgtbl` holds what an
  allocation (or `init_mm`, for 0) put there; the others are uninitialised
  memory. `lost` is a history variable: addresses of regions whose identifier was
  allocated again, and of what a program gained by growing its area itself
  (`IncLimit`, `memmap` with `SYSMEM_INC_OP`). `call` is a history variable too: the call
  served last, with its arguments and its result (the byte read or written, or what an
  allocation returns). It is part of what `ProcessMemory` specifies, so that each step of
  `Memory` has to be the abstract step of the same call. Programs access bytes inside
  their regions only; the code does not check that they do.
- `MemLock`: the calls a program can make are told apart by whether the identifier is
  in range, which decides whether the mutex is given back (`Unlocks`). `MEMPHY_get_freefp`
  reads the head of `free_fp_list` in one step and assigns it in another, and so
  does `MEMPHY_put_freefp`; `fp` is what was read, `req_pgnum` the frames asked for.
  `memmap` of a program comes here without the mutex; `raced` is a history variable, and `MemmapBound` stops the
  `memmap` calls at the first race, where the properties stop too.
- `Swap`: regions are left out, a process has a number of pages and can reach every
  page of its table. The frame number that the bits of a swapped entry show depends
  on masks of a missing header: any frame. The page table is taken to come zeroed
  from `malloc`. `unset`, `stale`, `remapped` and `dropped` are history variables, each
  an event after which one of the properties no longer holds: a victim from an empty
  list, a victim that was not in RAM, an area that grew over a page with an entry (one
  that was accessed beyond the area before), an access that found the swap device full.

## Runs

| Run | Instance | Shows |
|---|---|---|
| `timer` | 3 devices, 4 slots | barrier, no lost wake-up, termination, refinement of `SlotClock` with its fairness |
| `mlq_service` | 3 priorities, 3 endless processes, 2 CPUs | a ready process of priority i is passed over at most `MostPassed` times (the bound is attained), and is served |
| `kernel` | 2 CPUs, 3 processes of 1 or 4 instructions, 2 priorities, start times 0 and 1, quantum 2 | exclusivity, no loss, whole quanta, no idle dispatch, loading on time, nothing left behind by CPUs that stop, everything finishes |
| `kernel_stop` | 1 CPU, 1 process | **violated**: the CPU does not stop |
| `kernel_full` | queue of one, 2 processes | **violated**: a process is lost |
| `memory` | 2 processes, 2 frames of 2 bytes, byte values 0 and 1, sizes 0-3, 2 identifiers each, areas that programs grow themselves | partition, merged free list, frame conservation, mapped regions, refinement of `ProcessMemory` |
| `mem_lock` | 2 CPUs, 2 frames, calls that ask for 0 to 3 pages, `memmap` | frames held once, and each request granted in full or refused in one step (refinement of `FramePool`), until a `memmap` races; every call returns |
| `mem_lock_leak` | 3 CPUs, with accesses of an identifier out of range | **violated**: the lock is never released |
| `killall_share` | 2 CPUs, 3 processes of 2 instructions, any set of names | until the named events queues, `running_list` and `pc` are right, who is not hit runs to its end, and everything finishes; nobody without the name is hit |
| `killall_named` | 1 CPU, 4 processes of 3 instructions | **violated**: a process with the name stays in its queue |
| `swap` | 2 processes of 3 pages, 3 frames, 2 swap frames, FIFO lists of 3 | no swap frame is used twice; until the named events no frame of RAM or swap device is used twice or lost, and the FIFO list is complete |
| `swap_in` | 1 process of 3 pages, 2 frames, 1 swap frame, FIFO list of 4 | **violated**: a page accessed with success is not in RAM |

Why the bounds are enough. Three devices give the timer a first, a middle and a
last list element; four slots let the two passes of one round overlap the next
calls in every way. Programs of 1 and 4 instructions against a quantum of 2 end in
the middle of a quantum and exactly with one, the second after it was put back
once. Three processes on two CPUs make somebody wait. In `memory` a request can
need no page, one or two, fit or not fit a free region, exhaust the RAM half way,
and two processes compete for its frames. In `mem_lock` a call for three pages finds
two frames or one or none and rolls back as many. In `killall_share` the caller is
loaded first, so the loader and the other CPU work while it walks: a match can be on
the other CPU, in its queue alone, before or behind another, or not loaded yet.
In `killall_named` three processes can wait in one queue, so a match can be
repeated. In `swap` three pages over three frames shared by two processes make the RAM
and then the swap device run out.
`MAX_QUEUE_SIZE` is at least the number of processes except in `kernel_full`.

Two instances merge states by a VIEW. `memory` hides `call` and `killall_share` hides `before`
and `ran`: history variables that no guard and no fairness condition reads, and no
property of a state. The refinement in `memory` reads the new value of `call`, and TLC
checks it on every step it generates, also on those to states it has seen.

Deadlock is not checked in `swap` and `swap_in`, where a process can fill its FIFO list
up to the bound and have every page present, and in `mem_lock_leak`, where the program
really stops.

### Findings

- `kernel_stop`: a CPU whose first load fails (os.c:60) never tests `done`. A CPU that
  is idle when the last process finishes skips slots for ever, although the comment
  at os.c:82 says "No process to run, exit". With more CPUs than processes this is
  the normal outcome: `main` never joins that CPU.
- `kernel_full`: `enqueue` silently drops the process when the queue is full
  (queue.c:12), while its comment says it is added at the end and the loader prints
  "Loaded a process".
- `mem_lock_leak`: `__read` and `__write` return an error for an identifier out of
  range without unlocking `mmvm_lock` (libmem.c:409, 460).
- `killall_named`: sys_killall.c:53 says that the queues are walked and the processes
  whose name matches removed, but the `break` at line 65 ends the walk of a queue at
  its first match. What is removed instead is `FirstNamedRemoved`, a theorem.
- `swap_in`: `pg_getval` and `pg_setval` make sure the page is in RAM, "swap in if
  needed" (libmem.c:348), but `pte_set_swap` leaves PRESENT set (mm.c:56), and
  `pg_getpage` tests nothing else: the first access to a page that was replaced reads
  its swap offset as a frame number. `SwappedStaysOut`, a theorem, says that no later
  access brings it back either.

### Exceptions the properties name

Other promises of the code's comments hold only up to some event. A passing property
names the event: everything before it is shown to be sound, and what the event itself
does is not excused by that. Without its hypothesis each of these properties is
violated, by the race or the failure in the last column, which stays a defect of the
code.

| Property | Holds until | Because |
|---|---|---|
| `ListExactUnlessDisturbed` | a CPU uses `running_list` while another is in the removal of os.c:67 or in that of `killall`; or a ready queue changes as in the next line | that `dequeue_running` takes no `queue_lock`: an entry is lost, or a finished process stays listed. `raced` is set by any removal under way, also when it is `killall`'s from a ready queue, where the list itself is not at risk |
| `SoundUnlessDisturbed` | a ready queue changes under the lock while `killall` removes from one | `killall` takes no lock (sys_killall.c:63): a process the loader adds meanwhile is dropped with the last entry, or a CPU fetches the process that is then freed |
| `OnlyNamedEndEarly`, its second part | the same event | a process that is on two CPUs has its instructions run by both |
| `StoppedUnlessMidway`, `KilledRunNoMore` | `killall` stops a process whose CPU is between the read and the store of `pc`; `KilledRunNoMore` also until the event above | the store overwrites the stop, or `pc` becomes size + 1 and the test `pc == size` (os.c:64) never holds |
| `AllFinishUnlessHit` | either of these two | a process whose `pc` is beyond the end of its program is never found to have finished; a process that was dropped from a queue never ends |
| `FramesOnceUnlessRaced`, `ImplementsFramePool` of `MemLock` | a program's `memmap` takes frames together with another call | it does not lock `mmvm_lock` (syscall.c:39): two page tables get one frame |
| `CoversUnlessDropped` | an access finds the swap device full | the victim has left the FIFO list before (libmem.c:301, 306) |
| `FramesOnceUnlessMissed` | a victim comes from an empty list, or is not in RAM; that no frame is lost, also until the area grows over a page with an entry | `find_victim_page`'s -1 is ignored (libmem.c:301); pages are listed once per access (libmem.c:329); `vmap_page_range` does not look at the entries it sets (mm.c:105) |
| `SwapFramesOnce`, that no frame is lost | the same | a page that is in swap already gets a second swap frame, or its entry is overwritten |

### Fairness

- `Timer`: each thread that can run is run (weak fairness); a sleeper wakes up if it
  was signalled. A device that works in a slot ends it: all paths of `cpu_routine`
  and `ld_routine` lead to `next_slot` or `detach_event`.
- `MlqService`, `Kernel`: weak fairness of each thread and of the slot clock, which is
  what `Timer` provides (`ClockFairness` is part of `ImplementsSlotClock`).
- `RunningList`, `Killall`: the same, each thread with its finer steps.
- `MemLock`: strong fairness of taking the mutex: a waiter is not passed over for
  ever; weak fairness of a call that has it. No program has to make a call.
- `Memory` and `Swap` have safety properties only and assume no fairness.

## Proofs

`TimerProofs` proves for any number N of devices and any `MaxTime`, from
`TimerAssumption` (N is a positive natural, `MaxTime` a natural):

- `TypeCorrect`, `LockStepHolds`, `WakeupsKept`, `NoDeviceLeftBehind`: the invariants of
  the run `timer`;
- `TimerRefinesSlotClock`: initial states and steps of `Timer` are those of
  `SlotClock` under `phaseBar`.

The argument is the inductive invariant `TimerInv`. `LockStep` alone is not
inductive: to know that a device let into a new slot has counted every earlier
one, one needs where the cursor of the timer is and what the flags behind and
ahead of it say (`CursorInv`), that a flag tells where its thread is (`FlagInv`),
and by how much a waiting device's count may trail the clock (`SlotInv`).
`TimerOutlivesDevices` rests on `CountInv` (the two counters of a round agree only
if every device passed had left) and on `MainInv` for the other way to stop. One
lemma per part shows that it is preserved, with one case per thread.

`KernelProofs` proves for any set of CPUs and any number of processes, priorities,
capacity and quantum, from `MlqAssumption` and `KernelAssumption` (the constants
are numbers of their kind, the loader is not a CPU):

- `TypeCorrect`. The type of `addedAt` needs `time <= MaxTime`, hence `TypeInv`.
- `OnePlaceHolds`. Lemmas first say what the queue operations do to the predicate
  `Queued` (`GetProcTakes`, `PutProcAdds`, on top of `DequeueHead` and
  `EnqueueAtEnd`); after them no proof looks into a sequence. `AtMostOnePlace` is
  inductive but for one fact: a process not loaded yet was never freed (`PlaceInv`).
- `QuantumHolds`. `QuantumInv` adds what the labels of `cpu_routine` know of
  `time_left`: zero at "refetch" with a process in hand, positive at "recheck" with a
  process that was kept.
- `NoIdleDispatchHolds`. `ProgressInv`: whoever is queued has work. It needs `PlaceInv`,
  for otherwise somebody else could run the process meanwhile.
- `LoadedOnTimeHolds`. `LoaderInv` bounds the clock from both sides by the slot the next
  process is due in: the slot cannot end while the loader works.

Its last part adds the hypothesis `Roomy`, `NumProcs <= MAX_QUEUE_SIZE`, without
which a process is dropped and never finishes (run `kernel_full`):

- `NoProcessLostHolds`. With `PlaceInv` a queue holds no process twice and not the one
  that is put, so by the pigeonhole principle it is not full (`RoomLeft`).
- `NothingLeftBehindHolds`. Once the loader has ended a slot after its last `add_proc`,
  a queued process always has a CPU that looks at the queues again before it can
  stop (`Tended`): a CPU goes blind only by a `get_proc` that found every queue
  empty, which the reset of the quotas guarantees (`GetProcKeeps`). What makes
  `Tended` true to begin with is that slot: at its end all CPUs are back at the top
  of their loop (`ThreadInv`).

`MlqServiceProofs` proves for any set of CPUs, any number of priorities and of processes
up to the capacity of a queue, from `MlqAssumption` and `ServiceAssumption`:

- `ServiceTypeOK`;
- `WaitBoundedHolds`. `WaitBounded` bounds what has passed a process, and says nothing
  of what is still to come, so it is not inductive. `WaitInv` adds to `passed` a
  bound on what may pass yet (`Ahead`): those before it in its queue, what the quotas
  leave to the other priorities, and one round of these for every reset that can
  come first. A service lowers it by one (`ServiceInRound`), a reset does not raise it
  (`ResetStarts`: it happens only when the quota of everyone who waits is used up), and
  a process that is queued starts below the bound (`AheadAtFirst`), since the others in
  its queue are rivals, each once (`RivalsOnly`, the pigeonhole principle). The sum of
  the quotas is the last of their partial sums, given by a formula after a reset and
  changed pointwise by a service, so that no sum has to be defined by recursion.

`RunningListProofs` proves from the assumptions of `Kernel` that `running_list` changes
nothing of the scheduling (`ListRefinesKernel`): every step of `RunningList` is a step of
`Kernel` or leaves its variables alone (`ListStepIsKernelStep`). The invariants of `Kernel`
carry over with their proofs: `ListKeepsOnePlace`, and with `Roomy` `ListLosesNoProcess`.

- `ListExact`: the list has the processes that CPUs have in hand, each once, while no
  removal is under way, until a CPU uses it during another's removal. The invariant
  `ListState` says what the array enumerates in between: all that is in hand if the
  position the removal is at is left out. While the loop looks for its process that
  process is still ahead; while it moves entries one value is in the array twice.
  `ListSide` says which label a CPU in the removal is at and that what it removes is
  freed.

`KillallProofs` proves of a program that calls `killall`, from `KillallAssumption` and
those above:

- `StoppedStays` (no further hypothesis). `KillerOnce`, that the caller is in one place
  whatever happens to the queues, makes the call sequential; `RunInv` says that the CPU
  in the call has read `pc` and that others have only while they run; `StopInv` says of a
  stopped process that no other CPU has read its `pc`, or it is in `midway`.
- `KillallSound`, `KillallListExact` and `KilledStaysKilled` (with `Roomy`), until a ready
  queue is used during a removal. `Calm` is the invariant until then: places as in
  `PlaceInv`, with the queue that is being cut left out of account at the position the
  removal has reached, and `ListSide` for `running_list`.
- `NamedEndEarly` (with `Roomy`): nobody without the name is hit, and until the same
  event whoever was not hit ends when it has run each instruction of its program once;
  `NamedEndEarlyAlone` says the latter of one CPU without any event. `CountInv`: whoever
  was not killed has run as many instructions as its `pc` says, and a CPU that has read
  it still knows it.
- `FirstNamedOnly` (one CPU, and the caller is the process that is loaded last, as in
  the run `killall_named`): what `killall` does where the comment says "all". `WalkInv`
  follows the walk through the queues: those behind it are their former selves without
  the first match, those ahead are as they were, and the one under it is partly cut.

`MemoryProofs` proves for any number of processes, identifiers, frames and pages, any page
size and any sizes asked for, from `MemoryAssumption`:

- `MemTypeOK`, `AreaPartitionedHolds`, `FreeListMergedHolds`, `FramesConservedHolds`,
  `RegionsMappedHolds`: the invariants of the run `memory`;
- `MemoryRefinesProcessMemory`.

The invariant is `MemInv`. `AreaOK` relates free list, table of regions and lost addresses
of one process to the end of its area: each address below it has one owner (said
without cardinalities; `AreaCounted` counts), the list is sorted and merged. `FramesOK`
says the same of frames, with the pages beyond the end of the area unmapped, and
`WholePages` that the area ends with a page and `sbrk` where it does; without it a new
page could already have a frame. One lemma per way an area changes
(`AreaReused`, `AreaGrown`, `AreaRaised`, `AreaFreed`) and per way frames do.
`FreeListMerged` needs that `__free` finds both neighbours in one pass: `Absorbing` is
the invariant of its loop, and `CoalescedIs` what the loop leaves. `RegionsMapped` is
part of the invariant because `vmap_page_range` overwrites page table entries.

That regions keep their bytes rests on `ByteAtOnce`: two addresses in regions of any
processes with the same byte of RAM are the same address, for they are on one frame
(`FramesOK`), so on one page of one process, and in one region (`AreaOK`). `Reach` collects
what this needs; then growing an area touches no page of a region (`ExtendKeeps`), a
write changes one byte of one region (`WriteAssigns`), and so on for each call
(`ReuseAllocates`, `GrowAllocates`, `FreeReleases`, `ReadFetches`); `ProgramsStep` puts them
together. Because `call` is part of both specifications, none of these can pass for
another: a step that stores a byte is a write of that byte to that place or an allocation
of that region.

`SwapProofs` proves for any number of processes, pages and frames, from `SwapAssumption`:

- `SwapTypeOK`;
- `RamCovered`: the FIFO list covers the pages in RAM until an access finds the swap
  device full (inductive with the types);
- `SwappedNeverReturns`: an entry that is swapped still says PRESENT (`SwappedPresent`),
  so no later access takes the branch that would bring the page back;
- `SwapDeviceOnce`: no frame of the swap device is ever used twice (`SwapInv`);
- `RamOnceUnlessMissed`: the same of the RAM, until a victim comes from an empty list
  or is not in RAM (`FrameInvUnlessMissed`).

The last two also say that no frame is lost (`Kept`), each one is free or has its page,
as long as no victim was missed and the area did not grow over an entry in use: then a
fault moves exactly one frame of each device (`FaultKeeps`), and new pages take theirs
from the list (`GrowKeeps`).

`MemLockProofs` proves for any set of CPUs, any number of frames and of pages per call,
from `MemLockAssumption`:

- `FramesOnceUnlessRacedHolds`. Until the first race, a CPU that takes frames is alone:
  two library calls exclude each other by the mutex, and a `memmap` beside another
  call is a race. So what a CPU read of the free list is what is there when it
  assigns it, which the inductive invariant `MLInv` says; each of the four steps then moves
  one frame from the list to the CPU's hands or back (`UnlinkMoves`, `LinkMoves`), and
  the return moves them to the page tables (`ReturnKeeps`).
- `LibraryNeverRaces`: without `memmap` in `Calls` it is so for good.
- `MemLockRefinesFramePool`: the frames nobody has mapped are the pool. Entering
  `alloc_pages_range` is an `Ask` (`Begins`); only the return answers it (`Ends`; the steps in
  between are hidden, `Hidden`), by a `Grant` of as many frames as were asked for, or by a
  `Refuse`. That a refusal is justified is the invariant `Refused`: the rollback is
  decided on an empty list, when all that nobody has mapped is in the hands of the CPU
  that gives up (`AllInHand`), and no page table changes until it is over.

What a recursive definition computes cannot be proved from an induction rule that
takes a predicate, which no installed prover can instantiate. Two proofs need such a
fact all the same, about the loop of `__free` (`Coalesced`) and about sums of quotas.
There induction is done by hand: the set of counterexamples has a least element
(`LeastNat`, from the well-foundedness of < on Nat), which is refuted. `Coalesced` is a
recursive function, not a RECURSIVE operator; no module with theorems has one of these.

## Only model-checked

Out of the prover's reach: liveness under fairness and ENABLED. So `NextSlotTerminates`,
`ShutdownCompletes`, `NoStarvation`, `AllFinish`, `AllFinishUnlessHit`, `CallsReturn` and
the fairness half of
`ImplementsSlotClock` are checked by TLC only; all safety invariants and action
properties of the runs that pass are proved. Some theorems have a hypothesis that the
run does not need to state, because its instance satisfies it: `Roomy`, one CPU, the
caller of `killall` loaded last.

## Not modelled, and why

- Accesses outside regions are in `Swap`, without their bytes: what comes back from a
  swap device is never read, since no swapped page returns. Identifiers used before
  they were allocated, and the index one past the end of `symrgtbl` (libmem.c:84),
  meet uninitialised memory of structures whose layout is in the missing headers.
- `killall` reading its name from a region: a loop of `libread`, which is in `Memory`.
- `SYSMEM_SWP_OP`, `SYSMEM_IO_READ` and `SYSMEM_IO_WRITE` called by a program itself: raw
  access to frames, with no promise to check.
- `free_pcb_memph` is never called, so the frames of finished processes stay taken
  (mm-memphy.c:153 says so); a finished process is one that makes no more calls in
  `Memory`. `init_pte` is never called either.
- Memory devices of a single frame, whose list `MEMPHY_format` never ends; a `time_slot`
  of 0; an area that grows past the last page table entry.
- `mem.c`, `paging.c`: the previous assignment's memory, not used with `MM_PAGING`.
  `get_trans_table` of `mem.c` is a stub that always returns NULL.
- The scheduler without `MLQ_SCHED`: it does not build with `os.c`.
- Text: configuration and program files, messages, dumps, the system call table
  generator. The sequential access mode of `mm-memphy.c` is never selected.

## Plan

1. (done) `SlotClock`, `Timer` with proofs; `Mlq`, `MlqService`; `Kernel` with
   proofs; `ProcessMemory`, `Memory`.
2. (done) `RunningList` and `Killall`; `Swap`; `FramePool` and the steps of an allocation
   in `MemLock`, with proofs; `memmap` as an unlocked caller.
3. (done) Proofs for `Swap`, the list of `RunningList`, `Killall`, `Memory` with its
   refinement, and the waiting bound of `MlqService`.
4. What `Killall` keeps without `Roomy` or with the loader active during the walk;
   the safety half of what liveness rests on: that a thread that waits is enabled
   whenever what it waits for has happened.
