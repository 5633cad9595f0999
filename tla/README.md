# Models and proofs of labrador

labrador (`src/`) is a small x86_64 kernel with a UEFI bootloader, written in C.
This directory holds TLA+ models of its core logic, the TLC configurations that
check them on small instances, and proofs of the results that matter most.

    tlc -config Heap.cfg Heap              tlapm HeapProofs.tla, Folding.tla
    tlc -config HeapRace.cfg HeapRace
    tlc -config Tasking.cfg MCTasking      tlapm TaskingProofs.tla
        (also TaskingWindows, TaskingLost, TaskingEmpty, TaskingHalt)
    tlc -config Interrupts.cfg Interrupts  tlapm InterruptsProofs.tla
    tlc -config Paging.cfg MCPaging        tlapm PagingProofs.tla, BootProofs.tla
    tlc -config Library.cfg MCLibrary      tlapm LibraryProofs.tla
    tlc -config Vfs.cfg Vfs                (also VfsCreate)

Paths below are relative to `src/src/`; `kernel/kernel/` holds the portable part
of the kernel and `kernel/arch/x86_64/` the part for the machine.

## 1. The system

| component | state | operations | where |
|---|---|---|---|
| heap | a list of blocks, `next_free` | `init_heap`, `kmalloc`, `kfree`, `expand_heap` | `kernel/kernel/heap.c` |
| virtual memory | `curr_brk`, the page tables | `vmm_alloc_region`, `map_page`, the page fault handler | `arch/x86_64/vmm.c` |
| physical pages | a free list threaded through the pages, four counters | `pmm_init`, `allocate_page`, `free_page` | `arch/x86_64/pmm.c` |
| list, tree | nodes with links | the usual ones | `kernel/kernel/ds/` |
| scheduler | `ready_list`, `sleep_list`, `scheduler_lock`, `sleep_lock`, the current thread and `idle_thread` of the core | `create_task`, `sleep_until`, `sleep`, `switch_next`, `wakeup_sleepers` | `kernel/kernel/tasking.c`, `spinlock.c`, `arch/x86_64/tasking.S` |
| interrupts and time | handler table, APIC, PIT, TSC | `isr_common`, `isr_handler`, `apic_init`, `pit_init`, `clock_init`, `apic_timer_init`, `apic_timer_isr`, `get_time_from_boot` | `arch/x86_64/idt/`, `apic.c`, `pit.c`, `time.c` |
| vfs | the mount tree, the list of drivers | `vfs_mount`, `vfs_get_fs_node`, `vfs_mkdir`, `vfs_create`, calls through a node | `kernel/kernel/fs/vfs.c` |
| file systems | tmpfs directories and files, devfs's list of devices, a tar archive | `mount`, `finddir`, `readdir`, `mkdir`, `create`, `read`, `write` | `kernel/kernel/fs/`, `kernel/kernel/dev/ramdisk.c` |
| log, serial, terminal, framebuffer, keyboard | a table of outputs, a cursor | output and port I/O | `kernel/kernel/log/`, `kernel/kernel/dev/`, `arch/x86_64/tty.c`, `ps2.c` |
| libc | none | `_vsnprintf`, `atoi`, string functions | `libc/` |
| vmm_avl | a balanced tree of regions, used by nothing yet | `vmm_avl_insert`, `vmm_avl_delete` | `arch/x86_64/vmm_avl.c` |
| bootloader | the boot information, page tables, the firmware's memory map and its key | `efi_main`, `BuildMemoryMap`, `MapPages` | `bootloader/` |
| kernel2 | an earlier i386 kernel | not built | `kernel2/` |

How they interact. The bootloader hands the kernel a memory map and page
tables; `arch_main` sets up memory, the heap, the file systems, the timer and
the scheduler in a fixed order. Everything that allocates goes through `kmalloc`, which
takes pages from the same break as thread stacks and tmpfs blocks. The lists of
the scheduler, the drivers, the devices and the mount tree are all `list_t`.
The timer interrupt calls `wakeup_sleepers` and then `switch_next` on the stack
of whatever thread it interrupts. Path resolution goes from the mount tree
through the `finddir` of the file system found there.

At this commit `arch_main.c:63-65` halts in a loop before `apic_timer_init`,
the ramdisk, the mount of the archive and `kernel_main` (lines 67-80). The
scheduler's code is complete and linked; the models treat it as running the way
lines 67-80 and `kernel.c` start it.

What is hard: the scheduler's locks, interrupt flag and stack switches under an
interrupt that may come at any instruction; two timers that share a vector while
the clock is calibrated under their interrupts; a heap whose list is split, merged and
grown in any order, also from an interrupt in the middle of `kmalloc`; a firmware whose memory
map changes while it is asked for; a mount tree that has to agree with the file systems
beneath it; arithmetic at block and number boundaries. `PROJECT.json` lists the
hazards line by line.

## 2. Modules

| module | models | role |
|---|---|---|
| `Allocator` | what callers of `kmalloc`/`kfree` rely on | abstract specification |
| `Heap` | `heap.c`, `vmm_alloc_region` | refines `Allocator` |
| `HeapRace` | a `kmalloc` interrupted between its steps | composition of `Heap` with itself |
| `HeapProofs` | | proofs about `Heap` and `HeapRace` |
| `Folding` | | what a fold over a sequence or a set is, proved for any operator |
| `SeqList` | a list as a sequence, with `list_insert_before`'s behaviour | abstract specification |
| `LinkedList` | `ds/list.c` with its pointers | refines `SeqList`, driven by `Library` |
| `KList` | the sequence operators that stand for list calls in other modules | helper |
| `Tasking` | `tasking.c`, `spinlock.c`, `tasking.S`, the timer interrupt, `kernel.c`'s threads | the scheduler |
| `MCTasking` | | instances for TLC |
| `TaskingProofs` | | proofs about `Tasking`: locks, types, the order of sleepers, where every thread is |
| `Interrupts` | `idt.c`, `exception.c`, `isr.S`, `apic.c`, `pit.c`, `clock_init`, in the order of `arch_main.c` | from the reset of the controllers to the scheduler's timer |
| `InterruptsProofs` | | proofs about `Interrupts` |
| `Namespace` | what path names what, for a user of the vfs | abstract specification |
| `Vfs` | `vfs.c` (mount, lookup, mkdir, create), `tree.c`, directories of `tmpfs.c`, `devfs.c` | refines `Namespace` |
| `VfsProofs` | | proofs about `Vfs`, its refinement included |
| `AddressSpace` | pages with contents of their own | abstract specification |
| `MemoryMap` | `BuildMemoryMap` of the boot loader | operators |
| `Paging` | the boot loader's files and page tables, `pmm.c`, `vmm.c` | refines `AddressSpace` |
| `MCPaging` | | instance for TLC |
| `PagingProofs` | | lemmas about `Paging`: tables, the free list, faults, stores, the refinement |
| `BootProofs` | | the boot loader and the start of the kernel, and the theorems about `Paging` |
| `CanonicalPath` | `vfs_canonicize_path`, and its reference | operators |
| `Blocks` | the block arithmetic of `tmpfs.c` and `ramdisk.c` | operators |
| `Tarfs` | `tarfs.c` over a ramdisk | operators |
| `Clock` | the date of `time.c`, and the calendar | operators |
| `Ntoa` | numbers in `_vsnprintf.c` | operators |
| `Format` | the walk of `_vsnprintf.c` over a format, `atoi.c`; formats put together from parts | operators, over `Ntoa` |
| `Avl` | `vmm_avl.c`, and what a search tree is | operators |
| `RegionTree` | `vmm_avl.c`'s tree through its operations, beside the regions it is to have | over `Avl` |
| `Terminal` | `tty.c`, and lines on paper | operators |
| `Log` | `log.c`, and the buffer side of `_vsnprintf.c` | operators |
| `Library` | the routines and objects of these modules and `LinkedList`, asked and driven by their callers | composition |
| `LibraryProofs` | | proofs about `Library`: the list and its refinement, the terminal, paths, the file, the log, archives, the clock |
| `MCLibrary` | | instance for TLC, and `Library` and `RegionTree` used side by side |

Composition: `Tasking` takes list operations from `KList`; `LinkedList`
shows that the pointers of `list.c` behave like `SeqList`, which is defined by
the same operators. `Vfs` has its lists (mounts, directories, devices) as sequences and sets of its own. `Paging` EXTENDS `MemoryMap`; `Tarfs` EXTENDS `Blocks`;
`Library` EXTENDS all it composes but the tree, which `MCLibrary` adds: its operators are
recursive, and the provers could not work in a module that reaches them. `Heap` and `Paging` both have the break
`curr_brk` (`HeapRace` instantiates `Heap` a second time, with the size of the interrupted
call in the place of `req`): in `Heap` regions of other callers (stacks, tmpfs blocks) appear
between the heap's own expansions, in `Paging` faults on the pages behind it
are served.

A definition with the comment `mutant:` is a variant of the definition next to
it with a plausible mistake, such as a missing reset, an off-by-one or a dropped
guard. No action uses it. Put in the place of the original it makes the
property named in `PROJECT.json` fail, which shows that the property depends on
that piece of the code.

## 3. How the models correspond to the code

**Heap.** A block is known by the address of its header; `size`, `used`, `prev`
and `next` are functions over `blocks`. `Kmalloc` notes a request, each
`ExpandHeap` is one turn of the loop that grows the heap while no block fits, and
`TakeSplit`, `TakeWhole` and `TakeLast` are the ways the walk from `next_free` ends:
the split, and where `next_free` moves. `Kfree` has the merges with both neighbours and `Lowered` for `next_free`. Requests are
served one at a time; what the timer interrupt does to that is in `HeapRace`. Two
facts of the code shape the properties. `kfree` merges neighbours by links,
also across a region of another caller (the history variable `crossed`
says that this has happened): `ForeignApart` and the separation in `Allocator`
are about heaps where it has not. `expand_heap` rounds a size to pages without
its header, so for a size within a header of a page boundary the new block is too small
and `kmalloc` expands for ever: `ExpansionServes` leaves these sizes out.

**HeapRace.** No lock protects the heap. Callers under a spinlock and in the
interrupt handler have interrupts disabled; the `kmalloc` of `create_task` has not.
That call goes in steps, `Enter`, `Test`, `Move`, `Grow`, `Take` (heap.c:61-74) and
`Advance` (76-86), and between them come whole calls of `Heap` (`Others`). An
interrupt inside the last two is not modelled: the half-written links it would find
have no reading in the code. `torn` marks a behaviour in which a call has
merged away the block the interrupted one points to, or made untrue what it has just
tested; the code goes on through a stale pointer there, and the model does not. So
`RaceSound` says which interruptions are harmless: those by whole calls between the turns of
the search, and between the search, the split and the walk of `next_free`, that do neither of the two. It
does not say that all others are: of the two kinds, and of interruptions inside the split or the walk, nothing is shown.

**LinkedList.** One action for each function of `list.c`, over explicit `next`
and `prev` pointers and freed nodes. `list_insert_before` without a node to
insert before links the new node nowhere when the list is not empty; the nodes
lost this way are the history variable `lost`. `list_pop_front` of an empty list goes on into
`list_remove(list, NULL)` (`PopNothing`): the page fault handler serves the fields it reads there with zeros, so nothing happens
to the links, but `length` goes down, from 0 to `LENGTH_MAX`. So `length` is not
the number of nodes once a node was lost or an empty list popped, and `SeqList`, the promise to users, keeps it as a
`count` beside the sequence. `list_at` compares its index with `length`; `Nth` is its walk for an index that is there (nothing
calls `list_at`).

**Tasking.** Each thread has a stack of frames [pc, arg]; an action is a step
between two points where an interrupt makes a difference. `switch_task` is one
step. List calls are one step since they run under a lock with
interrupts disabled. `Interrupt` pushes the handler on the stack of the thread
that runs, as `isr_common` does. `Preemptible` says at which pcs it may come:
`Calm` is thread code only, `PCs` every instruction with interrupts enabled,
`Outside` every one but `Windows`: the six points of `switch_next` where interrupts may be enabled
and the running thread may be one that cannot go on, on its way in and from the release of the
lock to the switch.
The interrupt flag is saved and restored as in `spinlock.c`; `switch_task` neither saves
nor sets it. A `pop` of the empty run queue gives NULL, and
switching to it sets `crashed`. Memory for thread structures and sleepers is not
modelled here (`HeapRace` has the interrupt taken inside `kmalloc`).

**Interrupts.** The boot code is one thread (`pc`) with one action per step that a
device or the handler could tell apart; an interrupt handler (`isr`) runs between its
steps, and `TimerSwitch` ends it: `switch_next` goes on in some thread. `switch_task` neither saves nor sets
the interrupt flag, so interrupts are enabled there or stay disabled, and what threads do may enable or disable
them (`Thread`); both are left open. `TimerGoesOn` is therefore conditional: if interrupts are enabled again and
again, the timer interrupt comes again and again. That a thread may leave them disabled for good is `tasking_halt`. The table of handlers has an entry for vectors 32 and 33: the PIT's and the
APIC timer's vector are the same number, so the second registration replaces the
first. Devices are external: the PIT counts down and raises its line to the PIC and
to the I/O APIC, which let it through or not; the local APIC holds back what it has
until the end of the interrupt in service; its timer counts down and starts again.
Time is in TSC units, and only intervals are kept. Assumed of the machine: the entry of
the local APIC's timer is masked when the firmware hands over, as it is after a reset;
an interrupt that is pending comes before the next instruction; the firmware's PIT ticks
are at least `FirmwareGap` apart; a step of the CPU takes at most `Lag` units.
`apic_timer_init` lies behind the hlt loop of `arch_main`, and is modelled as
`Tasking` does. A vector without a handler halts the machine: `OwnHandler` says it never
comes to that. Vectors from 34 on lead
to a loop; only the local APIC's spurious interrupt (0xFF) has a sender there, and is not modelled.

**Vfs.** A path is a sequence of components: `/` is `<<Empty>>`, and two slashes
or one at the end give an empty component, as `split_path` sees them. The state
is the mount tree, the directories of tmpfs and the devices of devfs. A call that
fails changes nothing and is not a step. Where the code goes through a NULL node
the kernel takes a page fault and halts (`halted`). `vfs_mount` looks up
missing components from the terminator of the previous one (`LookedUp`,
vfs.c:146), so the second is looked up as the empty name. `vfs_create` uses its
name after `kfree` has cleared it: the file gets the name `Empty` or, when memory
was reused, `Junk`. Contents of files are in `Blocks`; tarfs in `Tarfs`; copies
of `fs_node` structures are their contents.

**Paging.** A physical page is `Entries` words, and the same words are the link
of a free page, the entries of a table or data (`Garbage` is any other word), so
a page with two uses shows. The walk down the four levels is a recursive
function (`Chain`). `LoadFiles`, `MapPages` and `HandOver` are the boot
loader, `VmmPreinit`, `PmmInit` and `VmmInit` the start of the kernel, then
`PageFault`, `VmmAllocRegion` and `Store` come in any order. The handler takes the
page to be mapped first and then those for tables, as the code does.
`allocate_page` does not check for an empty list: a fault that runs out of
pages sets `lost` and ends the behaviour, since what follows depends on the words
at page 0; `RunsShortExactly` says when that is, for the boot loader's reserve as well.
An address that is not served halts; but the addresses the handler serves
(`Served`) include small offsets from NULL, so that a field of a NULL structure is mapped
and not caught. Before that, the firmware keeps a map (`efi_map`) that its events change
(`FirmwareChanges`) between the calls of `SizeMemoryMap`, `GetMemoryMap` and
`ExitBootServices`; the last succeeds with the key of the latest map only, and is not
tried again. The loop around GetMemoryMap passes the size the firmware has corrected, not that of
the buffer (`room`): a map that has grown by more than two entries is written over the
buffer's end (`overrun`), which is not followed further. From `VmmPreinit` on what was the
firmware's is forgotten. The firmware's own tables
are opaque (`Identity`); code of the kernel stores to word 0 of a page only. The bubble
sort of `BuildMemoryMap` is one `Pass` after the other; the code stops after a pass without
a swap, which the further ones repeat. Assumed are addresses of four levels
(`TouchedAssumption`), a segment behind which the break is (`KernelAssumption`), and what the
boot loader relies on: the firmware gives it every page once and none of the
tables in use, and the kernel is linked to addresses away from the firmware's (`LoaderAssumption`);
the firmware's descriptors do not overlap and call nothing free that is in use
(`FirmwareAssumption`). The pool of segments to map has as many entries as the kernel's file has headers, and the initrd's
entry needs one (main.c:271, 365-368): with nothing but PT_LOAD headers it would be written behind the pool, up to the rounding of the
firmware's allocation. `PoolAssumption` leaves such a file out.

**Library.** Routines without state are asked one question at a time (`call`);
the invariants say what the answer is. Four small objects, a tmpfs file, the
terminal, the log and a list, go through their operations; a behaviour uses one `part`,
because they share nothing. A fifth, the balanced tree, is in `RegionTree` and used
while these are as at the start. Assumed are sizes that leave room for a few
blocks (`BlocksAssumption`) and dates there are, from 1970 to 2098 (`DatesAssumption`). Where the code is right only for some inputs, the
property says for which:

- Reads and writes of a file or ramdisk copy the right bytes when the range ends
  inside a block (`EndsInside`). A range that ends with a block loses the bytes of that
  block; an empty one at offset 0 runs over all blocks there could be.
- `tmpfs_write` divides by `SIZE_MAX`, so a file never has a second block.
  A write beyond the first goes to memory that is no block (`astray`).
- tarfs compares the beginnings of paths: `ChildrenRight` finds names that begin no
  earlier path.
- A date in a leap year is read a day ahead, since `secs_to_year` counts the year
  that has begun; from 12:00 on, noon's hour in 12 hour format is read twelve hours
  ahead (`ClockRight` states both as the exact difference). The registers are read one by
  one, from the second to the century; when the chip goes on in between, the date is that
  before or after, or ahead by one unit of the first field not yet read if the fields before it have rolled over.
  The end of a century between year and century is left out.
- `#` drops digits of a number when the width leaves no room for `0x`; a negative
  number is printed as the unsigned number it is converted to, behind a minus sign.
  `NumbersRight` is about the other cases.
- In a format, a precision from the arguments moves the start of the format and not the
  place in it; the parts still come out right (`FormatRight`), also with widths that are
  negative, unknown conversions, and buffers that are too small. A text that just fits loses its last character.
- `%c` and `%s` are put together in `str_buffer`, of 256 places, with no look at its end (lines 286-334): a width
  or a string (as far as its precision lets it through) of more than 256 is written over the stack, however much room the caller has. `FormatRight` says that this
  happens exactly there (`Overruns`) unless the caller's room has run out before; it is not followed further.
- `vmm_avl_insert` has the tests for the single and the double rotation on the right in
  the wrong order (lines 96 and 104). `tilted` marks a tree that has met
  them: it may be out of balance from then on, or the rotation goes through a NULL pointer
  (`Broken`). Until then it is a balanced search tree, and as long as it is not
  broken it has the right regions (`TreeKeeps`).
- A log message that does not fit loses its text and the end of its level; one
  that takes exactly the room there is puts a zero behind the buffer and is not
  stated about (`LogRight`). `Log` has no buffer of `_vsnprintf`'s own: pieces of
  a message that are longer than 256 characters overrun that one first, and are `Format`'s.

## 4. Runs

| run | instance | what it shows |
|---|---|---|
| `heap` | break from 4096 to 16384, sizes 2000, 4016, 4065, 5000, regions of one page | the list stays linked and disjoint, `next_free` finds the first free block, no byte is lost, the heap implements `Allocator` |
| `heap_race` | sizes 2000 and 5000, and 2000 and 4000 for the interrupted call | the list and `next_free` survive every whole call between the modelled steps of a `kmalloc` that does not merge its block away or undo its test |
| `tasking` | 2 tasks, delays 0 to 2, clock to 3, interrupts in thread code, fair | sleepers in order, no task starves |
| `tasking_windows` | 2 tasks, interrupts anywhere but in the six windows of `switch_next` | every thread in one place with a fitting state, sleepers woken in time, always a thread to switch to, no lock ever waited for, the idle thread can be woken |
| `tasking_lost` | as `tasking` | violation: a sleeper behind all others is linked nowhere |
| `tasking_empty` | 2 tasks, interrupts anywhere | violation: a switch to NULL from an empty run queue |
| `tasking_halt` | 2 tasks, `kernel_main`'s sleep ends, fair | violation: it halts with interrupts disabled |
| `interrupts` | a period of 16 units, steps of up to 2, 2 timer interrupts in 10 ms, fair | each interrupt comes to its own handler, 10 ms are measured as 10 ms, the timer interrupt keeps coming as long as interrupts are enabled again and again |
| `vfs` | names `a` and `dev`, paths of 2 components, 4 files | mounts, mkdir and devices agree on one space of names (`Namespace`), what is listed is found |
| `vfs_create` | the same | violation: a file created is not found under its name |
| `paging` | 16 pages of 4 words, 6 virtual pages touched, two machines, one with three firmware maps | the last map is handed over, types, pages have one use each and run out exactly when too few, counters agree, `AddressSpace` |
| `library` | see `MCLibrary` | the routines and objects of `Library` against their references, `LinkedList` against `SeqList`, the tree of `RegionTree` against the regions inserted |

Why the bounds are enough. *Heap*: the four sizes give a block that is split, one that
fills a page, one at the boundary where an expansion is too small and one over
two pages; the break allows three expansions with a region between them, so
that every kind of neighbour of a freed block occurs. *HeapRace*: the interrupted call
splits a block, takes one whole or grows the heap, and so do the others. *List*
(in `library`): four nodes have every position (first, last, middle, only) and two to choose from in the middle; `LENGTH_MAX` 6 for
2^64-1 is more than there are nodes and is met by pops of an empty list.
*Tasking*: with two tasks, `kernel_main` and the idle thread the run queue and the
sleep list both hold two; delays up to 2 with ties, and the third step of the clock
makes all of them due. `MaxDepth` bounds the frames of a stack, `MaxQueued` the
entries of both queues at an interrupt (only full preemption meets it). When the
clock stops at `MaxTime` tasks go on with delay 0. *Interrupts*: a period is longer
than the six steps between a tick and its reading, so that a tick may
come at each of them and none is missed; the firmware's PIT is left at every phase. *Vfs*: two components
give a mount over, below and above another, and the name `dev` gives devices and
directories of the same name. *Paging*: four levels of tables as in the code with four
entries each instead of 512; virtual pages within the kernel's last table, in the next
one and at 0, where all tables are missing; one machine's map is out of order and
has a hole, the other's takes three forms, one of which does not fit in the buffer
sized for another; all have too few pages for all faults, so that running out is
met. *Library*: `BLOCK_SIZE` 4 for 4096, `SIZE_MAX` 127 for 2^64-1, tar blocks of 2 for
512, a header of 1 for 500 (its reads never end where a block does), a buffer of
8 for 256, integers of 4, 5, 6 and 8 bits; paths of up to five components, archives of
up to three entries over several tar blocks, dates to 2037 (TLC's integers have 32
bits), a screen of 2 by 2 with texts of 7 characters, 2 outputs for 4 and
messages of 9 characters for 256; formats of up to two parts of every kind, among them characters and strings that just fit a conversion's buffer and longer ones, with 12 places for the caller's; seven
regions in the tree, with which each rotation happens at the root and below it.

`CHECK_DEADLOCK FALSE` stands where the system or the model's bound really
stops: the heap (in both runs), vfs and paging at their bounds of memory, `tasking_empty` after a crash or at `MaxQueued`, `tasking_halt` on the halted CPU,
`library` after a write that went astray. `tasking`, `tasking_windows`, `tasking_lost` and
`interrupts` check for deadlock.

The type invariants of `Heap` and `Tasking` are proved (`HeapTypeCorrect`,
`TaskingTypeCorrect`) and not among the runs' properties. That no lock is waited for and that the
idle thread can be woken is proved under full preemption; `tasking_windows` checks it without the windows.

Symmetry is over the two tasks, in `tasking_lost` and `tasking_empty` only.

**Fairness** (`tasking`, `tasking_halt`, `interrupts`). In `Tasking`, WF of `Step`: the CPU executes
instructions. WF of `Tick`: the TSC runs. WF of `Interrupt`: `apic_timer_init`
starts a periodic timer, and a pending interrupt is taken once interrupts are enabled. SF of
`TaskSleep`, `MainSleep` and `CreateTask`: thread code is interrupted again and again
and still gets to its next call, since the timer's period of a millisecond is much longer than the code
between two calls. Nothing is assumed of the scheduler's choices. `EveryoneRuns` is checked with
`kernel_main` still asleep (it wakes after the last step of the clock; what happens when it
does is `tasking_halt`) and interrupts in thread code. In `Interrupts`, WF of `Cpu`
and of `Tick`: the CPU executes instructions and time passes.

## 5. Findings

- `tasking_lost` (list.c:120): `sleep_until` hands `list_insert_before` NULL when no
  sleeper wakes later; on a non-empty list the node is linked nowhere and the
  thread sleeps for ever. The other tasking properties count such threads as
  `lost`.
- `tasking_empty` (tasking.c:70): behind `switch_task(idle_thread)` there is no
  return. The thread goes on there, without the lock, when it is switched to again and may pop from
  an empty queue.
- `tasking_halt` (kernel.c:77): `switch_task` does not restore the interrupt flag, so
  `kernel_main`, switched to from the timer's handler, halts with interrupts
  disabled.
- `vfs_create` (vfs.c:373): the name is a pointer into a string freed before.

Under full preemption an interrupt between the release of `scheduler_lock` and
`switch_task` runs `switch_next` inside itself and queues a thread twice. `Census`,
`WokenInTime` and `NextThreadExists` are therefore checked, and proved, with the windows of `switch_next`
left out (`tasking_windows`); with them the last is what `tasking_empty` refutes.

## 6. Proofs

TLAPS checks these for every value of the constants that the named assumptions
allow; a hypothesis beyond those is part of the theorem and explained here.

`HeapProofs` (assumption `HeapAssumption`). The inductive invariant is

    IInv == TypeOK /\ Linked /\ Ordered /\ Disjoint /\ NextFreeFirst /\ ForeignBelow /\ ForeignApart

No part is inductive alone: the merge of `kfree` keeps blocks disjoint only because the
links are inverse to each other and in order of addresses; a split keeps the order
because blocks are disjoint; `kmalloc` returns a block of the list because
`next_free` is the first free block; an expansion is above everything because
blocks and regions are below the break (`ForeignBelow`). There is one lemma for each
action and a lemma on neighbours of a merged block. From the invariant follow
`HeapTypeCorrect`, `BlocksDisjoint`, `ListIntact`, `FreeBlocksFound`, `RegionsUntouched`;
with arithmetic on pages `ExpansionMakesRoom`; with a lemma that
every step maps to a step of `Allocator` or a stutter, `HeapImplementsAllocator`. `NoByteLost`
says that headers and data of all blocks add up to what the expansions took. The sum is a fold
over the set of blocks: a split replaces one summand by two, a merge two by one.

Its second half is about `HeapRace`: `SoundBetweenSteps`, for any number of whole calls between any two
of the steps `HeapRace` gives a `kmalloc`, as long as none spoils it (`torn`); the split and the walk of `next_free` are one step
each there. `HeapProofs`' invariant does not hold here, since at `advance` `next_free`
may point to the block just taken; so the lemmas there are about two weaker parts, `Shape` (types, links,
order, room) and `NextFreeLow` (no free block below `next_free`), which every whole call keeps from
wherever `next_free` is. `RInv` adds what the interrupted call knows of its block at each point.
The hypothesis `NoEmptyRequest`, that nobody asks for zero bytes, is needed: with
`next_free` at a block in use, a `kmalloc(0)` that finds nothing appends a block of no pages (TLC
shows this). Nothing in the kernel asks for zero bytes.

`TaskingProofs` (assumption `TaskingAssumption`), for any number of threads and
any set `Preemptible`. The inductive invariant is

    IInv == TypeOK /\ LockInv /\ SleepersInOrder

`LockInv` says by the pc of the running frame which lock is held, and that
interrupts are disabled then: that is why no interrupt handler ever meets a
taken lock. There is one lemma per action. It yields `TaskingTypeCorrect`, `SleepListOrdered` and
`LocksNeverSpin`; the last two hold under full preemption although the census of
threads does not.

On top of these are two more invariants. `ShapeInv` holds under full preemption: the frames of
a stack are those its thread's code and the handler give it, in that order (`Shaped`); a
thread that does not run waits where `switch_task` leaves it; lists name
threads that exist. It is what lets a step be judged from the top frame alone, and
yields `IdleAlwaysWakeable` and `NobodyOverdue`. `PlaceInv` has the hypothesis `Undisturbed`, that
the timer keeps out of `Windows`: each thread is in exactly one of six places (running,
in the hands of `create_task`, chosen by `switch_next`, queued, asleep, lost), its
state says which, and a wake time still to come belongs to a sleeper or to one
about to be (`WakeInv`). What makes it inductive is `SwitchInv`: what `switch_next` knows, at each pc, of the
thread it takes off the CPU and of the run queue. From it follow `CensusHolds`, `SleepersOnTime` and
`AlwaysAThread`. Without the hypothesis the last is refuted by `tasking_empty`: so
the six points are where the trouble of section 5 is, and nowhere else.

`InterruptsProofs` (for `EachItsHandler` no assumption on the constants: whatever the periods, the speed of
the CPU and the gaps the firmware left). The inductive invariant is

    IInv == CpuInv /\ HandlerInv /\ SourceInv /\ OwnHandler

`HandlerInv` says whose handler vector 33 has at each pc; `SourceInv` that a source is
let through, and has an interrupt pending, only between the pcs where the boot code
means it to; `CpuInv` that until the scheduler's timer runs, interrupts are enabled outside of handlers, and that the local APIC
holds none back there. The last is what makes `pit_stop` enough: an interrupt of the PIT that
is pending there is delivered before the step, so none is left when the timer's handler takes the
vector over. `EachItsHandler` is its consequence. `TenMilliseconds` (`Calibrated`) needs `CalInv` as well: at each pc
how long ago the last tick was (`Phase`), whether it is pending, being handled or counted and not
yet read, and how far the running measurement has come, all in steps of at most `Lag`. Its
hypothesis `ShortSteps`, a period of six steps or more, is the weakest of its kind: with `6 * Lag - 1`
TLC finds a tick that is missed and a measurement of two periods. (At 1.19 MHz and 10 ms a
step is many orders shorter.) `FirmwareGap` does not matter to it.

`BootProofs`, on the lemmas of `PagingProofs` (assumptions `PagingAssumption`, `KernelAssumption`, `TouchedAssumption`,
`LoaderAssumption`, `FirmwareAssumption`), for every size of a page, every memory, every map the firmware
may have and all segments of a kernel. The invariant `BInv` says for each `phase` what it leaves to the next. While the
firmware is in charge, its table has entry 0 and no other (`Firmware`). `MapPages` makes a tree of tables
(`Booted`), with one more page mapped for each turn of its loop. The key is of the latest map only, so the map
the boot loader holds when `ExitBootServices` succeeds is `efi_map` itself. From it `BuildMemoryMap` makes a map
in order whose free pages are in no other use (`HandedOver`). `VmmPreinit` and `PmmInit` turn tree
and map into what the kernel starts from, and from there on it is

    IInv == Counting => \E T, w : KInv(T, w)

`T` is the tree of tables: its pages, the level of each, and the one table `up` and index
`ix` whose entry leads there. `w` is the free list, a sequence of pages other than those. `KInv` says that
these are what the words in memory say, that together they are the pages free at the start and the boot
loader's, and what the counters count. `PagesApart` is not inductive alone: that a fault
for one page changes no other needs that each table has one entry above
it, and the walk of a fault is in progress, with a page taken and not yet entered, at five
points of one step. So a step of the handler is cut into `EnterStep`s, one per level, which
add a leaf to the tree (`AddPage`) from the front of the list. `WayUnique`, that two
virtual pages with the same way down the tree are the same page, gives the refinement. `Lacks(T, V)` are the
tables missing on the ways of the pages `V`: each table added is one of them less, so `MapPages` and the handler of faults
run short exactly when there are fewer pages than that. Results, each from `Spec` alone:
`MapStaysRight`, `PagesStayApart`, `RunOutExactly`, `CountersStayRight`, `TypesStay` and `AddressSpaceImplemented`.

The loops over the firmware's map, the segments and the free pages are folds. `Folding` proves what a fold is for
an operator left open: the last of a sequence of values, each made of the one before (`FoldedBy`), from either end.
A proof module instantiates it once with each operator it folds. (The sum over blocks in `HeapProofs` is over a set, and rests on
what `Folding` says of its recursion over subsets, `Solved`.)

`LibraryProofs` has seven parts, one for each routine or object, for all values of `Library`'s constants.

*The list*, for any number of nodes. One sequence `w` describes all pointers:

    Chain(w)

says that `next`, `prev`, `head` and `tail` are those of `w`, and that every node in use is in `w` or lost.
Every operation of `list.c` makes a chain of the next state from a chain of this one; a chain is
what the walk from `head` meets (`Walk`), by induction over the walk. Then `ListWellLinked`, and
with the walk as refinement mapping `ListImplementsSequence`: the operators of `KList` that
`Tasking` uses in place of pointers, and the count kept with them, also through pops of an empty list.

*The terminal*, for every size of the screen and every text. `ScreenShows` is inductive once the paper is known to be of
lines shorter than the screen is wide, the last one with room; the work is in one character that
scrolls, fills a line, or both. Result: `TerminalShows`.

*Paths* of any length. The code goes through a path from its end and counts what `..` is to skip; the
reference goes from the root. `BothWays` compares them for one component, by where the rest of
the walk leads (`Leads`), and an induction over both folds gives `PathsCanonical`.

*The file*, for every block size. A range that ends inside a block has the pieces one expects (they are worked out
from the loop's counter), none is astray and each copies its own bytes; the bytes of the one block are those last
written (`FileInv`). Result: `TmpfsKeeps`.

*The log*, for every number of outputs, levels and lengths. What `OutS` and `Printed` leave in the buffer, call by call,
is the beginning of the message that fits (`SoFar`); which outputs have an entry in the table is
`Tabled`, and the loop over the table meets those and no other (`Met`). Result: `LinesReach`.

*Archives*, of any entries there is memory for, with two blocks of it behind them, and for any size of a block that
holds whole tar blocks larger than a header. The pieces of any range are worked out from the loop's counter, as many as blocks it
touches (`CutInto`), and joined they are the range (`CopiedRight`). An image has each header at the place its
entries before it end, each byte of data behind its header, and no header anywhere else (`LiesAt`, `HeadersAt`, by induction over
the image as a fold). So the node made for an entry is met at its header, and a read of it copies its own bytes. Result: `TarfsReads`.

*The clock*, for every date there is, in both formats of hours and of numbers, and for registers read before, after or
while the chip goes on. The days before a year and before a month, folds in the code, have a closed form;
each register is taken for the field it holds; and the difference of the date read from the one there
was is compared field by field (`Apart`). Result: `DatesRead`, with the errors `ClockRight` states.

`VfsProofs` (assumption `VfsAssumption`), for any names, any length of paths and any bound of tmpfs. The
inductive invariant is

    VInv == Shape /\ \E home, path : Located(home, path)

`Shape` are types. `home` gives each directory of tmpfs one place, `path` each node of the mount tree its path, and
`Located` says that what leads to a directory, an entry or the file of a node, leads there from
its place. `OnePlace` is not inductive: it speaks of what lookups reach now, and a mount
may hide a directory that a later one does not. A lookup is cut into components: `GoesOn` says what one
more leads to, and an induction over the length of paths (`SeqInduction`) gives `Found`, that each path leads to
something whose place it is, and for each kind of step which paths lead elsewhere than before
(`AddsLead`, `DeviceLead`, `HereLead`, `BelowLead`, `BelowSame`). `vfs_mount` has four outcomes: the file of a node is
replaced; one node is added; nodes are added of which all but the first have the empty name, which no
caller's name meets; or the kernel has stopped. Results: `OnePlaceHolds`, `DirectoriesAgreeHolds`,
`CallsShowHolds` and `NamespaceHolds`.

Induction is over numbers only, through the least number that is a counterexample (`LeastNat`, `LeastOf`):
it serves where the value of a recursive function or of a fold can be stated beforehand. Out of the provers' reach
are liveness under fairness and ENABLED, and recursive operators (the balanced tree).

Model-checked only: `EveryoneRuns` and `TimerGoesOn` (liveness), `TreeKeeps` (recursive operators), `NumbersRight` and
`FormatRight` (what is printed of a number, digit by digit, and formats put together from parts, have no closed form to go by), and
`ChildrenRight`, which filters the headers a walk over an archive meets by their names, character by character:
`SelectSeq` is one more recursion no theorem of the library speaks of. Where those headers lie is proved, for `TarfsReads`.

## 7. Not modelled

The keyboard, PCI and ACPI: port and table I/O without a protocol in the code
(`ps2_init` has no caller). The framebuffer only passes on what it was
given. Of the boot loader, the file's header, the font, the console and the search for
tables of the firmware. Of `arch_main`, tables of segments and per-CPU data, which are constants written to
registers. The string functions of the libc: one-line loops. `kernel2` is
in no build. Calls that only go through a node (`vfs_read`, `vfs_open`, ...) add
nothing to the operations behind them. `tmpfs_remove` and `terminal_writestring` have
no caller. System calls are registered and never made. `PROJECT.json` has the list with the reasons.

## 8. Plan

Modelled so far, the most important first: heap, list, scheduler, vfs, memory,
library, interrupts, the interrupted heap. Proved about: all of them but numbers, formats,
the names in archives and the balanced tree. Next:

1. `ChildrenRight` for every archive, from the proved layout of its image: what a walk of `readdir` meets.
2. Weaker counterparts of `Census` that hold under full preemption, in place of
   properties they imply.
3. An interrupt inside the split of `kmalloc`, should the code say what its callers
   may rely on then.
