# rOSe in TLA+

rOSe is a small 32-bit x86 kernel: a boot stage in assembly, a physical page
allocator, paging, a cooperative scheduler, a text console and the C library
functions they need. It runs on one processor, with maskable interrupts off;
nothing preempts it but an exception or an NMI, these end in `panic`, and `panic`
halts. Only `src/atomic.s` is written for several processors. Its difficulty
is therefore not in threads but in data structures laid over the memory they
manage, in addresses that mean different pages at different times, and in
control that leaves one stack and comes back on another.

This directory holds TLA+ models of it, the TLC runs that check them, and
proofs for the TLA+ proof system. Source paths below are relative to the
repository (`src/memory.c`).

## Inventory

| Component | State | Operations | What makes it correct |
|---|---|---|---|
| Physical page allocator, `src/memory.c` | `free_list`; a `struct free_pages` in the first page of every free block | `memory_detect`, `memory_allocate_page`, `memory_free_page` | no page lost or handed out twice; the list stays acyclic, sorted, disjoint; neighbours merge; only RAM above the kernel enters it |
| Page windows, `src/memory.c` | the page table of the kernel's 4 MB, the TLB, `free_logical_address1/2` | `_find_free_logical_address`, `_map_physical_address`, `_flush_tlb`, `memory_map_physical_address` | an access through a window reaches the page it was just mapped to; addresses given out stay valid |
| Paging set-up, `src/memory.c` | `kernel_pages`, `dummy_page_table` | `memory_init_paging`, `identity_map`, `remove_identity_map`, `memory_test_paged_address` | every free block's head and every page table stays reachable at its own address |
| Segment descriptors, `src/memory.c` | the GDT | `memory_init_gdt`, `_gdt_set` | the selectors in use select flat segments while the table under them is replaced |
| Scheduler, `src/scheduler.c` | the ring of `struct task`, `next_task` | `scheduler_init`, `scheduler_add_process`, `scheduler_run`, `scheduler_yield`, exit by return | the ring holds the live tasks; FIFO order; no starvation; a stack is not used after its page is freed |
| Context switch, `src/scheduler-helper.s` | saved registers, stacks | `_resume_task`, `_dealloc_and_jump_to_task`, `_get_current_task` | a task gets its own registers and stack back |
| Boot stage, `src/loader.s` | page directory and table | `start`, `map_kernel_loop` | the whole image is mapped, twice |
| Kernel entry, `src/kernel.c` | control registers, the descriptor tables in force | `kmain`, `fpu_init`, `panic` | order of initialisation; what `panic` prints is on the screen when it halts |
| Console and screen, `src/console.c`, `src/screen.c` | cursor, video memory | write, wrap, scroll, reset | what is written is shown, inside the screen |
| Streams, `src/stream.c`, `src/stdarg.c` | the digit buffer | `itoa`, `vprintf` | digits and arguments in order |
| Strings, `src/string.c` | none | `memmove`, `strcmp`, `strncpy`, ... | agreement with the C library |
| Atomics, `src/atomic.s` | a word several processors share | compare-and-set, increment | every increment counts exactly once; somebody always gets through |
| Interrupts, `src/interrupts.c`, `src/isrs.s` | the IDT, the NMI port | `interrupts_init`, `interrupts_disable`, the stubs, `_general_isr` | every exception reaches its stub; `struct registers` lies over what is on the stack |
| Serial port, `src/serial.c`, `src/io.s` | the UART | `serial_init`, the polling write | the port is set up as the comments say; no byte is dropped |
| Capabilities, `src/capabilities.s` | none | `CPUID` queries | stateless |

Interactions: `memory_detect` reads the boot loader's map and finds its windows
in the page table the boot stage left behind. The scheduler takes a page per
task from the allocator and gives it back from assembly, on the kernel's stack.
The allocator's header and a task's links lie over the same bytes of a page.
Merging free blocks calls into paging (`remove_identity_map`); building page
tables calls back into the allocator (`identity_map`). `kmain` runs on the page
table, the descriptors and the stack the boot stage left, replaces the
descriptors while it stands on them, and calls `memory_detect`, which takes two
entries of that page table. Everything that fails, every exception included, ends
in `panic`, which prints through console, stream and screen.

What is hard to test: any order of many allocations and frees, with merges on
either side; a page fault half way through `memory_free_page`; a stale TLB; a
page reached through the wrong one of two mappings; tasks that add tasks, yield
and exit while the scheduler holds a pointer into the ring; freeing the stack
one stands on; an exception between any two steps of the boot, or in `panic` itself;
two processors between the instructions of an increment; arithmetic on addresses
at page and 4 GiB boundaries.
`PROJECT.json` lists each at its line.

## Modules

| Module | Models |
|---|---|
| `PagePool` | what the allocator promises: a set of free pages, `panic` only when it is empty |
| `FreeList` | the allocator itself, headers in memory and all |
| `Windows` | `memory_detect` and `memory_allocate_page` access by access, through windows and TLB; extends `FreeList` |
| `Paging` | `memory_init_paging` and `identity_map` over the free list they take page tables from; extends `FreeList` |
| `RoundRobin` | what the scheduler promises: a first-in, first-out queue of tasks |
| `Scheduler` | the ring, the stack the processor is on, and the page pool under it (an instance of `PagePool`) |
| `ContextSwitch` | the same on registers and words of memory, with `scheduler-helper.s` by instructions |
| `Terminal` | what the console promises: rows of text that scroll together |
| `Console` | cursor and video memory |
| `Serial` | `serial.c` and the UART it polls, which sends on its own |
| `Kernel` | from `start` through `kmain` to the running kernel, exceptions and `panic`; extends `Console` and `Serial` |
| `AtomicCounter` | what the atomic operations promise: a counter that every call increments once |
| `Atomic` | `atomic.s` by instructions, on several processors |
| `Strings`, `Stream` | the string functions on a small memory; numbers and formats |
| `FreeListProofs`, `WindowsProofs`, `PagingProofs`, `SchedulerProofs`, `ContextSwitchProofs`, `KernelProofs`, `LibraryProofs` | theorems about the module they are named after; those about `Console` and `Serial` are in `KernelProofs`, those about `Atomic`, `Strings` and `Stream` in `LibraryProofs` |
| `OrderLemmas` | least and greatest elements of finite sets, for the proofs |
| `MC*` | finite instances |

On the memory side `Windows` implements `FreeList` and `FreeList` implements
`PagePool`. `Scheduler` and `ContextSwitch` use the pool `PagePool` specifies;
`ContextSwitch` implements `Scheduler`, which implements `RoundRobin`. Each level
is checked against the next. `Console` implements `Terminal`, also as part of `Kernel`, where
`panic` and the kernel's own output share it; `Atomic` implements `AtomicCounter`;
`Stream` extends `Strings`, from whose memory it takes formats and `%s` arguments.

### FreeList

Pointers in the list are page aligned, so they are page numbers here; byte
addresses are kept where `memory_detect` rounds and truncates them. `num_pages`
and `next` are functions of *all* frames, since a header is just the start of a
page: what a page's owner leaves there (`Scribble`) is what a later, wrong read
would find. `memory_detect` takes one step per chunk, and an allocation one step.
`memory_free_page` is followed write by write: the walk (`FreeWalk`), the new
header's two fields (`FreeSetPages`, `FreeSetNext`), the link to it (`FreeLink`), and
for each merge the enlarged count (`FreeMergeNext`, `FreeMergePrevious`) and the
unlinking (`FreeUnlinkNext`, `FreeUnlinkPrevious`). Every one of these has a fault
beside it (`FreeFault`), which strikes before its write if a page it reaches is not
mapped (`MayFault`); the kernel then stops with what has been written. An entry
that `remove_identity_map` has cleared may still be in the TLB, so an unmapped page may
also be reached (`Accessible`). A fault at memory.c:569 therefore leaves the first
block with the pages of the second while the second is still linked;
`SortedDisjointList` says so (`HalfMerged`) instead of leaving it out.
`KernelPagesLive` says whether `kernel_pages` is the running page directory, in
which case a merge unmaps the page it swallows. If it is not, `remove_identity_map`
clears an entry through a directory entry that is empty, so in frame 0, where the
model has nothing. Pages are numbers, so the panic for an unaligned address
(memory.c:582) is left out. All arithmetic wraps at the
address space, `PageSize * NumFrames` bytes, and the signed subtraction at
memory.c:497 at half of it. Properties read the list back as a set of heads
(`IsFreeList`), so they do not depend on how the operations computed it, and
`UsablePages` says independently of `memory_detect`'s arithmetic which pages the
map offers.

### Windows

`kernel_land` is the one page table the boot stage filled, `tlb` what the
processor remembers of it. An access (`Reach`) goes by the TLB if it can;
`Touch` is what it leaves there. Mapping does not flush, as in the code; parking
a window (frame 0) does. `Speculate` lets the processor cache a present entry
nobody has used yet, as the architecture permits, for the entries in
`Speculated`. `ImplementsFreeList` maps the state back: an allocation takes
effect when the rest of the block has its header. `memory_free_page` is not here:
it uses physical addresses.

### Paging

This models a routine that does not run in this commit: `kmain`'s call,
`memory_init_paging((void *) MEMORY_PAGE_SIZE, end)`, is commented out (kernel.c:107).
The routine reaches free blocks, page tables and the dummy at their physical
addresses, and so takes for granted that memory is mapped at its own address until
it loads CR3. `loader.s` no longer provides that: it maps the image only, and the
first entries behind it are `memory_detect`'s windows (run `windows_alias`). With this
loader the first header beyond the table's reach would fault. The module says what
the code does where its premise is given.

The call comes after `memory_detect`, so the initial states are
*all* free lists there can be above the kernel (`ListOf` of every set of pages),
except the empty one: the code reads `free_list` unchecked. One step is one call
of `identity_map` (with the recursion for the page table it has just taken) or one
turn of the loop over the free list; the allocation inside is one step, as
`FreeList` is checked for that. A page table lies over the header of the free
block it was: `memset` zeroes `next`, and entry 1 of the table lies over it
(`Overwritten`). The loop at memory.c:434-438 walks the list while `identity_map`
takes pages from its head, so its cursor can stand on such a page: it then ends
early, or follows a table entry as if it were a pointer (`WildPointer`). From there on
each turn maps the page some word points into and takes the next word from there
(`WildStep`, any page of `Garbage`), until a word is zero (`WildEnd`): nothing bounds
it. `TablesMapped`, `KernelMapped` and `PagesKept` hold all the same. The
property `BlocksMapped` therefore claims what the code does achieve: the heads of
all blocks are mapped but that of the first, which the loop skips, unless the walk
was cut short in this way.

### Scheduler

A page *is* a task (its `struct task` is at the bottom of it) and the stack
pointer rounded down is the running task, exactly as `_get_current_task` has it.
`pc` follows control: `caller` (outside the tasks), `run` (the head of the loop
in `scheduler_run`), `task`, `add` and `cleanup` (inside
`scheduler_add_process` and `_cleanup_task`), `dealloc` (on the kernel's stack,
the page not yet freed), `resumed` (`_resume_task` has returned). Freeing a page
overwrites `next` with the allocator's. Not modelled: calling `scheduler_run`
from a task or `scheduler_yield` outside one, for which the code gives no
meaning.

### ContextSwitch

Memory is an array of words, and `next_task`, `next`, `previous`, the saved
registers, the stacks and their return addresses are words in it, at the offsets
of `struct task`. Each assembly routine is a chain of instruction operators on a
record of registers and memory (`ResumeTask`, `YieldHead`, ...), so an order that
loses a register or a base address shows. A routine is one step, because nothing
interrupts it; it ends in a `RET`, and `Where` follows the word on top of the
stack. Contexts compute (`Compute` gives every register a value that tells the
context, the register and one of two generations) and use their stacks
(`PushLocal`, `PopLocal`). `_push_to_task_stack` and the unlinking in `_cleanup_task`
go store by store as well, as each may change a word the next one reads. `called`
and `locals` are history: what a context had in
its registers and on its stack. `PageWordsAssumption` says how much room the
switch needs: a task needs `Locals + 8` words behind its `struct task`, the kernel,
whose page holds `next_task` as well, needs 9. With less the stack runs into the
`struct task`, or into `next_task`, which nothing in the code checks. The mapping to `Scheduler` reads the links out of memory and
rounds the stack pointer. How deep the compiled C functions nest on a stack is
not modelled.

### Console

A call with a character is one step; formats and numbers arrive as sequences of
such calls. `Wraps` compares the column after its increment, as console.c:51
does, so column `COLS` exists: what is written there lands on the first cell of
the next row, or, in the last row, on the cell behind the screen. `Terminal` has
this as an action of its own (`PutBehind`), and apart from it is a plain terminal
of rows. Positions passed to `console_set_cursor` are on the screen (the source
passes 0, 0 only). Colours are left out.

### Serial

`uart` is the device: its registers, and a FIFO that `Transmit` empties at its own
pace. `Out` is what `io_outb` does to it: with DLAB set, registers 0 and 1 are the
divisor; register 2 can empty the FIFO; a byte for a full transmitter is lost.
`serial_init` is its seven writes in order, and `SerialWriteChar` is enabled when
`_is_transmit_empty` would end the loop. The device is external; it is modelled
from how `serial.c` uses it. It starts with the registers some firmware left and a
byte still to be sent.

### Kernel

`at` is the routine the processor is about to execute, and each is one action:
`Start`, `MapKernelLoop`, `EnablePaging`, `HigherHalfStart`, then the calls of
`kmain` in its order. `MapsEntry` compares an entry with its flag bits (3) against
`end`, as `map_kernel_loop` does. `Descriptor` and `Delivered` say what the processor
makes of a selector and of a gate: `SetLimit` and `SetupInterruptGate` cut limits
and addresses into the fields of the structs, and these put them together again.
What `panic` prints is
`PanicText`: one letter for its message and the dump behind it, so a message longer
than a row, which wraps, is not among the checked ones. `StackAt` is what processor, stub and `asm_general_isr` push, in order, and `Regs`
is what the fields of `struct registers` find there. `Exception` may come before
every step, in `panic` too; an NMI may not once `interrupts_disable` has masked it,
and would end HLT otherwise. Where a gate, a segment or a mapped stack is missing
the machine resets. `memory_detect` is module `Windows`; here only the two page
table entries it takes are seen. `ConsoleCall`, `SerialCall` and `PanicCalled` are
what a running kernel does in any order.

Two facts about the code are stated in the properties rather than hidden: an image
that ends one to three bytes into a page leaves those bytes unmapped (the second
disjunct of `ImageMapped`), and `fpu_init` executes `FINIT` with EM set on a
machine without an FPU, which resets it as there is no IDT yet (`ExceptionsPanic`
claims only what happens after `interrupts_init`).

### Atomic

One step is one instruction that touches the shared word, or the flag it sets.
`atomic_incr` is `LOCK INC` and then a `MOV` that reads the word again, so its
result may count other processors' calls too; the abstract `AtomicCounter` says just
that: the value returned is one the counter had between the call's own increment
and its return (`own` is history). The compare-and-set is in the loop
of `tests/verify-atomic.c`. The widths differ in `Width` only.

### Strings and Stream

Copies go byte by byte in the order of the loops, scans are least indices. The
memory ends: a copy that leaves it stops the machine, as `strncpy` with n = 0
(reached by `strcpy` of an empty string) does. What loops from a state to the next
is a recursive function, of the turns made (`Copy`, `Vprintf`), of the number that
is left (`Itoa`) or of the place that is reached (`Strstr`). `Vprintf` follows the
format `Turn` by turn; `PrintfExpandsFormat` states without following it which
character of a format stands for what: a `%` begins a conversion if an even number
of them stand directly before it (`BeginsAt`). It asks of the caller only that what
a `%s` takes is a string or `NULL`. Memory
holds bytes; what a function reads as a `char` is `Signed` of it, as `char` is signed
with this compiler and target.

What the functions do differently from the C library is in the model and stated by
its properties:

* `memcmp`, `strncmp` and `strcmp` subtract signed characters (string.c:58-63), so
  bytes from 0x80 up come before all others; the C library compares unsigned ones.
* `strcmp` takes a string and one that begins with it for equal. The XXX at
  string.c:137 says that it should not: "we want to behave the right way if the
  lengths don't match". `ComparisonIsLexicographic` states what the code does.
* `memchr` compares a signed character with an `int`, so it does not find a byte
  that is passed as 128 to 255. `strstr` passes a `char`, which it does find.
* `strcpy` drops the last character, `strchr` never finds the terminator, `%d`
  prints unsigned.

## Runs

| Run | Bounds | Shows |
|---|---|---|
| `free_list` | 10 frames of 4 bytes, 4 usable pages in 3 chunks, all identity mapped at boot, merges unmap | the safety properties, also where a fault stops `memory_free_page` before any of its writes, `FreedPageCoalesced`, `FreeReturns`, refinement of `PagePool` |
| `unmapped_free` | the same | **violation** of `FreedPageIsMapped` |
| `high_memory` | a chunk above the address space | **violation** of `OnlyRamHandedOut` |
| `paging` | 12 frames, 4 regions of 3 table entries, kernel pages 1 to 3, every free list above; a wild pointer points into frame 0 or the last page of a region | `TablesMapped`, `KernelMapped`, `BlocksMapped`, `PagesKept`, `PagingEnds` |
| `scheduler` | 3 pages | the ring, no use after free, FIFO order (refinement of `RoundRobin`), `NoStarvation` |
| `context_switch` | 2 tasks, pages of 20 words, one word of their own on each stack | registers and stacks kept, refinement of `Scheduler` |
| `atomic` | 3 processors, a word of 3 values | refinement of `AtomicCounter`, `SomebodyCounts` |
| `kernel` | screen of 3 rows of 2 columns, 2 cells behind; 5 page table entries, 5 image sizes; vectors 2, 8, 16; 2 nested exceptions | `ImageMapped`, `SegmentsServe`, `ExceptionsPanic`, `PanicIsShown`, refinement of `Terminal`, `MemoryBehindScreenKept`, `SerialBytesArrive`, `KernelSettles` |
| `library` | 5 bytes, 6 characters of which 3 are negative, all formats of up to 4 characters | string functions and `vprintf` against reference definitions |
| `windows` | 10 frames of 8 bytes, 6 page table entries, 6 usable pages in 4 blocks | refinement of `FreeList`, `MappingsStand`; with and without a memory map |
| `windows_speculation` | the same, windows may be cached early | **violation** of `ListBeginsAtFreePage` |
| `windows_alias` | the same | **violation** of `OwnedPageIsIdentityMapped` |

Why the bounds are enough. The free list's steps look at a page, its
predecessor and its successor: four usable pages in chunks that touch, do not
touch, start inside the kernel and end inside a page give every shape of
neighbourhood (a block of one, of several; merging on neither side, one side,
both), and the list can be empty, whole or broken into three. The one scribble
makes a stale header a wrong count and a wrong pointer. The ring's
steps look at a task and its two neighbours, which differ from each other and
from it once there are three. A switch involves two contexts; with two tasks and
the kernel there is a third it must leave alone, and in pages of 20 words the
deepest stack ends directly above the `struct task`. Three rows show a row that is
neither first nor last while scrolling, two columns a first and a last one. In
`paging` a region's page table is needed while none, one or several others exist,
and the list's first blocks can be used up entirely. The wild walk maps pages
of every region, with and without a table. Five bytes hold two strings
that overlap, touch or lie apart, and `%` can stand at every place of a format, before
each of the four letters; with six characters the terminator and two more are positive
as chars and three negative. In
`kernel` the image ends one, three and four bytes into a page and at the end of
one, and once leaves `memory_detect` no entries; half words of four bits put the
stubs on both sides of a half word's boundary; vector 2 is the NMI, 8 pushes an
error code and 16 does not; a second exception strikes the first one's `panic`, and
a third would meet the same code on a stack that is only deeper (`MaxNesting`
stands for the stack's end); the console never looks at the letter it shows, so one
printed letter beside panic's is enough. Three processors let one be overtaken
twice, and a word of three values rolls over. In
`windows` one block is three pages long, so a window is used twice in a row for a
split, and there are more requests for addresses than addresses. Counters need
no further bounds: the pages bound everything. For the safety properties of `FreeList`,
`Windows`, `Paging`, `Scheduler`, `ContextSwitch`, `Atomic`, `Strings`, `Stream`,
`Console`, `Serial` and `Kernel` the theorems below remove the bounds altogether.

Deadlock is off where `panic`, a page fault or a failed assertion halts the
machine for good (every run but `atomic`), and in `paging`, which ends; it is on for
`atomic`, whose processors never stop.

### What the violations mean

* `unmapped_free`: `memory_free_page` assumes its page is identity mapped
  (comment at memory.c:586), but merging unmaps (571) and `memory_allocate_page`
  does not map again. Shows only with `kernel_pages` live, which `kmain` has
  switched off in this commit.
* `high_memory`: the casts at memory.c:479-480 truncate 64-bit chunk addresses.
* `windows_speculation`: `memory_allocate_page` remaps a *present* entry and reads
  through it without `INVLPG`; `memory_detect` has it.
* `windows_alias`: the boot stage uses one page table for low memory and for
  0xC0000000, so parking a window just above the kernel at frame 0 also redirects
  the identity address of the first pages behind the kernel.

## Fairness

`FreeList`: weak fairness of `MemoryDetect` and of the steps of
`memory_free_page`: a processor that has entered a function goes on executing
it. Nothing obliges anyone to call. `FreeReturns` then says that the walk ends.

`Scheduler`: weak fairness of `KernelStep`, the steps of the kernel's own code,
for the same reason. Tasks are under no obligation: one that never yields keeps
the processor, as in any cooperative scheduler, so `NoStarvation` has as its
premise that control comes back to `scheduler_run`'s loop again and again. It
does not assume that tasks stop adding tasks; there the finite memory decides.

`Atomic`: weak fairness of each processor's steps inside a call, none of the calls.
`SomebodyCounts` is lock-freedom of the loop; that a given processor gets through is
not claimed, and not true.

`Kernel`: weak fairness of `KernelStep`, what the processor does without anything
calling for it, and of `Transmit`, as a UART sends what it holds. Exceptions are
under no obligation. `KernelSettles` then says that the boot ends, that `panic`
halts, and that the polling loop of `serial.c`, which has no bound, is left. A reset
counts as an end of the boot; `ExceptionsPanic` confines it to the time before
`interrupts_init`. The second half of `KernelSettles` is that nothing ends
`panic`'s HLT: `interrupts_disable` before it masks the NMI, the one thing that would.
SMI and reset are outside the model, as they are outside the source, and so is what
`panic`'s caller would do if it came back.

`Paging`: weak fairness of its only process, for `PagingEnds`: every call of
`identity_map` ends, whatever it maps, and so does the walk over the list, also where
it meets a page that has become an empty page table. If it goes astray
(memory.c:436-437) its end is not claimed: a word of the pages it follows need not be
zero.

The other modules state no fairness; only safety is claimed of them.

## Proofs

`tlapm` checks `OrderLemmas`, `FreeListProofs`, `WindowsProofs`, `PagingProofs`,
`SchedulerProofs`, `ContextSwitchProofs`, `LibraryProofs` and `KernelProofs`. Every
invariant, safety action property and refinement the passing runs check is
stated by a theorem.

**FreeList** (any page size, memory size, kernel end, memory map, set of
mapped pages). `TypeCorrect` needs the constants' assumptions only. The others
also assume `WellFormedMap`: free chunks ascending, not overlapping, below
4 GiB, shorter than 2 GiB, each holding a whole page above the kernel.
`memory_detect` is wrong about maps that are not so (run `high_memory`).
`SortedDisjointList` is not inductive: it says nothing of what the locals of
`memory_free_page` point at. `IInv` fixes the set `H` of block heads and adds that
free and owned pages partition what has been donated (`AccountInv`), that the
last chunk's head is the last in the list while `memory_detect` runs
(`DetectInv`), that during the walk `previous_node` and `next_node` are
consecutive in the list and enclose the new page (`WalkInv`), and that during the
merges they are its neighbours (`MergeInv`). The order holds after every single write,
but the blocks are not disjoint between the two writes of a merge (`OrderInv`): there
`MergeInv` says which one has its successor's pages already (`HalfMerged`), and a fault
leaves it so. Each operation has a lemma that says
what it does to `H` (`TakeLastPage`, `SplitFirstBlock`, `LinkPage`, `PagesAdded`, `BlockUnlinked`,
`AppendChunk`); `OneList` shows that memory cannot be read as two different
lists. From `IInv`: `ListStaysSorted`, `PagesAreConserved`,
`MergeAssertsNeverFire`, `FreeListImplementsPagePool`. `FreedPagesCoalesce` proves
the action property `FreedPageCoalesced`: `MergeInv` says what the list looks like
before the second merge, `MergedNext` that the first has left no block that begins
behind the freed page's, and `BlockUnlinked` that the second joins the one that ends
in front of it.

**Windows** (any page table, image, memory map and memory size; whatever the
processor has cached). `MappingsNeverMove` assumes `RoomForWindows`: the image leaves
two entries of its page table. Without, `memory_detect` panics, which is in
`Kernel`. `TableInv` is what `MappingsStand` rests on: the windows are
the first two entries the loader has left, for ever (`WindowsChosen`), and no entry
but a window is in the TLB while it is absent (`NothingStale`), so an address that
is given out has no past. `WindowsImplementFreeList` also assumes `WindowsNotCached`:
the processor caches a window's entry only when it is used. That is no promise of
the architecture, and run `windows_speculation` is what happens without it; the
theorem says that nothing else is wrong with the missing `INVLPG`. Its
invariant `AccessInv` adds to `TableInv` where each access is going to go: between
two chunks the window not about to be remapped still reaches the block before
(`DetectReach`), during an allocation the first window reaches the block that is
split, and a window that is about to be remapped without a flush is not in the TLB
(`AllocateReach`). The refinement needs
no well-formed memory map: reaching the pages `FreeList` names is one question,
whether they are the right ones another.

**Paging** (any page size, memory size, table size and kernel, from every free list
above the kernel; no assumption on the memory map). That the four safety properties
hold at the end does not follow from themselves: `PInv` says of each loop that what
lies before its cursor is `Covered`, mapped or the page of the call in progress; of
each table that nobody else has it and that its `next` is still `NULL`, which is
why a walk that comes to one ends; and of the walk that its cursor is on a block or
on a page table, and that the blocks up to it are covered. `TakePage`, from the
allocator's `RemoveFirstBlock` and `ShortenFirstBlock`, says that taking a page makes
no new block but the first; `CoveredKept` that mapping a page unmaps none. From
`PInv`: `TablesAreMapped`, `KernelIsMapped`, `BlocksAreMapped`, `PagingKeepsPages`.

**Scheduler** (any finite set of pages). `RingHoldsLiveTasks` is not inductive:
between an exit and the advance of `next_task` the ring's first task is not
`next_task` (`FirstTask`), and `Advance` relies on where `_cleanup_task` left it.
`IInv` says that there is a sequence of distinct pages which is the ring, that its
members are the live tasks, that `next_task` is its last member while
`scheduler_run` waits (`Behind`), and where the processor stands (`Control`).
`LinkTask`, `RotateRing` and `UnlinkRing` say what the operations do to the
sequence: append, rotate, drop the head. From it follow `SchedulerTypeCorrect`,
`RingIsIntact`, `StacksAreOwned` and, since these are the steps of a queue,
`SchedulerImplementsRoundRobin`.

All of these need least and greatest elements of sets of numbers, which `OrderLemmas`
proves from the library's well-founded orderings, as induction with an operator
parameter is out of the provers' reach.

**ContextSwitch** (pages of any size that has room, any number of tasks, any depth of
what they keep on their stacks). `StacksKept` is not inductive, as it says nothing
of the registers and links a switch goes by; `RegistersKept` compares a return with a
call any number of steps ago. `SwitchInv` holds in memory what connects them.
`RingIsLive`: following `next` or `previous` from a linked task stays among the
linked tasks, so no link leads to a page that is free. `Control`: where the stack
pointer is for each `pc`, and which return addresses lie above it. `KernelWaits`
and `TasksWait`: what a context that waits has in its `struct task` and in the seven
words of its stack, namely the registers of its last call (`Yielded`), or what
`scheduler_add_process` put there (`Fresh`). Each routine of
`scheduler-helper.s` has a lemma that says which registers and words it leaves
(`SaveRegistersIs`, `ResumeTaskIs`, `YieldHeadIs`, ...), and each step a lemma that says
that the words of every other context are not among them. From `SwitchInv`:
`SwitchKeepsStacks`, `SwitchKeepsRegisters`, and, as each step changes `next_task`,
`next` and `previous` as `Scheduler`'s step of the same name does,
`SwitchImplementsScheduler`. The proof found what the run could not, as its bounds
exclude it: with tasks that keep nothing on their stacks, pages one word
smaller pass every check of a task's stack, and the kernel's overwrites `next_task`. The
second bound of `PageWordsAssumption` is there for that; 4096 bytes satisfy both.

**Atomic** (any set of processors, any width). `AtomicImplementsCounter`: the phase
of each processor (`Phase`) is the abstract counter's state, and every instruction
is a step of it or a stutter (`PhaseOfGoto`); what `MOV` reads lies between the
processor's own value and the present one on the circle of words
(`BetweenEndsInWord`).

**Strings** and **Stream** (a memory of any size, characters and integers of any
width, any format, any arguments). The invariant is small, `StringsTypeOK`: the
memory holds characters; with it `StringsTypeCorrect`. The work is in what the
loops compute, for each memory there may be. A recursive function is a `CHOOSE`, so
for each there is a lemma that a function with its equation exists (`CopyingExists`,
`NumeralsExist`, `PrintingExists`, ...), and then, in place of an induction theorem,
either `Upwards` (the numbers for which something fails have no least one) or a
least counterexample. `StringsCopyExactly` rests on
`CopyInSafeOrder`: a copy in an order in which no byte is read after it has been
written is a copy through a buffer. `StringsCompare` reduces `memcmp` to the first
difference (`MemcmpIs`) and that to signed characters, which differ where the bytes do
(`SignedChars`), and `StringsConcatenateExactly` strings to their lengths
(`HasLength`). `StrstrCorrect` follows the search from one start to the next
(`SearchTurn`): a comparison that runs over the haystack's end differs at the
terminator. `ItoaCorrect` says of the digits of `value / radix` and one more what they
stand for (`NumeralLonger`). `PrintfCorrect` has a loop invariant, `Printed`: after
each turn the loop is at a character that does not end a conversion, has taken
an argument for each conversion before, and has written what the
characters before stand for; `BeginsNext` is the arithmetic of even and odd runs of
`%`, `TakenSmall` bounds the arguments by the format. Assumed of the constants:
`StringsAssumption`, and `StreamAssumption` (characters and arguments are numbers, `%` is not the
terminator).

**Console** (a screen of any size, any letters). `OffsetInCells` and `OffsetUnique`
are the arithmetic of cells; with them each routine's effect on video memory
is its effect on the rows that are shown, scrolling among them. `ConsoleTypeOK`,
which says that the column never passes `COLS`, is inductive, and from it follow
`ConsoleStaysOnScreen` and `ConsoleImplementsTerminal`.

**Kernel** (any page size, page table, image sizes that fit it, handler addresses,
vectors, nesting). Each step of `Kernel` is a console step or leaves the console
alone, so `KernelScreenIsTerminal` and `KernelStaysOnScreen` follow from the facts about
`Console`. `IInv` says that a table is in force only when it is filled in
(`GdtInv`, `IdtInv`), that the loader's mapping is there from the loop on (`MapInv`),
and that `at` agrees with both. `KernelImageMapped` rests on the arithmetic of the
loop's comparison and on `memory_detect` taking only absent entries;
`KernelExceptionsPanic` on `HalvesMakeAddress` and `EveryExceptionDelivered`: a
handler's address survives being cut into half words, and with `IInv` every
exception finds its gate and its segment.

**Panic** (the same, a dump of any length that fits the screen). `PanicReachesScreen`
needs two invariants more: `ScreenInv` gives every cell of the screen as a
function of how many characters `panic` has printed, from `console_reset` on, and
`TrapInv` says that the handler's `regs` are what its stack makes them. For the
latter, the concatenations that make the stack are followed word by word into the
fields of `struct registers`. `KernelTypeCorrect` joins the types of
console and port to those of the machine (`MachineTypes`).

**Serial** (the same, a FIFO of any size). `KernelSerialBytesArrive` rests on
`SerialInv`: DLAB is clear between any two steps, and the port is programmed as
`serial_init` means it from there on; a step of the kernel's or of the device's own keeps that
(`SerialInvKept`). So a byte goes to the transmitter and not to the divisor, and after
the polling loop there is room for it.

Assumed of the constants: `ScreenAssumption` (a screen that has cells; control
characters are no letters), `SerialAssumption` (bytes are bytes) and
`KernelAssumption` (an image that fits the page
table, stubs in 32 bits, a dump that fits the screen; no #AC, which privilege level
0 cannot raise; at least one exception, which is a bound of the model).

The levels are proved one by one: `Windows` to `FreeList` to `PagePool`,
`ContextSwitch` to `Scheduler` to `RoundRobin`. That they compose is an argument and no
theorem, because the prover cannot cite the theorems of a module for an instance
of it. It is this: a behaviour of the lower level, mapped by the refinement,
is one of the middle level, for which the upper refinement is a theorem.

Model-checked only, and why:

* The liveness properties `FreeReturns`, `NoStarvation`, `PagingEnds`, `SomebodyCounts`
  and `KernelSettles`: liveness under fairness is out of the prover's reach.

## Plan

Done: the modules above, and the proofs of their safety properties. What is left:

1. `Kernel` over `Windows` in place of the two page table entries it sees now.
2. `strncpy` and `memset` against reference definitions, as `memmove` and `strncat`
   have them.

## Not modelled, and why

* `interrupts_enable` and the return path of `asm_general_isr` (`POPA` to `IRET`):
  nothing calls the one, and `_general_isr` ends in `panic`, so nothing reaches the
  other. With IF clear throughout, there are no IRQs either.
* `strrchr`, which is a scan like `strchr`.
* That `atomic_compare_and_set64` overwrites its caller's EBX and ESI: the model has
  no registers of callers.
* The fractal mapping of `loader.s:103`, which nothing uses; colours; the wording of
  messages and register dumps, for which letters stand.
* `src/capabilities.s`: `CPUID` queries, which have no state. The one answer the
  kernel depends on, `capabilities_has_fpu`, is a variable of `Kernel`.
* The user-space tests, which were read for what they promise, but for the loop of
  `verify-atomic.c`, which is in `Atomic`.
