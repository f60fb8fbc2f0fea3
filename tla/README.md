# TLA+ specifications of RustKernel

RustKernel is a UEFI boot loader and a kernel for x86-64 in Rust, with the tools
that put them on a disk image. This directory holds TLA+ models of its memory
management, boot sequence, process construction, interrupt handling, PCI scan and
image formats, the TLC configurations that check them on small instances, and TLAPS
proofs about all of them but PCI and the ISO image. `PROJECT.json` maps every
definition to the lines it stands for.

## 1. The system

| Component | Source | State | Operations |
|---|---|---|---|
| Frame allocator | `kernel_api/common/src/mem.rs` | UEFI memory map, a lazy iterator over its usable frames | `new`, `allocate_frame`, `allocate_size`, `swap_map` |
| Range mapping | `mem.rs` | active page table, global allocator | `map_virt`, `map_phys`, `map_phys_table` and the wrappers that compute a size |
| Heap | `linked_list_allocator.rs`, `allocator.rs` | bottom, size, used, hole list, one static per program | `init`, `update`, `alloc`, `dealloc`, `extend` |
| Heap pages | `allocator.rs`, `kernel_loader/src/main.rs` | mappings of HEAP_START.. in loader and kernel tables | `init_heap_new`, the copy loop of `run` |
| Processes | `process.rs` | a page table per process, loaded frames | `kernel_from_elf`, `from_elf` |
| Boot image mapping | `kernel/src/main.rs` | mapping at BOOT_IMAGE | `map_virt`, then a loop over the frames |
| Interrupts | `kernel/src/interrupts.rs`, `kernel_api/macros/src/lib.rs`, `gdt.rs` | IDT stubs, one interrupt stack, globals for the old stack, APIC mutex, handlers | stubs, `interrupt`, `register_handler`, `send_eoi`, `lapic_spurious` |
| Scheduler | `process_manager.rs` | PROCESSES, NEXT_PROCESS | `spawn`, `schedular` |
| Boot image file | `boot_image_generator` | count, headers, files | the generator's three loops; `BootImageFS` as reader |
| ISO image | `disk_image_generator/src/iso` | tree, LBAs, output position | `create_iso` in two passes |
| Loader and kernel main lines, UEFI memory map | `kernel_loader/src/main.rs`, `kernel/src/main.rs`, `efi.rs` | memory map, three address spaces | `get_memory_map`, `run`, `_start` |
| ELF reader | `elf.rs` | the file | `progam_headers`, `segment` |
| PCI | `kernel/src/drivers/pci.rs`, `device.rs` | MCFG, the window at CONFIG_SPACE, device list | `init`, `gather_devices`, `get_bars`, `map_address`, `add_device` |
| Memory routines | `util.rs` | memory | `memmove`, `memcpy`, `memset` |
| I/O APIC entries, system calls, serial port, UEFI protocols | various | | see section 8 |

**How they interact.** The loader takes the memory map from UEFI, builds the frame
allocator, switches to a page table of its own, backs the heap with pages, reads the
boot image (linked into it), builds the kernel's address space with
`kernel_from_elf`, copies the heap's mappings into it and jumps. *Clones* of the
frame allocator and of the heap travel in `KernelParameters`; the kernel continues on
them with `init_heap` and `swap_map`. The kernel then sets up interrupts, maps the
boot image, sets the stack of the interrupt handlers, builds the first driver's
address space from the image's second file and enables interrupts. Everything runs on
one CPU; the only concurrency is interrupts, with each other and with `_start`.

**What is hard.** State cloned and continued elsewhere (allocator, heap). Results of
`map_to` and `map_virt` that are dropped in seven places. A window onto physical memory
whose end is computed from sizes and not from addresses. One allocator that supplies both data frames
and, inside `map_to`, page tables. Ranges taken as inclusive up to the page *after*
the last byte. One interrupt stack for all vectors, with `sti` before `iretq`. Global
variables that hold the interrupted stack. A spin lock taken in a handler. Image
writers that reserve space by one computation and fill it by another. PCI registers
that are overwritten to be read. A copy routine that must not overtake itself.

**What makes each part correct.** Allocator: no frame twice, only usable ones, nothing
lost that need not be. Mapping: `Ok` means visible, nothing remapped, errors leave a
prefix. Heap: blocks and holes disjoint, counters exact, across the hand-over. Heap
pages: `Ok` means backed although results are dropped. Processes: the file's bytes are
at their addresses, no frame serves twice. Boot: whatever was dropped, a kernel that
runs has all its pages. PCI: resources are those the device decodes, and nothing but
a BAR is overwritten. Interrupts: an interrupt returns to
what it interrupted, retires itself only, takes no lock its victim holds, is served.
Images: what is written can be read back, and no block has two owners.

## 2. Modules

| Module | Models | Extends |
|---|---|---|
| `FramePool` | abstract specification: a set of free frames, one taken at a time | |
| `MemoryMap` | descriptors of the UEFI map, usable memory, `get_mem_size` | |
| `FrameAllocator` | `PageTableFrameAllocator` | `MemoryMap`; instantiates `FramePool` |
| `FrameAllocatorProofs` | theorems about it | `FrameAllocator` |
| `PageTable` | `map_to` for pages of every size, `identity_map`, `translate_page` of the x86_64 crate (external) with tables of `Entries` entries on `Levels` levels | |
| `Paging` | range mapping, one page to a step | `PageTable` |
| `BootImage` | `_start`'s mapping and reading of the image, after any other mapping calls | `Paging` |
| `ProcessBuild` | `kernel_from_elf` and `from_elf` with the ELF reader, memory cell by cell | `PageTable`, `MemoryMap` |
| `Boot` | the boot from the memory map to the first driver: firmware calls, heap pages, kernel process, runtime map, copy of the heap, jump, `swap_map`, I/O APIC, driver process | `ProcessBuild` |
| `PCI` | `pci::init` and the scan of the configuration space | `PageTable` |
| `Memmove` | `memmove`, `memcpy`, `memset` | |
| `Heap` | the heap in loader and kernel; the hole list of the linked_list_allocator crate is external | |
| `Interrupts` | stubs, dispatch, EOI, scheduler, the part of `_start` that sets them up | |
| `BootFS` | boot image writer and readers | |
| `IsoTree`, `IsoImage` | the ISO's tree and sizes; `create_iso` | `IsoImage` extends `IsoTree` |
| `InterruptsProofs`, `MemmoveProofs`, `HeapProofs`, `BootFSProofs` | theorems about the module of that name | it |
| `PageTableProofs` | what `map_to` does to a table of any geometry; arithmetic of pages | `PageTable` |
| `PagingProofs` | theorems about range mapping and the boot image | `BootImage`, `PageTableProofs` |
| `BootProofs` | theorems about the boot | `Boot`, `PageTableProofs` |

`MC*.tla` and `*.cfg` give the constants their values. Actions have the names of the
functions they model; a loop is one action per iteration with the function's early
returns as its disjuncts. An operator whose comment begins with "Mutant" is a
plausible mistake in the code; it is not part of the specification and exists to show
that a property notices it.

Abstractions. Pages, tables and addresses are scaled down, with the same rounding
rules. A frame allocator outside `FrameAllocator` is the sequence of frames it has still
to issue, which is what the theorems of section 6 justify; `Boot` computes that sequence
from the map, again after `swap_map`. Memory in `ProcessBuild` holds *which* byte of which file is in a cell. In
`Heap` a hole's node takes 4 units aligned to 2 (16 bytes aligned to 8). In
`Interrupts` a stack is the identity of the frame at its top. In `BootFS` a byte is
its owner and offset; `File::write` may write any prefix of a file's data, as its count
is dropped, and writes the count and the headers, a few bytes each, whole. In `PCI` a configuration page is a header with six registers, a
register is its kind, its address part and the size it decodes; checked arithmetic that
overflows panics, as in the build the repository uses. In `Memmove` every byte of memory
is told apart from every other. In `IsoImage` names are the lengths of their parts, so that all
sizes are the real ones (blocks of 2048 bytes), and the image is the set of pairs of a
block and what was written into it. Output and page flags are left out. Integer
overflow is not reached by the scaled addresses; the exceptions, casts to u8 in the
ISO records (`% 256` in `Walk`, `NMFits`) and the arithmetic on PCI registers
(`Overflows`), are modelled.

## 3. Runs

Passing runs:

| Run | Instance | What it shows |
|---|---|---|
| `frame_allocator` | every ascending map of up to 3 descriptors over 6 frames, usable and reserved types, requests up to 7 bytes of 2-byte pages | no frame twice, only usable frames, no loss before a swap, bounded loss at a swap, implements `FramePool` |
| `heap` | heap of 16 units (4 nodes) extended once or more to 28, four layouts with different sizes and alignments | disjointness, nodes fit, `used` and `free` exact, no false double-free, also across the hand-over |
| `kernel_mapping` | tables of 4 entries on 3 levels, 2-byte pages, two calls of any of the three functions with pages of every level, below and above `BOOT_IMAGE`, then an image of 0 to 15 bytes at six offsets of a large page, 0 to 7 frames | `Ok` means visible, errors leave the prefix, no page changes its frame, the image is read through right mappings or `_start` has panicked |
| `boot` | two-byte pages, ten entries to a table, two kernel and five driver files (two of them broken, one with an odd but empty table), 106 memory maps: code before or behind free memory, gaps, every amount of memory for the loader (0 to 28 frames) and for the kernel (0 to 25), and 22 maps with gaps wider than the window, where tables of the loader or of the kernel lie beyond it | the heap is backed and seen by the kernel, dropped results do no harm, tables are reached or lie beyond the window, no frame serves twice, bytes loaded, kernel pages shared, stops only for lack of memory |
| `interrupts` | timer and keyboard vectors, spurious interrupts, 4 interrupts, 2 processes | section 4 |
| `boot_fs` | one kernel and two drivers of 0, 1 or 3 bytes, each rebuilt at most once at any moment, each write cut short anywhere; room for exactly three headers | headers and files that were neither rebuilt nor cut read back, kernel first |
| `iso_image` | 177 jobs: the repository's own, nested and merged trees, files at block borders, directories of up to 3 blocks, path tables that fill the two blocks each of them has (204 directories), boot images in the root and two directories deep, some of them lengthened by the patches, names at the limit of a record's length byte, all option combinations, refused and panicking inputs | one owner per block, walk of every directory, no file lost, path table parents, assertions hold |
| `pci` | no MCFG, two segments, or a second one that starts at bus 1; two buses with two devices of two functions; 63 first functions (devices with 32-bit, 64-bit, port, unassigned and 4 GiB BARs, bridges, unknown types, routed and unknown pins), 0 to 8 frames | faults only without frames, resources decoded, only BARs overwritten |
| `memmove` | every pair of ranges in 18 bytes, words of 4, blocks from 6 on | the bytes of the source, and no other, arrive |

The bounds are chosen so that each branch of the code is taken: maps with gaps and
reserved regions between usable ones, memory that runs out at every possible page
(the frame counts start at 0 and end above what the job needs), tables that must be
created in the middle of a range, two nested interrupts plus one in the window between
`sti` and `iretq`, directories that end below, at and above a block's end.

Runs that show a disagreement between the code and what it says of itself:

| Run | Shows |
|---|---|
| `boot_adjacent` | two segments that meet on a page border: the first takes the second's page, whose data is never visible |
| `iso_full_block` | records that fill a block exactly: the estimate is one block short and the 'CE' area lies over the root's records |
| `pci_config` | `map_address` maps the segment's first page for every function: each device is described by the first one's registers |

`boot` therefore uses images whose segments leave a page between them, `pci` states
`ResourcesDecoded` for the page that is really read, and `iso_image` leaves out
directories that fill a block exactly
(`NeverFull`). More cases that the modules describe but the instances leave out, because
the properties do not hold there:

* `heap` extends by whole nodes: `extend` by less puts more on the free list than it adds
  to the size, and `free()` then falls short of it.
* `iso_image` has no file names of 163 to 250 characters and no directory names of 165 to
  250, which are accepted although the record's length does not fit its byte: the
  directory cannot be walked.
* It has no boot image below 2048 bytes together with `grub2_boot_info`: the patch makes
  it 2556 bytes long after one block was reserved, and it runs into the next file. Images
  that the patches lengthen within their blocks are in the run.
* It has no path table of more than 4096 bytes (more than 204 directories with the longest
  identifiers). `create_iso` reserves four blocks for both tables (mod.rs:312); a longer
  first table would run into the second one, and that into the root's extent.
* `boot` has segments that start on a page border: for one that does not, each page's copy
  runs over its frame's end into the next frame, which may become a page table and be
  zeroed. It has no kernel segment without file data, on which `from_elf` panics. The page
  behind the loader's code is mapped with it and must not be part of another range.
* `boot_fs` has no more files than `MAX_FILES`; with one more the data would be written
  over the last header.

Some properties excuse what the code really does, and say that nothing else goes wrong:
`FrameLostOnlyInWindow` the loss between `sti` and `iretq`, `InterruptsServed` the panic of
the schedular behind its last process and a lost stack of `_start`, `ResourcesDecoded` the
bases of BARs that were sized before, `WindowCoversTables` frames beyond the sum of the
map's sizes, `FilesReadBack` inputs that were rebuilt, cut short or empty.

## 4. Boot and interrupts

**Boot.** Both firmware calls of `get_memory_map` may fail; the assertions then end the
boot, and a stale map key is not tried again. `DroppedResultsHarmless` is the least
obvious result: the root table's and the runtime pages' `identity_map` may fail and
nobody looks, yet a kernel that runs has them, because `map_to` fails there only for
lack of a frame, the allocator is then empty, and the copy of the heap, whose result
*is* looked at, needs a new table. The same argument makes `OkMeansBacked` true, with
`allocate_frame` as the step that is looked at; it needs a heap whose last page is not
the first of its table (`HeapGeometry`, 3 TB and 10 MiB in the code).
`FramesExclusive` ranges over the loader's, the kernel's and the driver's tables
together, before and after `swap_map`.

The kernel reaches page tables through a window of large pages that ends at the *sum* of
the descriptors' sizes (process.rs:62), while the allocator gives out frames from wherever
the map has them. Nothing in the code keeps the two together: on a map with wide gaps a
table may stand on a frame beyond the window. The guards `*_unreached` follow each call of
`map_to` and `translate_page` that the kernel makes through the tables on its way
(`Walk`), and `table_fault` is the page fault when one of them is not reached; the step is
then not taken. `WindowCoversTables` says that this is the only obstacle: every table on a
frame that is not `Beyond` the sum of the sizes is reached, at the right frame, and a
`table_fault` happens only on a map that has usable frames beyond. `BootImage` and `PCI`
take tables as reached. `FileBytesLoaded` and
`StopsOnlyWithoutMemory` are the two that say the boot ends as it should: with the files
in place, or for lack of memory and for no other reason.

**Interrupts.** The stubs enter on IST stack 0, save the registers, store the old stack and address
space in globals, switch to `SYSCALL_SP`, call the handler, switch back, take the APIC
mutex, send the EOI, restore the registers, execute `sti` and return. The model lets
the CPU deliver an interrupt whenever the interrupt flag allows. It shows that a saved
frame can be lost only between `sti` and `iretq` (`FrameLostOnlyInWindow`; there it
*is* lost), that the globals are never overwritten by a nested stub
(`RestoresOwnStack`), that no handler runs before the stack exists (`StackReady`),
that an EOI, the one of the spurious handler included, retires no other interrupt
(`EoiRetiresOwn`), that the APIC's lock is never held by interrupted code
(`LockHolderNotInterrupted`), and that every interrupt is served or the CPU has
panicked behind its last process or `_start` has lost its stack (`InterruptsServed`).

## 5. Fairness

`Interrupts`: weak fairness of
`_start`, of the stub on top, and of the delivery of each vector: a CPU executes its
next instruction and takes a deliverable interrupt; raising interrupts has no fairness
and is bounded by `MaxInterrupts`. The other specifications are safety
only; that none of them is stuck half way is checked as absence of deadlock, the end of
a program being a step of its own.

## 6. Proofs

Each proof module defines an inductive invariant `IInv`, proves `Spec => []IInv`
(theorem `Invariance`) with one lemma per action, and derives the properties from it.
Every `IInv` was first checked by TLC on the instance of the module's run. The theorems
hold for every value of the constants that the named assumptions allow; TLC evaluates
the assumptions on the instances.

| Theorem | States | Module |
|---|---|---|
| `TypeCorrect`, `NoDoubleIssue`, `OnlyUsableIssued`, `NothingLost` | `TypeOK`, `NoFrameIssuedTwice`, `IssuedFramesUsable`, `NothingLostBeforeSwap` | `FrameAllocatorProofs` |
| `SwapLoss` | the action property `SwapLossBounded` | `FrameAllocatorProofs` |
| `Refinement` | `ImplementsPool`: the iterator implements the abstract pool | `FrameAllocatorProofs` |
| `FramesKept`, `OwnStackRestored`, `StackBeforeHandlers`, `EoiExact`, `NoSpinOnOwnLock` | `FrameLostOnlyInWindow`, `RestoresOwnStack`, `StackReady`, `EoiRetiresOwn`, `LockHolderNotInterrupted` | `InterruptsProofs` |
| `CopiesAreExact` | `BytesDelivered` | `MemmoveProofs` |
| `BlocksDisjoint`, `NodesFit`, `FreesAccepted`, `AccountsTrue` | `NothingOverlaps`, `HolesHoldTheirNode`, `NoFalseDoubleFree`, `CountersTrue` | `HeapProofs` |
| `MappingsKept` | the action property `MappingsStay` | `PagingProofs` |
| `RangesVisible`, `ErrorsLeavePrefix`, `ImageIsReadable` | `OkMeansVisible`, `ErrLeavesPrefix`, `ImageReadable` | `PagingProofs` |
| `FilesAreReadBack`, `HeadersAreReadBack`, `KernelComesFirst` | `FilesReadBack`, `HeadersReadBack`, `KernelFirst` | `BootFSProofs` |
| `HeapIsBacked`, `HeapIsSeen`, `DroppedResults`, `KernelIsShared`, `TablesAreReached` | `OkMeansBacked`, `KernelSeesHeap`, `DroppedResultsHarmless`, `KernelPagesShared`, `WindowCoversTables` | `BootProofs` |
| `NoFrameServesTwice`, `StopsForMemory` | `FramesExclusive`, `StopsOnlyWithoutMemory` | `BootProofs` |
| `FilesArrive` | `FileBytesLoaded`, for images that are `LoadableElf` (every image of the run `boot` is) | `BootProofs` |

**Frame allocator.** `NoFrameIssuedTwice` is not inductive: from a state whose cursor
stands before an issued frame the next pull issues it again. `IInv` adds where the
cursor may stand (`CursorOK`: the range in front is the rest of the descriptor before
`index`), that no issued frame is ahead of it (`Behind`), and that issued frames are
usable frames of the map. `NextFrameTakesOne` says that a pull removes exactly its
result from what is ahead; `SwapSkipsIssued` that `swap_map`, which stops at the first
usable descriptor behind the current address, leaves nothing issued ahead. `MinExists`
gives the first usable descriptor, because `<` is well founded on the naturals.

**Interrupts.** Everything follows from the flag: interrupts are on only in `_start`
before it disables them and after `enable`, and in a stub between its `sti` and its `iretq` (`FlagOK`). So every interrupt
function but the innermost waits at its `iretq` (`OuterOK`), and the globals, the vector
in service and the APIC's lock belong to the innermost one (`UspOK`, `ServiceOK`,
`LockOK`). `IstOK` follows the frame on the interrupt stack, `StartOK` the order of
`_start`. For any number of vectors, processes and nested interrupts.

**Memory routines.** `Todo` is the part of the destination still to be written. Memory
is as before the call inside `Todo` and as it should be after the call outside of it
(`MemoryOK`), and what is read next lies in `Todo` or outside the destination: that is
where the overhang of `memmove`'s blocks is needed. `RegistersOK` and `BackwardOK` bound
the counters.

**Heap.** `WellFormed(hp, live)` relates the heap that owns the memory to the blocks
handed out: holes are aligned and hold their node, both lie inside the heap, and all are
pairwise disjoint. Cutting a block out of a hole and merging a freed range keep it. The
alignment of live blocks is the part no property states; without it a freed block could
leave a hole whose node is not aligned. The hand-over moves the value, `extend` frees a
range behind the top. For `CountersTrue` the invariant also says that the holes cover
exactly what the blocks leave of the heap, and that `used` is the size of what the
blocks cover; each step adds or removes one interval, so no sum over a set is needed.

**Page tables.** `PtOK` says that a table has all the tables above it, and that a mapped
page has its table on each level or lies in an entry that is mapped as a whole. `MapTo` says of `map_to`, for pages of every level, what
each result means (`MapDone`): `Ok` shows exactly the page's frames and nothing else
changes, any other result leaves the mappings alone, failure for lack of a frame means
that the allocator is empty, new tables stand on frames the allocator gave, and only
tables the page needs are made. Both modules below use nothing else about `map_to`.

**Range mapping and boot image.** `PagingInv` says that a running call has mapped a
prefix of its pages. `ImageReadable` needs to know what the earlier calls cannot have
done: `BOOT_IMAGE` stands at the border of a level-2 table, and no other call maps a page
of that table or makes a table below it (`Low`), though it may have made the upper ones.
So whatever is mapped there shows the image, in large pages and with no small table in
between (`High`, `NoSmallPages`), and the second loop, which maps every frame again,
leaves no gap behind it (`Loop`).

**Boot image file.** `Places`: the headers' ranges are apart and behind all headers.
`Progress`: the headers and files the loops have written are still there, but for files
that were built again since the run began or cut short. `Readers` says who has read.

**Boot.** `LoaderHeap`: while `init_heap_new` runs and the allocator is not empty, every
page so far is backed and its table there; on the last page `map_to` cannot fail, because
the page before it lies in the same table (`SameHeapTable`, from `HeapGeometry`).
`NoHeapTable`: until the copy begins, the kernel's table has no table for the heap, so
that the first heap page with an empty allocator stops the loader. `Copying`: from a
dropped error on, the allocator is empty, or the identity mappings are there.
`LowIdentity`: a physical page the kernel's table shows is shown at its own address.
`Sharing` follows the loop over the kernel's pages in `from_elf`. Every step after the
heap only adds to the tables (`Growth`), so what was shown stays. `WindowCoversTables`
has two invariants of its own on top: `Windowed`, the window's large pages mapped so far,
and all of them from `kernel_from_elf`'s second range on; and `Faulted`: when the kernel
stops on a table, that table stands on a frame the allocator gave, the window has all
large pages up to the sum of the sizes, so the frame lies beyond.

Three more invariants stand on `IInv`, each preserved by every action:

* `Exclusive`, for `FramesExclusive`: the frames still to be issued rise and lie above
  all frames in use, and no two holders (tables of any of the three spaces, pages that are to have
  frames of their own) share one. `CallApart` says that a call of `map_to` keeps this, for
  a page with a new frame and for one without. At `swap_map` the allocator starts again
  behind a descriptor that does not start below the frame that was next, and so above
  all frames in use (`SwapExclusive`).
* `Room`, for `StopsOnlyWithoutMemory`: whatever the boot has yet to map is still free in
  the table, the later regions, the rest of the range being mapped, the pages of the
  segments not yet passed and the heap; and a page of a segment is missing behind the
  loop only with an empty allocator, since `kernel_from_elf` drops the result. So
  `map_to` never meets a mapped page or a large one, and the only error left is the lack
  of a frame. For the driver's segments, whose loop accepts a page that is mapped already,
  `SmallPages` says that its address space has no large pages but the window's.
* `Arriving`, for `FileBytesLoaded`: each mapped page of a segment stands on a frame that
  holds its part of the file (`InMemory`); the pages not yet loaded are not mapped
  (`Unloaded`); those passed are, in the driver's space (`DriverThere`; for the kernel
  `Room` says so); and `file_size` is what is left of the segment (`ChunkLeft`). A step
  writes or clears only frames it takes from the allocator, which by `Exclusive` hold no
  loaded page (`MemoryKept`); the page tables that `map_to` makes after the copy stand on
  other frames than the copy (`CopyArrives`).

**Assumptions**, all in the modules that declare the constants:

* `MapsAssumption`, `MapAssumption`: maps are ascending sequences of non-empty
  descriptors that do not overlap, as UEFI delivers them and `swap_map` relies on; one
  holds the loader's code. Gaps may have any size.
* `SizeAssumption`, `TableAssumption`, `PagingAssumption`, `BuildAssumption`,
  `HeapAssumption`, `MemmoveAssumption`, `VectorAssumption`: the numbers are numbers.
* `AlignAssumption`: of two alignments one divides the other (they are powers of two),
  and the heap is extended by whole nodes.
* `ImageAssumption` of `BootImage`: `BOOT_IMAGE` is on the border of a level-2 table, the
  image fits into that table, and no other call maps into it. In the code `BOOT_IMAGE` is
  100 GiB, a multiple of the 1 GiB that such a table covers; the image has some 20 MB; the
  other calls map the APICs below 4 GiB, physical memory at its own addresses and the PCI
  window at 1 TB (pci.rs:16). A machine with 100 GiB of memory could break the last part.
  `ImageAssumption` of `ProcessBuild`: what a program header is.
* `BootFSAssumption`: one kernel, no more files than the header table has room for.
* `HeapGeometry`: the heap starts at a border of every level and its last page is not
  the first of its table.
* `LayoutAssumption`: physical memory (and the runtime services) is below the window and
  does not reach the addresses of the stack, the kernel or the heap, and none of these
  shares the heap's first table. The kernel is at 2 TB, the heap at 3 TB and the window at
  10 TB, but the process stack ends at 5 GB (memory_regions.rs:3): a machine with usable
  memory around 5 GB violates the assumption, the repository's QEMU set-up does not.
  Nothing in the code checks it.
* `RegionsAssumption`: the window, the stack, the loader's code with the page behind it,
  the kernel's stack, the APIC, the segments and the heap lie apart, and the I/O APIC
  away from the stack and the segments. The constants of memory_regions.rs and the
  kernel's base address in `link.x` (2 TB) put the larger ones apart; where the loader's
  code and the kernel's stack are is the firmware's choice. Nothing in the code checks it.
* `PowerAssumption` and `FramesAssumption` are true of all values: the provers do not
  know exponentiation and have no induction over data, so what powers of `Entries` are, and
  that the folds over a map yield the frames of that map in ascending order, is stated
  for them.

Two theorems are about files of a certain form, a hypothesis and not an assumption:
`SoundElf` (each loaded segment of the kernel has file data and pages of its own, the
driver's segments start on page borders) and `LoadableElf` (both files have segments on
page borders with pages of their own, the driver's away from its stack and from the
kernel). The link set-up does not guarantee them: `link.x` sets the base address and does
not align the segments. Without them the statements are false: `boot_adjacent` shows it for segments
that share a page, and section 3 says what happens to a segment off its page border.

`Entered` in `PageTable` stands for a function extended by another one; it is written
out because `@@` of the module `TLC` is unknown to the provers.

**Checked by TLC only.** `InterruptsServed`: liveness is out of the prover's reach.
The five properties of `IsoImage`: its operators are recursive, and what a recursive
definition computes needs induction over data. The three properties of `PCI` have no
proof yet. In `BootFS`, `Heap`, `Paging`, `Boot`, `FrameAllocator`, `Memmove` and
`Interrupts` every other invariant and action property that a run checks is also a
theorem.

## 7. Plan

Done: the modules, runs and theorems above. What is left, in this order:

1. `FaultsOnlyWithoutFrames`, `ResourcesDecoded` and `OnlyBarsOverwritten` of `PCI`: the
   first along the lines of `StopsForMemory` with the lemmas of `PageTableProofs`, the
   others from an invariant on the register being probed.
2. An abstract address space (a partial function that only grows) that `Paging`
   implements; `MappingsKept` is its main step.
3. `IsoImage` with folds in place of recursive operators, so that at least
   `OneOwnerPerBlock` can be proved from the two cursors.

## 8. Not modelled

* System calls: `syscall_entry_stub` runs into `interrupt_end!()`, which does not return,
  before its `sysretq`; no user process is started, `jump_usermode` is never called.
* Serial port: port writes with a busy wait; `SerialPort::new` is never called, and
  `kprintln!` takes no lock, so lines of `_start` and of handlers may mix.
* Bit fields of the I/O APIC's redirection entries (`RedirectionEntry`); `IOApic::read`,
  which is never called.
* `gather_devices` is modelled although its call is commented out at this commit.
  `allocate_size`, `extend` and `spawn` are modelled although nothing calls them.
* PCI class names, the keyboard table, `memcmp`, `search_pci_device`: no state.
* The length of a 64-bit BAR: the code adds a high part computed in 64 bits, which is
  no length; `ResourcesDecoded` compares the base only.
* UEFI protocols, file access in the loader (its closure is never called) and graphics.
* ACPI and AML: `kernel/src/acpi` is a submodule whose contents are not in the tree.
* Exception handlers (they print and loop), the register order in `CpuSnapshot`, the
  GDT but for its interrupt stack, page flags.
* Memory behind a segment's file bytes: the code leaves copies of the last chunk there
  and not zeros; no comment promises zeros.
* The FAT image (calls into fatfs), the bytes within ISO descriptors and records, CHS
  addresses of the protective label, driver stubs, macros that produce text.
