--------------------------------- MODULE Boot ---------------------------------
(***************************************************************************)
(* The boot as one sequence: the loader's run() (kernel_loader/src/main.rs)*)
(* from the memory map to the jump, with init_heap_new (allocator.rs), and *)
(* the kernel's _start (kernel/src/main.rs) up to the first driver's       *)
(* process.  ProcessBuild supplies the construction of the address spaces. *)
(*                                                                         *)
(* Many results are dropped on the way (map_to under the heap, under the   *)
(* kernel's segments, of the root table, of the runtime descriptors, of    *)
(* the I/O APIC); the properties say which of them can be missing when the *)
(* kernel runs.  The pages _start maps for ACPI and the boot image are in  *)
(* BootImage.                                                              *)
(***************************************************************************)
EXTENDS ProcessBuild, SequencesExt

CONSTANTS
  HeapStartPage, HeapPages,  (* HEAP_START and HEAP_SIZE in pages          *)
  IoApicPage                 (* where the I/O APIC's registers are         *)

(* HEAP_START lies at a table boundary of every level, and the heap's last *)
(* page is not the first of its table (3 TB, and 2560 pages of 4 KiB with  *)
(* 512 entries per table, in the code).                                    *)
ASSUME HeapGeometry ==
  /\ HeapStartPage \in Nat /\ HeapPages \in Nat \ {0} /\ IoApicPage \in Nat
  /\ HeapStartPage % (Entries ^ Levels) = 0
  /\ (HeapPages - 1) % Entries # 0

(* heap_range(0)                                                           *)
heap_range == HeapStartPage .. (HeapStartPage + HeapPages - 1)

(* The frames of descriptors, one after the other: flat_map.               *)
Flatten(descriptors) ==
  FoldLeft(LAMBDA acc, d : acc \o [i \in 1 .. d.size |-> d.start + i - 1],
           << >>, descriptors)

(* What an allocator that walks map m from descriptor i on will issue.     *)
FramesOf(m, i) == Flatten(SelectSeq(SubSeq(m, i, Len(m)), LAMBDA d : is_usable(d.type)))

(* The pages of the descriptors with the runtime attribute, in order.      *)
RuntimeOf(m) == Flatten(SelectSeq(m, LAMBDA d : d.runtime))

RuntimeFrames(m) == UNION {Frames(m[j]) : j \in {n \in 1 .. Len(m) : m[n].runtime}}

(* What the folds make of a map, for the provers, which have no induction  *)
(* over data: true of every map.                                           *)
ASSUME FramesAssumption ==
  \A m \in MemoryMaps :
    /\ get_mem_size(m) \in Nat
    /\ \A i \in 1 .. (Len(m) + 1) :
         /\ FramesOf(m, i) \in Seq(UsableFrom(m, i))
         /\ \A a, b \in 1 .. Len(FramesOf(m, i)) :
              a < b => FramesOf(m, i)[a] < FramesOf(m, i)[b]
    /\ RuntimeOf(m) \in Seq(RuntimeFrames(m))

(* The pages of the segments that are loaded.                              *)
SegmentsOf(headers) ==
  UNION {{SegPage(headers[n], i) : i \in 0 .. (SegPages(headers[n]) - 1)} :
           n \in {j \in 1 .. Len(headers) : headers[j].load}}

(* Physical memory, which is mapped at its own addresses, lies away from   *)
(* the stack (at 5 GB), the kernel (2 TB), the heap (3 TB) and below the   *)
(* window (10 TB), and nothing shares the heap's first table.  The code    *)
(* does not check it: usable memory around 5 GB would break it.            *)
ASSUME LayoutAssumption ==
  /\ Levels >= 2
  /\ \A m \in MemoryMaps, im \in Images :
       LET physical == UsableFrom(m, 1) \cup RuntimeFrames(m)
           virtual  == (StackLow .. StackHigh) \cup SegmentsOf(im["kernel"].headers)
           code     == LoaderCodeOf(m)
           others   == (code.start .. (code.start + code.size)) \cup (KStackLow .. KStackHigh)
                         \cup {ApicPage}
       IN /\ \A f \in physical : /\ f \notin virtual \cup heap_range
                                 /\ f < PAGE_TABLE_OFFSET * Covered(Levels)
          /\ \A p \in physical \cup virtual \cup others :
               p \div Entries # HeapStartPage \div Entries

(* The pages of process w that are to stand on frames of its own.          *)
Own(im, w) ==
  CASE w = "loader" -> heap_range
    [] w = "kernel" -> (StackLow .. StackHigh) \cup SegmentsOf(im["kernel"].headers)
    [] w = "driver" -> (StackLow .. StackHigh) \cup
                         (SegmentsOf(im["driver"].headers) \ SegmentsOf(im["kernel"].headers))

(* The small pages of the window.                                          *)
WindowPages(m) ==
  UNION {((PAGE_TABLE_OFFSET + n) * Covered(Levels)) ..
            ((PAGE_TABLE_OFFSET + n) * Covered(Levels) + Covered(Levels) - 1) :
           n \in 0 .. (get_mem_size(m) \div Covered(Levels))}

(* What is mapped for process w: its fixed ranges, in their order, the     *)
(* kernel's segments and, for the kernel, the heap.                        *)
Regions(m, im, w) ==
  LET code == LoaderCodeOf(m) IN
  IF w = "kernel"
  THEN << WindowPages(m), StackLow .. StackHigh, code.start .. (code.start + code.size),
          KStackLow .. KStackHigh, {ApicPage}, SegmentsOf(im["kernel"].headers), heap_range >>
  ELSE << WindowPages(m), StackLow .. StackHigh, {0}, SegmentsOf(im["kernel"].headers) >>

(* The regions lie apart, the page behind the loader's code included; so   *)
(* do the I/O APIC and the kernel's stack and segments, and the driver's   *)
(* segments and its window.                                                *)
ASSUME RegionsAssumption ==
  \A m \in MemoryMaps, im \in Images :
    /\ \A w \in {"kernel", "driver"} : \A i, j \in 1 .. Len(Regions(m, im, w)) :
         i < j => Regions(m, im, w)[i] \cap Regions(m, im, w)[j] = {}
    /\ {IoApicPage, IoApicPage + 1} \cap Own(im, "kernel") = {}
    /\ ({0} \cup WindowPages(m)) \cap SegmentsOf(im["driver"].headers) = {}

VARIABLE root   (* the frame of the kernel's level 4 table, a heap page    *)

vars == <<memory_map, image, pt, fa, mem, building, pc, s, k, file_size, root>>

HeapPage == HeapStartPage + k

Init ==
  /\ memory_map \in MemoryMaps /\ image \in Images
  /\ pt = [loader |-> EmptyTable, kernel |-> EmptyTable, driver |-> EmptyTable]
  /\ fa = << >> /\ mem = << >>
  /\ building = "loader" /\ pc = "get_memory_map"
  /\ s = 1 /\ k = 0 /\ file_size = 0
  /\ root = 0

Goto(from, to) ==
  /\ pc = from /\ pc' = to /\ k' = 0
  /\ UNCHANGED <<const, pt, fa, mem, building, s, file_size, root>>

(* efi::get_memory_map: both firmware calls must succeed; a map that has   *)
(* changed in between makes the second one fail, and it is not retried.    *)
get_memory_map == \E to \in {"exit_boot_services", "efi_panic"} : Goto("get_memory_map", to)

exit_boot_services == \E to \in {"mem_init", "efi_panic"} : Goto("exit_boot_services", to)

FramesFrom(i) == FramesOf(memory_map, i)

(* PageTableFrameAllocator::new and mem::init                              *)
mem_init ==
  /\ pc = "mem_init"
  /\ fa' = FramesFrom(1) /\ pc' = "init_heap_new"
  /\ UNCHANGED <<const, pt, mem, building, s, k, file_size, root>>

(* Mutant: a page without a frame is skipped.                              *)
init_heap_page_skip ==
  /\ pc = "init_heap_new" /\ k < HeapPages
  /\ IF fa = << >> THEN k' = k + 1 /\ UNCHANGED <<const, pt, fa, mem, building, pc, s, file_size>>
     ELSE MapNext(map_to(pt["loader"], Advance(fa, 1), HeapPage, fa[1]), Advance(fa, 1))
  /\ UNCHANGED root

(* One iteration of init_heap_new.  Without a frame it returns the error,  *)
(* on which run() panics ("Unable to create heap!"); the result of map_to  *)
(* is dropped.                                                             *)
init_heap_page ==
  /\ pc = "init_heap_new" /\ k < HeapPages
  /\ IF fa = << >> THEN Panic(fa)
     ELSE MapNext(map_to(pt["loader"], Advance(fa, 1), HeapPage, fa[1]), Advance(fa, 1))
  /\ UNCHANGED root

(* ALLOCATOR.lock().init(...); Ok(()).  Then Process::kernel_from_elf.     *)
init_heap_done ==
  /\ pc = "init_heap_new" /\ k = HeapPages
  /\ building' = "kernel" /\ pc' = "fixed" /\ s' = 1 /\ k' = 0
  /\ UNCHANGED <<const, pt, fa, mem, file_size, root>>

(* The new level 4 table is a box: its page is translated to a frame and   *)
(* mapped identically in the new address space; the result is dropped.     *)
identity_map_root ==
  /\ pc = "built" /\ building = "kernel"
  /\ \E p \in heap_range :
       /\ root' = translate_page(pt["loader"], p)
       /\ LET m == identity_map(pt["kernel"], fa, root') IN
          /\ pt' = [pt EXCEPT !["kernel"] = m.pt] /\ fa' = m.fa
          /\ mem' = Zeroed(mem, NewTables(fa, m.fa))
  /\ pc' = "runtime" /\ k' = 0
  /\ UNCHANGED <<const, building, s, file_size>>

RuntimePages == RuntimeOf(memory_map)

(* One page of the closure iters: identity_map, its result dropped.        *)
map_runtime_page ==
  /\ pc = "runtime" /\ k < Len(RuntimePages)
  /\ MapNext(identity_map(pt["kernel"], fa, RuntimePages[k + 1]), fa)
  /\ UNCHANGED root

(* set_virtual_address_map; a failure is only printed.                     *)
set_virtual_address_map == k = Len(RuntimePages) /\ Goto("runtime", "copy")

(* Mutant: a page that cannot be mapped is passed over.                    *)
copy_heap_page_ignore ==
  LET m == map_to(pt["kernel"], fa, HeapPage, translate_page(pt["loader"], HeapPage)) IN
  /\ pc = "copy" /\ k < HeapPages
  /\ IF HeapPage \in Mapped(pt["loader"]) THEN MapNext(m, fa)
     ELSE k' = k + 1 /\ UNCHANGED <<const, pt, fa, mem, building, pc, s, file_size>>
  /\ UNCHANGED root

(* One page of the loop in run(): an unmapped page is passed over, a page  *)
(* that cannot be mapped panics ("unable to map heap!").                   *)
copy_heap_page ==
  LET m == map_to(pt["kernel"], fa, HeapPage, translate_page(pt["loader"], HeapPage)) IN
  /\ pc = "copy" /\ k < HeapPages
  /\ IF HeapPage \notin Mapped(pt["loader"])
     THEN k' = k + 1 /\ UNCHANGED <<const, pt, fa, mem, building, pc, s, file_size>>
     ELSE IF m.res # "Ok" THEN Panic(m.fa)
     ELSE MapNext(m, fa)
  /\ UNCHANGED root

(* run() loads the new table and jumps to the kernel; the allocator's      *)
(* clone goes with the parameters, and _start installs it.                 *)
jump_to_kernel == k = HeapPages /\ Goto("copy", "swap_map")

(* swap_map: one frame is taken, and the allocator goes on behind the      *)
(* first descriptor that starts at or after it.                            *)
swap_map ==
  /\ pc = "swap_map"
  /\ IF fa = << >> THEN Panic(fa)
     ELSE LET stops == SwapStops(memory_map, fa[1]) IN
          /\ IF stops = {} THEN pc' = "swap_panic" /\ fa' = Advance(fa, 1)
             ELSE pc' = "ioapic" /\ fa' = FramesFrom(Min(stops) + 1)
          /\ UNCHANGED <<const, pt, mem, building, s, k, file_size>>
  /\ UNCHANGED root

(* IOApic::init: map_phys(base, 4096) covers two pages, stops at the first *)
(* error, and its result is dropped; the registers are written next.  Then *)
(* _start builds the driver's process.                                     *)
ioapic_init ==
  /\ pc = "ioapic"
  /\ LET m1 == identity_map(pt["kernel"], fa, IoApicPage)
         m2 == IF m1.res = "Ok" THEN identity_map(m1.pt, m1.fa, IoApicPage + 1) ELSE m1 IN
     /\ pt' = [pt EXCEPT !["kernel"] = m2.pt] /\ fa' = m2.fa
     /\ mem' = Zeroed(mem, NewTables(fa, m2.fa))
     /\ pc' = IF IoApicPage \in Mapped(m2.pt) THEN "fixed" ELSE "fault"
  /\ building' = "driver" /\ s' = 1 /\ k' = 0
  /\ UNCHANGED <<const, file_size, root>>

new_kernel_process == building = "driver" /\ Goto("built", "running")

-------------------------------------------------------------------------------
(* The kernel reads and writes page tables through the window, at          *)
(* PAGE_TABLE_OFFSET (the loader at their own addresses, all of which UEFI *)
(* has mapped).  The window is as long as the sum of the descriptors'      *)
(* sizes, and a map with gaps has frames beyond it.                        *)
Reached(f) == PAGE_TABLE_OFFSET * Covered(Levels) + f \in Mapped(pt["kernel"])

(* The frames of the tables map_to goes through to page's entry in t, the  *)
(* new ones included, which it zeroes; which frame it enters is no matter. *)
(* translate_page has no allocator and makes none.                         *)
Walk(t, q, l, page) ==
  LET tables == map_to_level(t, q, l, page, 0).pt.tables IN
  {tables[x] : x \in DOMAIN tables \cap {TableOf(page * Covered(l), i) : i \in l .. Levels}}

Unreached(frames) == \E f \in frames : ~Reached(f)

ioapic_unreached ==
  LET m == identity_map(pt["kernel"], fa, IoApicPage) IN
  /\ pc = "ioapic"
  /\ \/ Unreached(Walk(pt["kernel"], fa, 1, IoApicPage))
     \/ m.res = "Ok" /\ Unreached(Walk(m.pt, m.fa, 1, IoApicPage + 1))

fixed_unreached ==
  LET r     == FixedRanges("driver")[s]
      fresh == r.kind = "fresh"
  IN
  /\ pc = "fixed" /\ building = "driver"
  /\ s <= Len(FixedRanges("driver")) /\ r.lo + k <= r.hi /\ ~(fresh /\ fa = << >>)
  /\ Unreached(Walk(pt["driver"], IF fresh THEN Advance(fa, 1) ELSE fa, r.level, r.lo + k))

kernel_page_unreached ==
  LET h    == Headers("kernel")[s]
      page == SegPage(h, k)
  IN
  /\ pc = "kernel_pages" /\ s <= Len(Headers("kernel")) /\ h.load /\ k < SegPages(h)
  /\ \/ Unreached(Walk(pt["kernel"], << >>, 1, page))
     \/ page \in Mapped(pt["kernel"]) /\ Unreached(Walk(pt["driver"], fa, 1, page))

load_page_unreached ==
  LET h     == Headers("driver")[s]
      frame == fa[1]
      from  == Advance(fa, 1)
      cur   == identity_map(pt["kernel"], from, frame)
  IN
  /\ pc = "segments" /\ building = "driver" /\ s <= Len(Headers("driver")) /\ h.load
  /\ h.filesz > 0 /\ InFile(h) /\ k < SegPages(h) /\ fa # << >>
  /\ \/ Unreached(Walk(pt["kernel"], from, 1, frame))
     \/ /\ ~CopyFaults(cur.pt, frame, h.va % PageSize, Min({file_size, PageSize}))
        /\ Unreached(Walk(pt["driver"], cur.fa, 1, SegPage(h, k)))

(* The step the kernel is about to take touches a table beyond the window. *)
WalksUnreached ==
  ioapic_unreached \/ fixed_unreached \/ kernel_page_unreached \/ load_page_unreached

(* The page fault comes in the middle of the step; what the step had done  *)
(* by then is left out, as nothing runs any more.                          *)
table_fault ==
  /\ WalksUnreached
  /\ pc' = "table_fault"
  /\ UNCHANGED <<const, pt, fa, mem, building, s, k, file_size, root>>

(* The kernel idles; a panic and the page fault handler loop for ever.     *)
Stopped == {"panicked", "fault", "table_fault", "bad_elf", "efi_panic", "swap_panic"}

finished == pc \in Stopped \cup {"running"} /\ UNCHANGED vars

Next ==
  \/ get_memory_map \/ exit_boot_services \/ mem_init
  \/ init_heap_page \/ init_heap_done
  \/ BuildNext /\ ~WalksUnreached /\ UNCHANGED root
  \/ identity_map_root \/ map_runtime_page \/ set_virtual_address_map
  \/ copy_heap_page \/ jump_to_kernel
  \/ swap_map \/ (ioapic_init /\ ~WalksUnreached) \/ new_kernel_process
  \/ table_fault
  \/ finished

Spec == Init /\ [][Next]_vars

-------------------------------------------------------------------------------
(* run() has jumped and the kernel has not stopped.                        *)
KernelRuns == pc \in {"swap_map", "ioapic", "running"} \/ building = "driver"

(* The loader's heap is initialised only with a page behind every heap     *)
(* address, although init_heap_new never looks at what map_to returned: a  *)
(* map_to that failed has emptied the allocator, and the next page's       *)
(* allocate_frame fails.                                                   *)
OkMeansBacked ==
  building # "loader" => heap_range \subseteq Mapped(pt["loader"])

(* The kernel finds every heap page on its own table, on the same frame    *)
(* the loader wrote to: boxes made by the loader are there.                *)
KernelSeesHeap ==
  KernelRuns =>
    \A p \in heap_range :
      p \in Mapped(pt["kernel"]) /\ pt["kernel"].map[p] = pt["loader"].map[p]

(* When the kernel runs, its level 4 table is mapped at its own address,   *)
(* where active_level_4_table looks for it, and so is every page of the    *)
(* runtime services, although both results were dropped: whichever of them *)
(* failed has emptied the allocator, and the heap could not be copied.     *)
DroppedResultsHarmless ==
  KernelRuns =>
    \A f \in {root} \cup {RuntimePages[i] : i \in 1 .. Len(RuntimePages)} :
      f \in Mapped(pt["kernel"]) /\ pt["kernel"].map[f] = f

(* A frame in a large page behind the one the sum of the sizes ends in.    *)
Beyond(f) == f \div Covered(Levels) > get_mem_size(memory_map) \div Covered(Levels)

(* The kernel reaches page tables through the window at PAGE_TABLE_OFFSET, *)
(* its own and those it builds for the driver from frames taken after      *)
(* swap_map: all but those on frames further from zero than all memory     *)
(* together is large, gaps not counted.  It faults on a table only when    *)
(* the memory map offers such a frame.                                     *)
WindowCoversTables ==
  /\ KernelRuns =>
       \A f \in TableFrames(pt["kernel"]) \cup TableFrames(pt["driver"]) :
         ~Beyond(f) =>
           Reached(f) /\ pt["kernel"].map[PAGE_TABLE_OFFSET * Covered(Levels) + f] = f
  /\ pc = "table_fault" => \E f \in UsableFrom(memory_map, 1) : Beyond(f)

SegmentPages(w) == SegmentsOf(Headers(w))

(* What takes a frame in address spaces spaces: page tables and own pages. *)
Holders(im, spaces) ==
  UNION {{<<w, "table", t>> : t \in DOMAIN spaces[w].tables} \cup
           {<<w, "page", p>> : p \in Mapped(spaces[w]) \cap Own(im, w)} :
           w \in {"loader", "kernel", "driver"}}

FrameOf(spaces, o) ==
  IF o[2] = "table" THEN spaces[o[1]].tables[o[3]] ELSE spaces[o[1]].map[o[3]]

(* No frame serves twice: a page table, a heap page, a stack page or a     *)
(* page of an image never shares its frame with another of them, in any    *)
(* of the three address spaces, on either side of swap_map.                *)
FramesExclusive ==
  \A a, b \in Holders(image, pt) : FrameOf(pt, a) = FrameOf(pt, b) => a = b

Loaded(who) == IF who = "kernel" THEN KernelRuns ELSE pc = "running"

(* The cell the process sees at virtual address a.                         *)
CellAt(who, a) == PageSize * pt[who].map[Containing(a)] + (a % PageSize)

(* When a process starts, each byte of each of its segments is in memory   *)
(* at the segment's virtual address, although kernel_from_elf drops the    *)
(* result of map_to.                                                       *)
FileBytesLoaded ==
  \A who \in {"kernel", "driver"} : Loaded(who) =>
    \A n \in 1 .. Len(Headers(who)) : Headers(who)[n].load =>
      \A b \in 0 .. (Headers(who)[n].filesz - 1) :
        LET a == Headers(who)[n].va + b IN
        /\ Containing(a) \in Mapped(pt[who])
        /\ CellAt(who, a) \in DOMAIN mem
        /\ mem[CellAt(who, a)] = <<who, Headers(who)[n].offset + b>>

(* The driver's address space shows the kernel's pages on the kernel's own *)
(* frames, so that interrupts and system calls work in it.                 *)
KernelPagesShared ==
  pc = "running" =>
    \A p \in SegmentPages("kernel") :
      p \in Mapped(pt["driver"]) /\ pt["driver"].map[p] = pt["kernel"].map[p]

(* Segments on pages of their own, and segments that start on a page       *)
(* border.                                                                 *)
PagesApart(headers) ==
  LET pages(n) == {SegPage(headers[n], i) : i \in 0 .. (SegPages(headers[n]) - 1)} IN
  \A i, j \in 1 .. Len(headers) :
    i < j /\ headers[i].load /\ headers[j].load => pages(i) \cap pages(j) = {}

OnPageBorders(headers) ==
  \A n \in 1 .. Len(headers) : headers[n].load => headers[n].va % PageSize = 0

(* Images the loader and from_elf are made for: every segment of the       *)
(* kernel that is loaded has file data and pages of its own, and the       *)
(* driver's segments start on a page border.                               *)
SoundElf(im) ==
  LET kernel == im["kernel"].headers IN
  /\ \A n \in 1 .. Len(kernel) : kernel[n].load => kernel[n].filesz > 0
  /\ PagesApart(kernel) /\ OnPageBorders(im["driver"].headers)

(* Images whose bytes all arrive: both files have separate segments on     *)
(* page borders, and the driver's lie away from its stack and the kernel.  *)
LoadableElf(im) ==
  LET kernel == im["kernel"].headers  driver == im["driver"].headers IN
  /\ SoundElf(im) /\ OnPageBorders(kernel) /\ PagesApart(driver)
  /\ SegmentsOf(driver) \cap ((StackLow .. StackHigh) \cup SegmentsOf(kernel)) = {}

(* With sound ELF files, and firmware and memory map that do their part,   *)
(* the boot stops early only when the allocator is empty: no two ranges of *)
(* the layout ask for the same page, and nothing faults before.  (The      *)
(* fault on a page table beyond the window is in WindowCoversTables.)      *)
StopsOnlyWithoutMemory ==
  SoundElf(image) /\ pc \in {"panicked", "fault"} => fa = << >>
===============================================================================
