----------------------------- MODULE ProcessBuild -----------------------------
(***************************************************************************)
(* Building an address space and loading an ELF image into it:             *)
(* Process::kernel_from_elf, called by the loader for the kernel, and      *)
(* Process::from_elf, called by the kernel for the first driver            *)
(* (kernel_api/common/src/process.rs), with the ELF reader (elf.rs).  Boot *)
(* runs them in the order the loader and the kernel do.                    *)
(*                                                                         *)
(* Memory is an array of cells, PageSize to a page; a cell holds a byte of *)
(* a file, <<image, offset>>, or nothing of interest.  A write may run     *)
(* over the end of its frame, as copy_from_slice does here.  A new table   *)
(* is zeroed.                                                              *)
(***************************************************************************)
EXTENDS PageTable, MemoryMap

CONSTANTS
  PageSize,
  Images,                 (* pairs of ELF files: kernel, driver            *)
  MemoryMaps,             (* memory maps UEFI may report                   *)
  PAGE_TABLE_OFFSET,      (* where physical memory is seen, in large pages *)
  StackLow, StackHigh,    (* Process::get_stack                            *)
  KStackLow, KStackHigh,  (* the loader's stack                            *)
  ApicPage

ProgramHeader == [load : BOOLEAN, offset : Nat, va : Nat, filesz : Nat, memsz : Nat]

(* A file: its length, whether prg_entry_size is the size of a program     *)
(* header, and the program headers.                                        *)
ASSUME ImageAssumption ==
  \A im \in Images, f \in {"kernel", "driver"} :
    /\ im[f].len \in Nat /\ im[f].entry_size_ok \in BOOLEAN
    /\ im[f].headers \in Seq(ProgramHeader)
    /\ \A n \in 1 .. Len(im[f].headers) : im[f].headers[n].filesz <= im[f].headers[n].memsz

ASSUME MapAssumption ==
  \A m \in MemoryMaps :
    /\ m \in Seq(Descriptor) /\ Ascending(m)
    /\ \E i \in 1 .. Len(m) : m[i].type = "LoaderCode"

ASSUME BuildAssumption ==
  /\ PageSize \in Nat \ {0}
  /\ {PAGE_TABLE_OFFSET, StackLow, StackHigh, KStackLow, KStackHigh, ApicPage} \subseteq Nat

VARIABLES
  memory_map, (* efi::DESCRIPTORS                                          *)
  image,      (* the files of the kernel and of the driver                 *)
  pt,         (* the loader's, the kernel's and the driver's address space *)
  fa,         (* the global frame allocator                                *)
  mem,        (* cells that hold a byte of a file                          *)
  building,   (* whose address space is being built: kernel, driver        *)
  pc,         (* where the boot stands                                     *)
  s, k,       (* range or segment, and page of it                          *)
  file_size   (* local: bytes of the segment not yet copied                *)

const == <<memory_map, image>>

Containing(addr) == addr \div PageSize

Cells(frames) == UNION {(PageSize * f) .. (PageSize * f + PageSize - 1) : f \in frames}

(* What is left of memory m when tables are created on new frames.         *)
Zeroed(m, frames) == [c \in DOMAIN m \ Cells(frames) |-> m[c]]

NewTables(before, after) == {before[i] : i \in 1 .. (Len(before) - Len(after))}

(* A range of pages of a level: those of a "fresh" one get new frames, the *)
(* others the frame page - base.                                           *)
Span(lo, hi, base, level, kind) ==
  [lo |-> lo, hi |-> hi, base |-> base, level |-> level, kind |-> kind]

(* Mutant: the end of physical memory is exclusive.                        *)
WindowExclusive ==
  Span(PAGE_TABLE_OFFSET,
       PAGE_TABLE_OFFSET + (get_mem_size(memory_map) \div Covered(Levels)) - 1,
       PAGE_TABLE_OFFSET, Levels, "at")

(* Physical memory in large pages, phys_mem_start ..= phys_mem_end.        *)
Window ==
  Span(PAGE_TABLE_OFFSET,
       PAGE_TABLE_OFFSET + (get_mem_size(memory_map) \div Covered(Levels)),
       PAGE_TABLE_OFFSET, Levels, "at")

Stack == Span(StackLow, StackHigh, 0, 1, "fresh")

Identity(lo, hi) == Span(lo, hi, 0, 1, "at")

(* The first LoaderCode descriptor.                                        *)
LoaderCodeOf(m) == m[Min({i \in 1 .. Len(m) : m[i].type = "LoaderCode"})]

LoaderCode == LoaderCodeOf(memory_map)

(* Mutant: the loader's code is given a page too many.                     *)
KernelRangesLonger ==
  << Window, Stack, Identity(LoaderCode.start, LoaderCode.start + LoaderCode.size + 1),
     Identity(KStackLow, KStackHigh), Identity(ApicPage, ApicPage) >>

(* The ranges kernel_from_elf maps before the segments, in order.  The end *)
(* of the code is inclusive: the page behind it is mapped, too.            *)
KernelRanges ==
  << Window, Stack, Identity(LoaderCode.start, LoaderCode.start + LoaderCode.size),
     Identity(KStackLow, KStackHigh), Identity(ApicPage, ApicPage) >>

(* Those of from_elf; new_kernel_process passes 0 for the kernel stack.    *)
DriverRanges == << Window, Stack, Identity(0, 0) >>

FixedRanges(who) == IF who = "kernel" THEN KernelRanges ELSE DriverRanges

Headers(who) == image[who].headers

(* Pages containing(va) ..= containing(va + memsz) of a segment: one more  *)
(* than the segment has when it ends on a page border.                     *)
SegPage(h, n) == Containing(h.va) + n

SegPages(h) == Containing(h.va + h.memsz) - Containing(h.va) + 1

(* let mut file_size = pheader.segment_file_size                           *)
FileSize(who, n) == IF n <= Len(Headers(who)) THEN Headers(who)[n].filesz ELSE 0

(* An expect or unwrap fails; the frames taken on the way are gone.        *)
Panic(left) ==
  /\ pc' = "panicked" /\ fa' = left
  /\ UNCHANGED <<const, pt, mem, building, s, k, file_size>>

(* The page is entered in the address space being built; go on to the next.*)
MapNext(m, from) ==
  /\ pt' = [pt EXCEPT ![building] = m.pt]
  /\ fa' = m.fa
  /\ mem' = Zeroed(mem, NewTables(from, m.fa))
  /\ k' = k + 1
  /\ UNCHANGED <<const, building, pc, s, file_size>>

-------------------------------------------------------------------------------
(* Mutant: the tables come from a copy of the allocator.                   *)
map_fixed_copy ==
  LET r     == FixedRanges(building)[s]
      page  == r.lo + k
      fresh == r.kind = "fresh"
      frame == IF fresh THEN fa[1] ELSE page - r.base
      m     == map_to_level(pt[building], fa, r.level, page, frame)
  IN
  /\ pc = "fixed" /\ s <= Len(FixedRanges(building)) /\ page <= r.hi
  /\ IF fresh /\ fa = << >> THEN Panic(fa)
     ELSE IF m.res # "Ok" THEN Panic(m.fa)
     ELSE MapNext(IF fresh THEN [m EXCEPT !.fa = Advance(fa, 1)] ELSE m, fa)

(* One page of a fixed range; allocate_frame and map_to are expected to    *)
(* succeed.                                                                *)
map_fixed ==
  LET r     == FixedRanges(building)[s]
      page  == r.lo + k
      fresh == r.kind = "fresh"
      from  == IF fresh THEN Advance(fa, 1) ELSE fa
      frame == IF fresh THEN fa[1] ELSE page - r.base
      m     == map_to_level(pt[building], from, r.level, page, frame)
  IN
  /\ pc = "fixed" /\ s <= Len(FixedRanges(building)) /\ page <= r.hi
  /\ IF fresh /\ fa = << >> THEN Panic(fa)
     ELSE IF m.res # "Ok" THEN Panic(m.fa)
     ELSE MapNext(m, from)

next_fixed ==
  /\ pc = "fixed" /\ s <= Len(FixedRanges(building))
  /\ FixedRanges(building)[s].lo + k > FixedRanges(building)[s].hi
  /\ s' = s + 1 /\ k' = 0
  /\ UNCHANGED <<const, pt, fa, mem, building, pc, file_size>>

(* All ranges are mapped: the kernel goes on with its segments, a driver   *)
(* with the pages of the kernel.                                           *)
fixed_done ==
  /\ pc = "fixed" /\ s > Len(FixedRanges(building))
  /\ pc' = IF building = "kernel" THEN "headers" ELSE "kernel_pages"
  /\ s' = 1 /\ k' = 0
  /\ UNCHANGED <<const, pt, fa, mem, building, file_size>>

(* Mutant: the driver gets fresh frames for the kernel's pages.            *)
map_kernel_page_fresh ==
  LET h    == Headers("kernel")[s]
      m    == map_to(pt["driver"], Advance(fa, 1), SegPage(h, k), fa[1])
  IN
  /\ pc = "kernel_pages" /\ s <= Len(Headers("kernel")) /\ h.load /\ k < SegPages(h)
  /\ IF fa = << >> THEN Panic(fa)
     ELSE IF m.res # "Ok" THEN Panic(m.fa)
     ELSE MapNext(m, Advance(fa, 1))

(* from_elf, "Map kernel data": the page keeps the frame it has in the     *)
(* current address space; an unmapped or doubly named page panics.         *)
map_kernel_page ==
  LET h    == Headers("kernel")[s]
      page == SegPage(h, k)
      m    == map_to(pt["driver"], fa, page, translate_page(pt["kernel"], page))
  IN
  /\ pc = "kernel_pages" /\ s <= Len(Headers("kernel")) /\ h.load /\ k < SegPages(h)
  /\ IF page \notin Mapped(pt["kernel"]) THEN Panic(fa)
     ELSE IF m.res # "Ok" THEN Panic(m.fa)
     ELSE MapNext(m, fa)

next_kernel_segment ==
  /\ pc = "kernel_pages" /\ s <= Len(Headers("kernel"))
  /\ ~Headers("kernel")[s].load \/ k >= SegPages(Headers("kernel")[s])
  /\ s' = s + 1 /\ k' = 0
  /\ UNCHANGED <<const, pt, fa, mem, building, pc, file_size>>

kernel_pages_done ==
  /\ pc = "kernel_pages" /\ s > Len(Headers("kernel"))
  /\ pc' = "headers" /\ s' = 1 /\ k' = 0
  /\ UNCHANGED <<const, pt, fa, mem, building, file_size>>

-------------------------------------------------------------------------------
(* ElfFile::progam_headers: a table of entries of another size, unless it  *)
(* is empty, fails the assertion.                                          *)
progam_headers ==
  /\ pc = "headers"
  /\ pc' = IF image[building].entry_size_ok \/ Headers(building) = << >>
           THEN "segments" ELSE "bad_elf"
  /\ file_size' = FileSize(building, 1)
  /\ UNCHANGED <<const, pt, fa, mem, building, s, k>>

(* ElfFile::segment slices the file; a segment that leaves it panics.      *)
InFile(h) == h.offset + h.filesz <= image[building].len

segment ==
  /\ pc = "segments" /\ s <= Len(Headers(building)) /\ k = 0
  /\ LET h == Headers(building)[s] IN h.load /\ h.filesz > 0 /\ ~InFile(h)
  /\ pc' = "bad_elf"
  /\ UNCHANGED <<const, pt, fa, mem, building, s, k, file_size>>

(* The copy addresses the frame identically in the current address space.  *)
(* The loader's, inherited from UEFI, has all memory mapped and the        *)
(* identity_map is refused; the kernel's gets the frame's page.            *)
CurrentMap(frame, from) ==
  IF building = "kernel" THEN [fa |-> from, pt |-> pt["kernel"], res |-> "Ok"]
  ELSE identity_map(pt["kernel"], from, frame)

CopyFaults(cur, frame, off, n) ==
  /\ building = "driver" /\ n > 0
  /\ \E f \in frame .. (frame + Containing(off + n - 1)) : f \notin Mapped(cur)

(* Mutant: each page starts at the segment's first byte.                   *)
CopiedFromStart(h, frame, off, offset, n) ==
  LET at == PageSize * frame + off IN
  [c \in at .. (at + n - 1) |-> <<building, h.offset + (c - at)>>]

(* The bytes copied: n of them from the segment's offset to off in the     *)
(* frame.                                                                  *)
Copied(h, frame, off, offset, n) ==
  LET at == PageSize * frame + off IN
  [c \in at .. (at + n - 1) |-> <<building, h.offset + offset + (c - at)>>]

(* if file_size > 4096 { file_size -= 4096 }                               *)
NextChunk(size) == IF size > PageSize THEN size - PageSize ELSE size

(* kernel_from_elf drops the result of map_to; from_elf goes on when the   *)
(* page was mapped already and panics on any other error.                  *)
MapFatal(res) == building = "driver" /\ res \notin {"Ok", "PageAlreadyMapped"}

(* One page of a segment: allocate a frame, make it addressable, copy up   *)
(* to a page of file bytes to the segment's offset in the frame, map it.   *)
(* file_size stays at the last chunk.                                      *)
load_page ==
  LET h     == Headers(building)[s]
      frame == fa[1]
      from  == Advance(fa, 1)
      cur   == CurrentMap(frame, from)
      n     == Min({file_size, PageSize})
      off   == h.va % PageSize
      m     == map_to(pt[building], cur.fa, SegPage(h, k), frame)
  IN
  /\ pc = "segments" /\ s <= Len(Headers(building)) /\ h.load
  /\ h.filesz > 0 /\ InFile(h) /\ k < SegPages(h)
  /\ IF fa = << >> THEN Panic(fa)
     ELSE /\ IF CopyFaults(cur.pt, frame, off, n)
             THEN /\ pc' = "fault" /\ fa' = cur.fa
                  /\ pt' = [pt EXCEPT !["kernel"] = cur.pt]
                  /\ UNCHANGED mem
             ELSE /\ pc' = IF MapFatal(m.res) THEN "panicked" ELSE pc
                  /\ fa' = m.fa
                  /\ pt' = IF building = "kernel" THEN [pt EXCEPT !["kernel"] = m.pt]
                           ELSE [pt EXCEPT !["kernel"] = cur.pt, !["driver"] = m.pt]
                  /\ mem' = Zeroed(Entered(Copied(h, frame, off, h.filesz - file_size, n),
                                           Zeroed(mem, NewTables(from, cur.fa))),
                                   NewTables(cur.fa, m.fa))
          /\ file_size' = NextChunk(file_size)
          /\ k' = k + 1
          /\ UNCHANGED <<const, building, s>>

(* The next program header; one without file data, or of another type, is  *)
(* passed over.                                                            *)
next_segment ==
  /\ pc = "segments" /\ s <= Len(Headers(building))
  /\ LET h == Headers(building)[s] IN ~h.load \/ h.filesz = 0 \/ k >= SegPages(h)
  /\ s' = s + 1 /\ k' = 0 /\ file_size' = FileSize(building, s + 1)
  /\ UNCHANGED <<const, pt, fa, mem, building, pc>>

(* The new process is returned to the caller.                              *)
from_elf_done ==
  /\ pc = "segments" /\ s > Len(Headers(building))
  /\ pc' = "built" /\ k' = 0
  /\ UNCHANGED <<const, pt, fa, mem, building, s, file_size>>

BuildNext ==
  \/ map_fixed \/ next_fixed \/ fixed_done
  \/ map_kernel_page \/ next_kernel_segment \/ kernel_pages_done
  \/ progam_headers \/ segment \/ load_page \/ next_segment \/ from_elf_done
===============================================================================
