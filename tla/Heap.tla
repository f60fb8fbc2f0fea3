--------------------------------- MODULE Heap ---------------------------------
(***************************************************************************)
(* The kernel heap of kernel_api/common/src/linked_list_allocator.rs and   *)
(* its hand-over from the loader to the kernel (allocator.rs).             *)
(*                                                                         *)
(* Loader and kernel each have a static ALLOCATOR.  The loader initialises *)
(* its own over fresh pages and allocates from it; the KernelParameters    *)
(* carry a clone of the Heap value, and the kernel's first act is to       *)
(* update its own ALLOCATOR from that clone.  The blocks the loader left   *)
(* behind stay where they are.                                             *)
(*                                                                         *)
(* The hole list is an external crate: a set of holes here, searched from  *)
(* the lowest address.  Addresses and sizes are bytes, scaled so that a    *)
(* hole's node needs MinSize bytes aligned to HoleAlign (16 and 8).        *)
(***************************************************************************)
EXTENDS Integers, FiniteSets, FiniteSetsExt

CONSTANTS
  Bottom, HeapSize,   (* HEAP_START and HEAP_SIZE                          *)
  MinSize, HoleAlign, (* HoleList::min_size() and the alignment of a hole  *)
  Layouts,            (* layouts the program asks for: [size, align]       *)
  Extensions,         (* arguments of extend                               *)
  MaxTop              (* bound: extend stops before this address           *)

ASSUME HeapAssumption ==
  /\ Bottom \in Nat \ {0} /\ HeapSize \in Nat /\ MaxTop \in Nat
  /\ HoleAlign \in Nat \ {0} /\ MinSize \in Nat \ {0}
  /\ MinSize % HoleAlign = 0 /\ Bottom % HoleAlign = 0 /\ HeapSize % HoleAlign = 0
  /\ HeapSize >= MinSize
  /\ \A l \in Layouts : l.size \in Nat \ {0} /\ l.align \in Nat \ {0}
  /\ Extensions \subseteq Nat

(* Alignments are powers of two, a hole's and a layout's, so one of the    *)
(* two divides the other.  extend has no caller in the repository yet; one *)
(* must pass whole nodes, or the rounded hole would reach behind top().    *)
ASSUME AlignAssumption ==
  /\ \A l \in Layouts : HoleAlign % l.align = 0 \/ l.align % HoleAlign = 0
  /\ \A by \in Extensions : by >= MinSize /\ by % HoleAlign = 0

VARIABLES
  ALLOCATOR,  (* the static heap of the loader and the one of the kernel   *)
  parameters, (* the Heap value inside KernelParameters                    *)
  live,       (* history: blocks handed out and not freed                  *)
  running,    (* who executes: loader, boot (before init_heap), kernel     *)
  panicked    (* why the running program stopped, or "no"                  *)

vars == <<ALLOCATOR, parameters, live, running, panicked>>

(* Heap::empty                                                             *)
empty == [bottom |-> 0, size |-> 0, used |-> 0, holes |-> {}]

align_down(addr, align) == (addr \div align) * align

align_up(addr, align) == align_down(addr + align - 1, align)

(* HoleList::align_layout: what an allocation of size bytes really takes.  *)
AlignedSize(size) == align_up(Max({size, MinSize}), HoleAlign)

End(h) == h.addr + h.size

(* HoleList::new: one hole over the whole range.                           *)
NewHoles(addr, size) == {[addr |-> addr, size |-> size]}

-------------------------------------------------------------------------------
(* Mutant: the padding in front need not hold a hole.                      *)
StartInTight(h, align) == align_up(h.addr, align)

(* HoleList::allocate_first_fit.  A hole that is not aligned must leave    *)
(* room for a padding hole in front; what is left behind must be nothing   *)
(* or large enough for a hole.                                             *)
StartIn(h, align) ==
  IF h.addr % align = 0 THEN h.addr ELSE align_up(h.addr + MinSize, align)

Rest(h, size, align) == End(h) - (StartIn(h, align) + size)

Fits(h, size, align) ==
  Rest(h, size, align) = 0 \/ Rest(h, size, align) >= MinSize

FirstFit(holes, size, align) ==
  CHOOSE h \in holes :
    /\ Fits(h, size, align)
    /\ \A g \in holes : Fits(g, size, align) => h.addr <= g.addr

(* The hole h with size bytes at StartIn cut out of it.                    *)
Split(h, size, align) ==
  LET start == StartIn(h, align) IN
  {p \in {[addr |-> h.addr, size |-> start - h.addr],
          [addr |-> start + size, size |-> Rest(h, size, align)]} : p.size > 0}

(* HoleList::deallocate: the freed range becomes a hole and is merged with *)
(* the holes that touch it.                                                *)
Insert(holes, addr, size) ==
  LET left  == {h \in holes : End(h) = addr}
      right == {h \in holes : h.addr = addr + size}
      near  == left \cup right
      from  == Min({h.addr : h \in left} \cup {addr})
      to    == Max({End(h) : h \in right} \cup {addr + size})
  IN (holes \ near) \cup {[addr |-> from, size |-> to - from]}

(* The assertion "invalid deallocation (probably a double free)".          *)
InHole(holes, addr) == \E h \in holes : h.addr <= addr /\ addr < End(h)

-------------------------------------------------------------------------------
(* Heap::init                                                              *)
init(bottom, size) ==
  [bottom |-> bottom, size |-> size, used |-> 0, holes |-> NewHoles(bottom, size)]

(* Heap::allocate_first_fit, when some hole fits: the heap afterwards.     *)
allocate_first_fit(hp, h, size, align) ==
  [hp EXCEPT !.used = @ + size, !.holes = (@ \ {h}) \cup Split(h, size, align)]

(* Mutant: used counts the bytes asked for, not the bytes taken.           *)
deallocate_unaligned(hp, addr, size) ==
  [hp EXCEPT !.used = @ - size, !.holes = Insert(@, addr, AlignedSize(size))]

(* Heap::deallocate, when ptr lies in no hole: the heap afterwards.        *)
deallocate(hp, addr, size) ==
  [hp EXCEPT !.used = @ - AlignedSize(size), !.holes = Insert(@, addr, AlignedSize(size))]

(* Heap::top                                                               *)
top(hp) == hp.bottom + hp.size

(* Heap::extend: the new range is freed like a block (its size rounded as  *)
(* a block's is), the heap grows by the bytes asked for.                   *)
Extended(hp, by) ==
  [hp EXCEPT !.holes = Insert(@, top(hp), AlignedSize(by)), !.size = @ + by]

(* Whose ALLOCATOR serves an allocation: before init_heap the kernel's is  *)
(* empty.                                                                  *)
Who == IF running = "loader" THEN "loader" ELSE "kernel"

heap == ALLOCATOR[Who]

Init ==
  /\ ALLOCATOR = [w \in {"loader", "kernel"} |-> empty]
  /\ parameters = empty
  /\ live = {}
  /\ running = "loader"
  /\ panicked = "no"

(* The end of init_heap_new: Heap::init over the pages just mapped.  The   *)
(* loader calls it once, before its first allocation.                      *)
init_heap_new ==
  /\ panicked = "no" /\ running = "loader" /\ heap = empty
  /\ ALLOCATOR' = [ALLOCATOR EXCEPT !["loader"] = init(Bottom, HeapSize)]
  /\ UNCHANGED <<parameters, live, running, panicked>>

Allocating == panicked = "no" /\ running # "boot" /\ heap # empty

(* LockedHeap::alloc; a null pointer reaches alloc_error_handler, which    *)
(* panics.                                                                 *)
alloc(layout) ==
  LET size == AlignedSize(layout.size)
      h    == FirstFit(heap.holes, size, layout.align)
  IN
  /\ Allocating
  /\ IF \E g \in heap.holes : Fits(g, size, layout.align)
     THEN /\ ALLOCATOR' = [ALLOCATOR EXCEPT
               ![Who] = allocate_first_fit(@, h, size, layout.align)]
          /\ live' = live \cup {[addr |-> StartIn(h, layout.align), layout |-> layout]}
          /\ UNCHANGED panicked
     ELSE panicked' = "alloc_error" /\ UNCHANGED <<ALLOCATOR, live>>
  /\ UNCHANGED <<parameters, running>>

(* LockedHeap::dealloc of a block the program holds.                       *)
dealloc(block) ==
  /\ Allocating
  /\ IF InHole(heap.holes, block.addr)
     THEN panicked' = "double_free" /\ UNCHANGED <<ALLOCATOR, live>>
     ELSE /\ ALLOCATOR' = [ALLOCATOR EXCEPT
               ![Who] = deallocate(@, block.addr, block.layout.size)]
          /\ live' = live \ {block}
          /\ UNCHANGED panicked
  /\ UNCHANGED <<parameters, running>>

(* Heap::extend, called by the program that owns the heap.                 *)
extend(by) ==
  /\ Allocating /\ top(heap) + AlignedSize(by) <= MaxTop
  /\ IF InHole(heap.holes, top(heap))
     THEN panicked' = "double_free" /\ UNCHANGED ALLOCATOR
     ELSE /\ ALLOCATOR' = [ALLOCATOR EXCEPT ![Who] = Extended(@, by)]
          /\ UNCHANGED panicked
  /\ UNCHANGED <<parameters, live, running>>

(* run(): heap: allocator::heap() fills the parameters, then the loader    *)
(* jumps to the kernel and never runs again.                               *)
hand_over ==
  /\ Allocating /\ running = "loader"
  /\ parameters' = heap
  /\ running' = "boot"
  /\ UNCHANGED <<ALLOCATOR, live, panicked>>

(* Mutant: the kernel initialises its heap anew over the same memory.      *)
init_heap_anew ==
  /\ running = "boot"
  /\ ALLOCATOR' = [ALLOCATOR EXCEPT !["kernel"] = init(parameters.bottom, parameters.size)]
  /\ running' = "kernel"
  /\ UNCHANGED <<parameters, live, panicked>>

(* _start: init_heap(&parameters.heap), Heap::update of the kernel's own.  *)
init_heap ==
  /\ running = "boot"
  /\ ALLOCATOR' = [ALLOCATOR EXCEPT !["kernel"] = parameters]
  /\ running' = "kernel"
  /\ UNCHANGED <<parameters, live, panicked>>

(* panic_handler of loader and kernel: loop {}                             *)
panic_handler == panicked # "no" /\ UNCHANGED vars

Next ==
  \/ init_heap_new
  \/ \E l \in Layouts : alloc(l)
  \/ \E b \in live : dealloc(b)
  \/ \E by \in Extensions : extend(by)
  \/ hand_over
  \/ init_heap
  \/ panic_handler

Spec == Init /\ [][Next]_vars

-------------------------------------------------------------------------------
(* The bytes a live block occupies, as a hole-shaped range.                *)
Extent(b) == [addr |-> b.addr, size |-> AlignedSize(b.layout.size)]

Apart(g, h) == End(g) <= h.addr \/ End(h) <= g.addr

(* The heap that owns the memory now: the loader's until the kernel has    *)
(* taken the clone over.                                                   *)
current == IF running = "kernel" THEN ALLOCATOR["kernel"] ELSE ALLOCATOR["loader"]

(* Blocks handed out by loader or kernel never overlap each other or the   *)
(* free list, so a new allocation never lands on data the loader left.     *)
NothingOverlaps ==
  /\ \A b, c \in live : b # c => Apart(Extent(b), Extent(c))
  /\ \A b \in live : \A h \in current.holes : Apart(Extent(b), h)
  /\ \A g, h \in current.holes : g # h => Apart(g, h)

(* Every hole starts where a hole node may stand and has room for it:      *)
(* the free list is stored inside the holes themselves.                    *)
HolesHoldTheirNode ==
  \A h \in current.holes : h.size >= MinSize /\ h.addr % HoleAlign = 0

(* The addresses a set of blocks or holes lies on.                         *)
Bytes(S) == UNION {r.addr .. (End(r) - 1) : r \in S}

(* used() is what the live blocks take and free() = size - used what the   *)
(* hole list really has, across the hand-over too.                         *)
CountersTrue ==
  /\ current.used = Cardinality(Bytes({Extent(b) : b \in live}))
  /\ current.size - current.used = Cardinality(Bytes(current.holes))

(* A block the program holds can always be freed: the double-free          *)
(* assertion of the hole list never fires.                                 *)
NoFalseDoubleFree == panicked # "double_free"
===============================================================================
