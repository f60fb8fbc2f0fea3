-------------------------------- MODULE Paging --------------------------------
(***************************************************************************)
(* The range-mapping functions of kernel_api/common/src/mem.rs: map_virt,  *)
(* map_phys and map_phys_table (map_ref, map_arr and their kin compute a   *)
(* size and call one of these).  map_virt is generic in the page size,     *)
(* given here by the level of the table that holds the page's entry.  One  *)
(* step maps one page; an error returns at once and leaves the pages       *)
(* mapped so far.  BootImage is the caller.                                *)
(***************************************************************************)
EXTENDS PageTable

CONSTANTS
  PageSize,       (* bytes in a small page                                 *)
  Addresses,      (* physical and virtual addresses callers pass           *)
  Sizes,          (* sizes in bytes callers pass                           *)
  FirstFrame, MaxFrames,  (* bound: frames the memory map may offer        *)
  MaxCalls        (* bound: calls made                                     *)

ASSUME PagingAssumption ==
  /\ PageSize \in Nat \ {0} /\ FirstFrame \in Nat /\ MaxFrames \in Nat
  /\ Addresses \subseteq Nat /\ Sizes \subseteq Nat /\ MaxCalls \in Nat

VARIABLES
  pt,     (* the active page table                                         *)
  fa,     (* the global frame allocator                                    *)
  call,   (* the call being executed or last executed                      *)
  calls,  (* number of calls made                                          *)
  done    (* history: the calls that returned Ok                           *)

(* Page::containing_address, PhysFrame::containing_address                 *)
Containing(addr, l) == addr \div (PageSize * Covered(l))

NoCall ==
  [fn |-> "none", level |-> 1, phys |-> 0, virt |-> 0, size |-> 0, i |-> 0, res |-> "Ok"]

(* The frames start ..= end of the range, end = containing(phys + size).   *)
FrameCount(c) == Containing(c.phys + c.size, c.level) - Containing(c.phys, c.level) + 1

PageCount(c) == Containing(c.virt + c.size, c.level) - Containing(c.virt, c.level) + 1

(* Mutant: the end of the range is exclusive.                              *)
CountExclusive(c) ==
  Min({FrameCount(c), PageCount(c)}) - 1

(* Iterations of the loop: zip ends with the shorter range.                *)
Count(c) ==
  IF c.fn = "map_virt" THEN Min({FrameCount(c), PageCount(c)}) ELSE FrameCount(c)

(* The page and the frame of iteration i.  map_phys_table ignores its loop *)
(* variable and maps the first frame every time.                           *)
PageAt(c, i) ==
  CASE c.fn = "map_virt"       -> Containing(c.virt, c.level) + i
    [] c.fn = "map_phys"       -> Containing(c.phys, c.level) + i
    [] c.fn = "map_phys_table" -> Containing(c.phys, c.level)

FrameAt(c, i) ==
  Containing(c.phys, c.level) + (IF c.fn = "map_phys_table" THEN 0 ELSE i)

Idle == call.res # "running"

Init ==
  /\ pt = EmptyTable
  /\ \E n \in 0 .. MaxFrames : fa = [i \in 1 .. n |-> FirstFrame + i - 1]
  /\ call = NoCall
  /\ calls = 0
  /\ done = {}

Call(fn, level, phys, virt, size) ==
  /\ Idle
  /\ call' = [fn |-> fn, level |-> level, phys |-> phys, virt |-> virt, size |-> size,
              i |-> 0, res |-> "running"]
  /\ calls' = calls + 1
  /\ UNCHANGED <<pt, fa, done>>

(* map_virt::<S>                                                           *)
map_virt(level, phys, virt, size) == Call("map_virt", level, phys, virt, size)

map_phys(phys, size) == Call("map_phys", 1, phys, phys, size)

map_phys_table(phys, size) == Call("map_phys_table", 1, phys, phys, size)

(* Mutant: the counter is advanced before the result is looked at.         *)
map_page_early ==
  /\ call.res = "running" /\ call.i < Count(call)
  /\ LET r == map_to_level(pt, fa, call.level, PageAt(call, call.i), FrameAt(call, call.i)) IN
     /\ pt' = r.pt /\ fa' = r.fa
     /\ call' = [call EXCEPT !.i = @ + 1,
                             !.res = IF r.res = "Ok" THEN @ ELSE r.res]
  /\ UNCHANGED <<calls, done>>

(* Mutant: a page already mapped is mapped anew.                           *)
map_page_replace ==
  /\ call.res = "running" /\ call.i < Count(call)
  /\ LET page == PageAt(call, call.i)
         r    == map_to_level(pt, fa, call.level, page, FrameAt(call, call.i)) IN
     /\ pt' = [r.pt EXCEPT !.map =
                  [p \in (page * Covered(call.level)) .. ((page + 1) * Covered(call.level) - 1) |->
                     FrameAt(call, call.i) * Covered(call.level)
                       + (p - page * Covered(call.level))] @@ @]
     /\ fa' = r.fa
     /\ call' = [call EXCEPT !.i = @ + 1]
  /\ UNCHANGED <<calls, done>>

(* One iteration: map_to, then flush or return the error.                  *)
map_page ==
  /\ call.res = "running" /\ call.i < Count(call)
  /\ LET r == map_to_level(pt, fa, call.level, PageAt(call, call.i), FrameAt(call, call.i)) IN
     /\ pt' = r.pt /\ fa' = r.fa
     /\ call' = IF r.res = "Ok" THEN [call EXCEPT !.i = @ + 1]
                ELSE [call EXCEPT !.res = r.res]
  /\ UNCHANGED <<calls, done>>

(* The loop is over: Ok(())                                                *)
map_return ==
  /\ call.res = "running" /\ call.i >= Count(call)
  /\ call' = [call EXCEPT !.res = "Ok"]
  /\ done' = done \cup {call}
  /\ UNCHANGED <<pt, fa, calls>>

(* The calls the kernel makes for the I/O APIC and for PCI, and any other. *)
call_any ==
  /\ calls < MaxCalls
  /\ \/ \E l \in 1 .. Levels, p, v \in Addresses, z \in Sizes : map_virt(l, p, v, z)
     \/ \E p \in Addresses, z \in Sizes : map_phys(p, z) \/ map_phys_table(p, z)

-------------------------------------------------------------------------------
(* Once a page is mapped it keeps its frame, whatever later calls do, and  *)
(* whether they succeed or fail.                                           *)
MappingsStay ==
  [][\A p \in Mapped(pt) : p \in Mapped(pt') /\ pt'.map[p] = pt.map[p]]_<<pt, fa, call, calls, done>>

(* Byte b of the physical range is seen where the caller expects it.       *)
ByteVisible(c, b) ==
  LET page == Containing(c.virt + b, 1) IN
  page \in Mapped(pt) /\ translate_page(pt, page) = Containing(c.phys + b, 1)

(* Every call that ever returned Ok made each byte of its range visible,   *)
(* and it stays so: provided physical and virtual address lie at the same  *)
(* offset in a page of the size asked for.                                 *)
OkMeansVisible ==
  \A c \in done :
    c.phys % (PageSize * Covered(c.level)) = c.virt % (PageSize * Covered(c.level)) =>
      \A b \in 0 .. (c.size - 1) : ByteVisible(c, b)

(* A call that failed has mapped the pages before the failing one: the     *)
(* caller cannot tell how many, and they are never unmapped.               *)
ErrLeavesPrefix ==
  call.res \in Results \ {"Ok"} =>
    \A i \in 0 .. (call.i - 1) :
      LET page == PageAt(call, i) * Covered(call.level) IN
      page \in Mapped(pt) /\ pt.map[page] = FrameAt(call, i) * Covered(call.level)
===============================================================================
