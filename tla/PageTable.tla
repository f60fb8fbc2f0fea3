------------------------------ MODULE PageTable ------------------------------
(***************************************************************************)
(* The x86_64 crate's page tables as the kernel uses them: map_to,         *)
(* identity_map and translate_page of OffsetPageTable.  The crate is       *)
(* external; what matters to its callers is kept.  A page needs a table on *)
(* every level above it, missing tables are created from the frame         *)
(* allocator outermost first and stay when the call fails later, and an    *)
(* entry in use is never replaced.                                         *)
(*                                                                         *)
(* Pages and frames are numbers.  A frame allocator is the sequence of the *)
(* frames it has still to issue: FrameAllocator shows that it never issues *)
(* one twice.                                                              *)
(***************************************************************************)
EXTENDS Integers, Sequences, FiniteSets, FiniteSetsExt, TLC

CONSTANTS Entries,  (* entries of one table (512)                          *)
          Levels    (* levels of tables that are created on demand         *)

ASSUME TableAssumption == Entries \in Nat \ {0} /\ Levels \in Nat \ {0}

(* What the powers of Entries are, for the provers, which do not know      *)
(* exponentiation: true of every number of entries.                        *)
ASSUME PowerAssumption ==
  /\ Entries ^ 0 = 1 /\ Entries ^ 1 = Entries
  /\ \A l \in 0 .. Levels : Entries ^ l \in Nat \ {0}
  /\ \A l \in 0 .. Levels : \A m \in 0 .. (Levels - l) :
       Entries ^ (l + m) = Entries ^ l * Entries ^ m

Results == {"Ok", "PageAlreadyMapped", "ParentEntryHugePage", "FrameAllocationFailed"}

(* PageTable::new                                                          *)
EmptyTable == [map |-> << >>, tables |-> << >>]

(* The table on level l that page lies in.                                 *)
TableOf(page, l) == <<l, page \div Entries ^ l>>

Mapped(pt) == DOMAIN pt.map

(* What is left after n calls of FrameAllocator::allocate_frame.           *)
Advance(fa, n) == SubSeq(fa, n + 1, Len(fa))

(* Small pages under an entry of a table of level l.                       *)
Covered(l) == Entries ^ (l - 1)

(* The tables of level l and above that the page at first lies in and that *)
(* are not there yet.                                                      *)
Missing(pt, first, l) ==
  {i \in l .. Levels : TableOf(first, i) \notin DOMAIN pt.tables}

(* A larger page covers first, so that no table can be put under it.       *)
UnderHugePage(pt, first, l) ==
  first \in Mapped(pt) /\ TableOf(first, l) \notin DOMAIN pt.tables

(* The entry of level l for first points to a page, or to a table below.   *)
InUse(pt, first, l) ==
  \/ first \in Mapped(pt)
  \/ l > 1 /\ TableOf(first, l - 1) \in DOMAIN pt.tables

(* A table, a mapping or memory with the entries new written into it (@@ of*)
(* module TLC spelled out, which the provers do not know).                 *)
Entered(new, old) ==
  [x \in DOMAIN new \cup DOMAIN old |-> IF x \in DOMAIN new THEN new[x] ELSE old[x]]

(* Mapper::map_to(page, frame, flags, allocator) for a page whose entry is *)
(* in a table of level l; a large page stands for the small ones it covers.*)
map_to_level(pt, fa, l, page, frame) ==
  LET first == page * Covered(l)
      huge  == UnderHugePage(pt, first, l)
      k     == IF huge THEN 0 ELSE Cardinality(Missing(pt, first, l))
      n     == Min({k, Len(fa)})
      outer == l + k - 1
      new   == [t \in {TableOf(first, i) : i \in (outer - n + 1) .. outer} |->
                  fa[outer - t[1] + 1]]
      entry == [p \in first .. (first + Covered(l) - 1) |->
                  frame * Covered(l) + (p - first)]
      res   == IF huge THEN "ParentEntryHugePage"
               ELSE IF n < k THEN "FrameAllocationFailed"
               ELSE IF InUse(pt, first, l) THEN "PageAlreadyMapped" ELSE "Ok"
  IN [fa  |-> Advance(fa, n),
      res |-> res,
      pt  |-> [map    |-> IF res = "Ok" THEN Entered(entry, pt.map) ELSE pt.map,
               tables |-> Entered(new, pt.tables)]]

(* Mapper<Size4KiB>::map_to                                                *)
map_to(pt, fa, page, frame) == map_to_level(pt, fa, 1, page, frame)

(* Mapper::identity_map                                                    *)
identity_map(pt, fa, frame) == map_to(pt, fa, frame, frame)

(* Mapper::translate_page is Ok on the mapped pages only.                  *)
translate_page(pt, page) == pt.map[page]

TableFrames(pt) == {pt.tables[t] : t \in DOMAIN pt.tables}
==============================================================================
