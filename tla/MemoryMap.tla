------------------------------ MODULE MemoryMap ------------------------------
(***************************************************************************)
(* The UEFI memory map (kernel_api/common/src/efi.rs) and what the boot    *)
(* reads off it.  Addresses and sizes count frames.  The zero descriptors  *)
(* behind the last one in DESCRIPTORS, at which get_mem_size stops, are    *)
(* left out: they are reserved, empty and not runtime memory.              *)
(***************************************************************************)
EXTENDS Integers, Sequences, FiniteSetsExt

MemoryType ==
  {"Conventional", "BootServicesCode", "BootServicesData", "LoaderCode", "LoaderData",
   "RuntimeServicesData", "Reserved"}

Descriptor == [type : MemoryType, start : Nat, size : Nat, runtime : BOOLEAN]

(* MemoryType::is_usable                                                   *)
is_usable(t) == t \in {"BootServicesCode", "Conventional"}

(* physical_address .. physical_address + size * 4096, in frames           *)
Frames(d) == d.start .. (d.start + d.size - 1)

(* UEFI reports non-empty, disjoint usable ranges in ascending order.      *)
Ascending(m) ==
  \A i, j \in 1 .. Len(m) :
    /\ is_usable(m[i].type) => m[i].size > 0
    /\ is_usable(m[i].type) /\ is_usable(m[j].type) /\ i < j
         => m[i].start + m[i].size <= m[j].start

(* The frames of the usable descriptors from i on.                         *)
UsableFrom(m, i) ==
  UNION {Frames(m[k]) : k \in {j \in i .. Len(m) : is_usable(m[j].type)}}

(* Mutant: no skipping loop, the first usable descriptor is the stop.      *)
SwapStopsFirst(m, curr) == {k \in 1 .. Len(m) : is_usable(m[k].type)}

(* Mutant: the loop skips descriptors that start below the next one, too.  *)
SwapStopsLate(m, curr) ==
  {k \in 1 .. Len(m) :
     /\ is_usable(m[k].type)
     /\ \E j \in 1 .. (k - 1) : is_usable(m[j].type) /\ m[j].start >= curr}

(* Descriptors at which the skipping loop of swap_map stops.               *)
SwapStops(m, curr) ==
  {k \in 1 .. Len(m) : is_usable(m[k].type) /\ m[k].start >= curr}

(* get_mem_size: the sizes of all descriptors; gaps are not counted.       *)
get_mem_size(m) ==
  LET size(i) == m[i].size IN MapThenSumSet(size, 1 .. Len(m))
==============================================================================
