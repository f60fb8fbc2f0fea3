---------------------------- MODULE FrameAllocator ----------------------------
(***************************************************************************)
(* The physical frame allocator of kernel_api/common/src/mem.rs.           *)
(*                                                                         *)
(* PageTableFrameAllocator is a lazy iterator: the usable descriptors of   *)
(* the UEFI memory map, flattened into 4 KiB frames.  allocate_frame takes *)
(* the next frame; nothing is ever returned.  The loader walks the map it  *)
(* got from UEFI; its iterator is cloned into the KernelParameters and the *)
(* kernel then calls swap_map to continue on its own copy of the map.      *)
(*                                                                         *)
(* Addresses are frame numbers; sizes given to allocate_size are in bytes  *)
(* of a scaled page of PageSize bytes.                                     *)
(***************************************************************************)
EXTENDS MemoryMap

CONSTANTS
  Maps,        (* the memory maps UEFI may report: sequences of descriptors *)
  PageSize,    (* bytes in a frame (4096 in the code)                      *)
  MaxRequest   (* bound: largest size, in bytes, passed to allocate_size   *)

ASSUME MapsAssumption == \A m \in Maps : m \in Seq(Descriptor) /\ Ascending(m)
ASSUME SizeAssumption == PageSize \in Nat \ {0} /\ MaxRequest \in Nat

VARIABLES
  memory_map,  (* the descriptors the allocator walks                      *)
  addresses,   (* the iterator: next descriptor, rest [lo, hi) of this one  *)
  log,         (* history: the frames handed out, oldest first             *)
  want,        (* iterations a running allocate_size still has to make     *)
  ret,         (* what the last call returned                              *)
  swapped,     (* history: swap_map has replaced the iterator              *)
  panicked     (* an unwrap failed; the panic handler loops for ever       *)

vars == <<memory_map, addresses, log, want, ret, swapped, panicked>>

None == [some |-> FALSE, frame |-> 0, n |-> 0]

(* Some((frame, n))                                                        *)
Some(f, n) == [some |-> TRUE, frame |-> f, n |-> n]

(* Mutant: a zero-based descriptor index.                                  *)
IterFromZeroBased(i) == [index |-> i - 1, lo |-> 0, hi |-> 0]

(* PageTableFrameAllocator::new on descriptor i: nothing pulled yet.       *)
IterFrom(i) == [index |-> i, lo |-> 0, hi |-> 0]

(* Descriptors from i on that still yield a frame.                         *)
Pending(m, i) == {k \in i .. Len(m) : is_usable(m[k].type) /\ m[k].size > 0}

Exhausted(m, it) == it.lo >= it.hi /\ Pending(m, it.index) = {}

(* Mutant: the iterator forgets to advance inside a descriptor.            *)
NextFrameStuck(m, it) ==
  IF it.lo < it.hi
  THEN [frame |-> it.lo, iter |-> it]
  ELSE LET k == Min(Pending(m, it.index)) IN
       [frame |-> m[k].start,
        iter  |-> [index |-> k + 1,
                   lo    |-> m[k].start,
                   hi    |-> m[k].start + m[k].size]]

(* Mutant: start ..= end, one frame past the descriptor.                   *)
NextFrameInclusive(m, it) ==
  IF it.lo < it.hi
  THEN [frame |-> it.lo, iter |-> [it EXCEPT !.lo = @ + 1]]
  ELSE LET k == Min(Pending(m, it.index)) IN
       [frame |-> m[k].start,
        iter  |-> [index |-> k + 1,
                   lo    |-> m[k].start + 1,
                   hi    |-> m[k].start + m[k].size + 1]]

(* Mutant: a descriptor gives up its last frame at the border.             *)
NextFrameShort(m, it) ==
  IF it.lo < it.hi
  THEN [frame |-> it.lo, iter |-> [it EXCEPT !.lo = @ + 1]]
  ELSE LET k == Min(Pending(m, it.index)) IN
       [frame |-> m[k].start,
        iter  |-> [index |-> k + 1,
                   lo    |-> m[k].start + 1,
                   hi    |-> m[k].start + m[k].size - 1]]

(* addresses.next(): the frame yielded and the iterator afterwards.        *)
NextFrame(m, it) ==
  IF it.lo < it.hi
  THEN [frame |-> it.lo, iter |-> [it EXCEPT !.lo = @ + 1]]
  ELSE LET k == Min(Pending(m, it.index)) IN
       [frame |-> m[k].start,
        iter  |-> [index |-> k + 1,
                   lo    |-> m[k].start + 1,
                   hi    |-> m[k].start + m[k].size]]

(* The whole usable memory, as usable_frames() lists it.                   *)
UsableFrames(m) == UsableFrom(m, 1)

(* Frames the iterator will still yield.                                   *)
Ahead(m, it) == (it.lo .. (it.hi - 1)) \cup UsableFrom(m, it.index)

Issued == {log[i] : i \in 1 .. Len(log)}

-------------------------------------------------------------------------------
Init ==
  /\ memory_map \in Maps
  /\ addresses = IterFrom(1)
  /\ log = << >>
  /\ want = 0
  /\ ret = None
  /\ swapped = FALSE
  /\ panicked = FALSE

Idle == want = 0 /\ ~panicked

Take(r) == addresses' = r.iter /\ log' = Append(log, r.frame)

(* FrameAllocator::allocate_frame                                          *)
allocate_frame ==
  /\ Idle
  /\ IF Exhausted(memory_map, addresses)
     THEN ret' = None /\ UNCHANGED <<addresses, log>>
     ELSE LET r == NextFrame(memory_map, addresses) IN
          Take(r) /\ ret' = Some(r.frame, 1)
  /\ UNCHANGED <<memory_map, want, swapped, panicked>>

(* allocate_size(size): n = size / 4096 calls of allocate_frame; a size    *)
(* below a page makes none and returns frame 0.                            *)
allocate_size(size) ==
  /\ Idle
  /\ want' = size \div PageSize
  /\ ret' = Some(0, size \div PageSize)
  /\ UNCHANGED <<memory_map, addresses, log, swapped, panicked>>

(* One iteration of the loop of allocate_size: the first frame is the one  *)
(* returned; running out returns None and keeps what was taken.            *)
allocate_size_step ==
  /\ want > 0
  /\ IF Exhausted(memory_map, addresses)
     THEN want' = 0 /\ ret' = None /\ UNCHANGED <<addresses, log>>
     ELSE LET r == NextFrame(memory_map, addresses) IN
          /\ Take(r)
          /\ want' = want - 1
          /\ ret' = IF want = ret.n THEN [ret EXCEPT !.frame = r.frame] ELSE ret
  /\ UNCHANGED <<memory_map, swapped, panicked>>

(* swap_map: take one frame from the old iterator, pull descriptors of the *)
(* new map up to and including the first that starts at or after it, and   *)
(* continue behind that one.  The map the kernel passes differs from the   *)
(* loader's only in virtual addresses.                                     *)
swap_map ==
  /\ Idle
  /\ IF Exhausted(memory_map, addresses)
     THEN panicked' = TRUE /\ UNCHANGED <<addresses, log, swapped>>
     ELSE LET r     == NextFrame(memory_map, addresses)
              stops == SwapStops(memory_map, r.frame) IN
          IF stops = {}
          THEN Take(r) /\ panicked' = TRUE /\ UNCHANGED swapped
          ELSE /\ Take([r EXCEPT !.iter = IterFrom(Min(stops) + 1)])
               /\ swapped' = TRUE
               /\ UNCHANGED panicked
  /\ ret' = None
  /\ UNCHANGED <<memory_map, want>>

(* panic_handler: loop {}                                                  *)
panic_handler == panicked /\ UNCHANGED vars

Next ==
  \/ allocate_frame
  \/ \E size \in 0 .. MaxRequest : allocate_size(size)
  \/ allocate_size_step
  \/ swap_map
  \/ panic_handler

Spec == Init /\ [][Next]_vars

-------------------------------------------------------------------------------
Iterator == [index : Nat \ {0}, lo : Nat, hi : Nat]

Return == [some : BOOLEAN, frame : Nat, n : Nat]

(* Type correctness of the allocator's state.                              *)
TypeOK ==
  /\ memory_map \in Seq(Descriptor)
  /\ addresses \in Iterator
  /\ log \in Seq(Nat)
  /\ want \in Nat
  /\ ret \in Return
  /\ swapped \in BOOLEAN
  /\ panicked \in BOOLEAN

(* allocate_frame never yields a frame a second time, also not after the   *)
(* loader's iterator was replaced by the kernel's (swap_map).              *)
NoFrameIssuedTwice ==
  \A i, j \in 1 .. Len(log) : i # j => log[i] # log[j]

(* Every frame handed out lies in a usable descriptor: loader data and     *)
(* reserved ranges are never given to a page table or to the heap.         *)
IssuedFramesUsable == Issued \subseteq UsableFrames(memory_map)

(* Until swap_map runs, a usable frame is either handed out or still       *)
(* ahead: the flattened iterator skips none, also at descriptor borders.   *)
NothingLostBeforeSwap ==
  ~swapped => UsableFrames(memory_map) = Issued \cup Ahead(memory_map, addresses)

(* What swap_map throws away lies in two descriptors at most (in the code  *)
(* the one in use and the one its loop stops at), all other memory that    *)
(* was ahead is still ahead.                                               *)
SwapLossBounded ==
  [][swap_map /\ ~panicked' =>
       \E i, j \in 1 .. Len(memory_map) :
         Ahead(memory_map, addresses) \ Ahead(memory_map, addresses')
           \subseteq Frames(memory_map[i]) \cup Frames(memory_map[j])]_vars

(* The iterator implements a pool whose free frames are those ahead of it. *)
Pool == INSTANCE FramePool
          WITH Frame  <- Nat,
               free   <- Ahead(memory_map, addresses),
               issued <- Issued

(* Every step of the allocator is a step of the pool, or none.             *)
ImplementsPool == Pool!Spec
===============================================================================
