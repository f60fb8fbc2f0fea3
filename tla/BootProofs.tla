------------------------------ MODULE BootProofs ------------------------------
(***************************************************************************)
(* Proofs about Boot: whatever memory the machine has, and whichever of    *)
(* the dropped results were errors, the heap is backed when the loader     *)
(* uses it, and a kernel that runs sees the heap, its root table, the      *)
(* runtime services and, in the driver's address space, its own pages.     *)
(***************************************************************************)
EXTENDS Boot, PageTableProofs, SequenceTheorems

Processes == {"loader", "kernel", "driver"}

(* The frames that are mapped at their own addresses.                      *)
Physical(m) == UsableFrom(m, 1) \cup RuntimeFrames(m)

Loading == {"get_memory_map", "exit_boot_services", "mem_init"}
(* A well formed table on usable frames.                                   *)
Sound(t, m) == PtOK(t) /\ TableFrames(t) \subseteq UsableFrom(m, 1)

Types ==
  /\ memory_map \in MemoryMaps /\ image \in Images
  /\ DOMAIN pt = Processes /\ \A w \in Processes : Sound(pt[w], memory_map)
  /\ fa \in Seq(UsableFrom(memory_map, 1))
  /\ s \in Nat \ {0} /\ k \in Nat /\ root \in Nat

Stages ==
  \/ building = "loader" /\ pc \in Loading \cup {"init_heap_new", "efi_panic", "panicked"}
  \/ /\ building = "kernel"
     /\ pc \in {"fixed", "headers", "segments", "built", "runtime", "copy", "swap_map", "ioapic",
                "panicked", "bad_elf", "swap_panic", "table_fault"}
  \/ /\ building = "driver"
     /\ pc \in {"fixed", "kernel_pages", "headers", "segments", "built", "running",
                "panicked", "bad_elf", "fault", "table_fault"}

BackedTo(n) ==
  \A j \in 0 .. (n - 1) : /\ HeapStartPage + j \in Mapped(pt["loader"])
                          /\ TableOf(HeapStartPage + j, 1) \in DOMAIN pt["loader"].tables

LoaderHeap ==
  /\ pc \in Loading => pt["loader"] = EmptyTable /\ k = 0
  /\ pc = "init_heap_new" =>
       /\ k <= HeapPages
       /\ Mapped(pt["loader"]) \subseteq HeapStartPage .. (HeapStartPage + k - 1)
       /\ fa # << >> \/ k = HeapPages => BackedTo(k)
  /\ building # "loader" => heap_range \subseteq Mapped(pt["loader"])
  /\ \A p \in Mapped(pt["loader"]) : pt["loader"].map[p] \in UsableFrom(memory_map, 1)

LowIdentity ==
  \A f \in Physical(memory_map) : f \in Mapped(pt["kernel"]) => pt["kernel"].map[f] = f

NoHeapTable ==
  /\ building = "loader" => pt["kernel"] = EmptyTable
  /\ building = "kernel" /\ (pc \in {"fixed", "headers", "segments", "built", "runtime"}
                               \/ (pc = "copy" /\ k = 0)) =>
       TableOf(HeapStartPage, 1) \notin DOMAIN pt["kernel"].tables

SeenTo(n) ==
  \A j \in 0 .. (n - 1) :
    /\ HeapStartPage + j \in Mapped(pt["kernel"])
    /\ pt["kernel"].map[HeapStartPage + j] = pt["loader"].map[HeapStartPage + j]

IdentityTo(n) ==
  /\ root \in Mapped(pt["kernel"]) /\ root \in UsableFrom(memory_map, 1)
  /\ \A j \in 1 .. n : RuntimePages[j] \in Mapped(pt["kernel"])

Copying ==
  /\ pc = "runtime" => k <= Len(RuntimePages) /\ (fa = << >> \/ IdentityTo(k))
  /\ pc = "copy" => /\ k <= HeapPages /\ SeenTo(k)
                    /\ (fa = << >> /\ k = 0) \/ IdentityTo(Len(RuntimePages))
  /\ KernelRuns => SeenTo(HeapPages) /\ IdentityTo(Len(RuntimePages))

Shown(p) ==
  /\ p \in Mapped(pt["driver"]) /\ p \in Mapped(pt["kernel"])
  /\ pt["driver"].map[p] = pt["kernel"].map[p]

SharedTo(n, l) ==
  \A h \in 1 .. Len(Headers("kernel")) : Headers("kernel")[h].load =>
    \A j \in 0 .. (SegPages(Headers("kernel")[h]) - 1) :
      h < n \/ (h = n /\ j < l) => Shown(SegPage(Headers("kernel")[h], j))

Sharing ==
  /\ pc = "kernel_pages" => SharedTo(s, k)
  /\ building = "driver" /\ pc \in {"headers", "segments", "built", "running"} =>
       \A p \in SegmentPages("kernel") : Shown(p)

IInv == Types /\ Stages /\ LoaderHeap /\ LowIdentity /\ NoHeapTable /\ Copying /\ Sharing

-------------------------------------------------------------------------------
(* Memory maps and sequences of frames.                                    *)
LEMMA FramesAreNumbers ==
  ASSUME NEW m \in MemoryMaps
  PROVE  UsableFrom(m, 1) \subseteq Nat /\ RuntimeFrames(m) \subseteq Nat
<1>1. m \in Seq(Descriptor)
  BY MapAssumption
<1>2. ASSUME NEW j \in 1 .. Len(m) PROVE Frames(m[j]) \subseteq Nat
  <2>1. m[j] \in Descriptor
    BY <1>1
  <2>2. m[j].start \in Nat /\ m[j].size \in Nat
    BY <2>1 DEF Descriptor
  <2>. QED BY <2>2 DEF Frames
<1>3. ASSUME NEW f \in UsableFrom(m, 1) PROVE f \in Nat
  <2>1. PICK j \in 1 .. Len(m) : f \in Frames(m[j])
    BY <1>3 DEF UsableFrom
  <2>. QED BY <1>2, <2>1
<1>4. ASSUME NEW f \in RuntimeFrames(m) PROVE f \in Nat
  <2>1. PICK j \in 1 .. Len(m) : f \in Frames(m[j])
    BY <1>4 DEF RuntimeFrames
  <2>. QED BY <1>2, <2>1
<1>. QED BY <1>3, <1>4

(* What an allocator issues from descriptor i on is usable.                *)
LEMMA IssuedFrames ==
  ASSUME NEW m \in MemoryMaps, NEW i \in 1 .. (Len(m) + 1)
  PROVE  FramesOf(m, i) \in Seq(UsableFrom(m, 1))
<1>1. FramesOf(m, i) \in Seq(UsableFrom(m, i))
  BY FramesAssumption
<1>2. UsableFrom(m, i) \subseteq UsableFrom(m, 1)
  <2>1. m \in Seq(Descriptor)
    BY MapAssumption
  <2>2. i .. Len(m) \subseteq 1 .. Len(m)
    BY <2>1
  <2>. QED BY <2>2 DEF UsableFrom
<1>. QED BY <1>1, <1>2, SeqMonotonic

(* Taking frames leaves a sequence of frames.                              *)
LEMMA AdvanceKeeps ==
  ASSUME NEW S, NEW q \in Seq(S), NEW n \in 0 .. Len(q)
  PROVE  Advance(q, n) \in Seq(S)
<1>1. \A j \in (n + 1) .. Len(q) : q[j] \in S
  OBVIOUS
<1>. QED BY <1>1 DEF Advance

(* A call of map_to with frames of map m, and what its callers need.       *)
LevelDone(t, q, m, l, page, r) ==
  /\ Sound(r.pt, m) /\ Grows(t, r.pt) /\ r.fa \in Seq(UsableFrom(m, 1))
  /\ q = << >> => r.fa = << >>
  /\ \A x \in DOMAIN r.pt.tables :
       x \in DOMAIN t.tables \/ \E i \in l .. Levels : x = TableOf(page * Covered(l), i)

(* A call of map_to for a page of level l.                                 *)
LEMMA LevelCall ==
  ASSUME NEW m \in MemoryMaps, NEW t, Sound(t, m), NEW q \in Seq(UsableFrom(m, 1)),
         NEW l \in 1 .. Levels, NEW page \in Nat, NEW frame \in Nat,
         NEW r, r = map_to_level(t, q, l, page, frame)
  PROVE  LevelDone(t, q, m, l, page, r) /\ MapDone(t, q, l, page, frame, r)
<1>1. q \in Seq(Nat)
  BY FramesAreNumbers, SeqMonotonic
<1>2. MapDone(t, q, l, page, frame, r)
  BY <1>1, MapTo DEF Sound
<1>3. r.fa \in Seq(UsableFrom(m, 1))
  <2>1. PICK n \in 0 .. Len(q) : r.fa = Advance(q, n)
    BY <1>2, Zenon DEF MapDone
  <2>. QED BY <2>1, AdvanceKeeps
<1>4. Sound(r.pt, m)
  <2>1. PtOK(r.pt)
    BY <1>2, Zenon DEF MapDone
  <2>2. ASSUME NEW x \in DOMAIN r.pt.tables PROVE r.pt.tables[x] \in UsableFrom(m, 1)
    <3>1. \/ x \in DOMAIN t.tables /\ r.pt.tables[x] = t.tables[x]
          \/ \E i \in 1 .. Len(q) : r.pt.tables[x] = q[i]
      BY <1>2, Zenon DEF MapDone
    <3>2. \A i \in 1 .. Len(q) : q[i] \in UsableFrom(m, 1)
      OBVIOUS
    <3>. QED BY <3>1, <3>2 DEF Sound, TableFrames
  <2>. QED BY <2>1, <2>2 DEF Sound, TableFrames
<1>. QED BY <1>2, <1>3, <1>4, Zenon DEF MapDone, LevelDone

PageDone(t, q, page, frame, r) ==
  /\ r.res = "Ok" => /\ page \notin Mapped(t) /\ Mapped(r.pt) = Mapped(t) \cup {page}
                     /\ r.pt.map[page] = frame /\ TableOf(page, 1) \in DOMAIN r.pt.tables
  /\ r.res # "Ok" => r.pt.map = t.map
  /\ r.res = "FrameAllocationFailed" => r.fa = << >>
  /\ page \notin Mapped(t) => r.res \in {"Ok", "FrameAllocationFailed"}
  /\ q = << >> /\ r.res = "Ok" => TableOf(page, 1) \in DOMAIN t.tables
  /\ page \notin Mapped(t) /\ TableOf(page, 1) \in DOMAIN t.tables => r.res = "Ok"
  /\ r.res \in Results
  /\ TableOf(page, 1) \in DOMAIN t.tables => r.res # "ParentEntryHugePage"

(* The same for a small page.                                              *)
LEMMA PageCall ==
  ASSUME NEW m \in MemoryMaps, NEW t, Sound(t, m), NEW q \in Seq(UsableFrom(m, 1)),
         NEW page \in Nat, NEW frame \in Nat, NEW r, r = map_to(t, q, page, frame)
  PROVE  LevelDone(t, q, m, 1, page, r) /\ PageDone(t, q, page, frame, r)
<1>1. 1 \in 1 .. Levels
  BY TableAssumption
<1>2. r = map_to_level(t, q, 1, page, frame)
  BY DEF map_to
<1>3. LevelDone(t, q, m, 1, page, r) /\ MapDone(t, q, 1, page, frame, r)
  BY <1>1, <1>2, LevelCall
<1>4. page * Covered(1) = page /\ EntryOf(1, page) = {page} /\ frame * Covered(1) = frame
  <2>1. Covered(1) = 1
    BY <1>1, CoveredFacts
  <2>2. page * 1 = page /\ frame * 1 = frame /\ page .. (page + 1 - 1) = {page}
    OBVIOUS
  <2>. QED BY <2>1, <2>2 DEF EntryOf
<1>5. r.res = "Ok" => r.pt.map[page] = frame
  <2>1. r.res = "Ok" => r.pt.map[page] = frame + (page - page)
    BY <1>3, <1>4, Zenon DEF MapDone, Shows
  <2>. QED BY <2>1
<1>6. r.res = "Ok" => /\ page \notin Mapped(t) /\ Mapped(r.pt) = Mapped(t) \cup {page}
                      /\ TableOf(page, 1) \in DOMAIN r.pt.tables
  BY <1>1, <1>3, <1>4, Zenon DEF MapDone, Mapped
<1>7. /\ r.res # "Ok" => r.pt.map = t.map
      /\ r.res = "FrameAllocationFailed" => r.fa = << >>
      /\ q = << >> /\ r.res = "Ok" => TableOf(page, 1) \in DOMAIN t.tables
      /\ r.res \in Results
      /\ TableOf(page, 1) \in DOMAIN t.tables => r.res # "ParentEntryHugePage"
  BY <1>3, <1>4, Zenon DEF MapDone
<1>8. /\ page \notin Mapped(t) => r.res \in {"Ok", "FrameAllocationFailed"}
      /\ page \notin Mapped(t) /\ TableOf(page, 1) \in DOMAIN t.tables => r.res = "Ok"
  <2>1. ~(1 > 1)
    OBVIOUS
  <2>. QED BY <1>3, <1>4, <2>1, Zenon DEF MapDone
<1>. QED BY <1>3, <1>5, <1>6, <1>7, <1>8 DEF PageDone

(* Physical pages that t shows are shown at their own addresses.           *)
Low(t, m) == \A f \in Physical(m) : f \in Mapped(t) => t.map[f] = f

(* A page that is not physical, or goes to its own frame, leaves that so.  *)
LEMMA LowKept ==
  ASSUME NEW m \in MemoryMaps, NEW t, Sound(t, m), NEW q \in Seq(UsableFrom(m, 1)), NEW l \in 1 .. Levels,
         NEW page \in Nat, NEW frame \in Nat, NEW r, r = map_to_level(t, q, l, page, frame),
         Low(t, m),
         \/ l = 1 /\ page = frame
         \/ \A f \in Physical(m) : f \notin EntryOf(l, page)
  PROVE  Low(r.pt, m)
<1>1. MapDone(t, q, l, page, frame, r)
  BY LevelCall
<1>2. SUFFICES ASSUME NEW f \in Physical(m), f \in Mapped(r.pt) PROVE r.pt.map[f] = f
  BY DEF Low
<1>3. CASE f \in Mapped(t)
  BY <1>1, <1>3, Zenon DEF MapDone, Grows, Low
<1>4. CASE f \notin Mapped(t)
  <2>1. r.res = "Ok" /\ f \in EntryOf(l, page)
    BY <1>1, <1>2, <1>4 DEF MapDone, Mapped
  <2>2. l = 1 /\ page = frame
    BY <2>1
  <2>3. PageDone(t, q, page, frame, r)
    BY <2>2, PageCall DEF map_to
  <2>4. f = page
    BY <1>2, <1>4, <2>1, <2>3 DEF PageDone
  <2>. QED BY <2>1, <2>2, <2>3, <2>4 DEF PageDone
<1>. QED BY <1>3, <1>4

(* The heap's first table is not made by a large page, nor by a page of    *)
(* another table.                                                          *)
LEMMA HeapTableKept ==
  ASSUME NEW t, NEW q, NEW m, NEW l \in 1 .. Levels, NEW page \in Nat, NEW r,
         LevelDone(t, q, m, l, page, r), TableOf(HeapStartPage, 1) \notin DOMAIN t.tables,
         l > 1 \/ page \div Entries # HeapStartPage \div Entries
  PROVE  TableOf(HeapStartPage, 1) \notin DOMAIN r.pt.tables
<1>1. SUFFICES ASSUME TableOf(HeapStartPage, 1) \in DOMAIN r.pt.tables PROVE FALSE
  OBVIOUS
<1>2. PICK i \in l .. Levels : TableOf(HeapStartPage, 1) = TableOf(page * Covered(l), i)
  BY <1>1, Zenon DEF LevelDone
<1>3. i = 1 /\ HeapStartPage \div Entries ^ 1 = (page * Covered(l)) \div Entries ^ i
  BY <1>2 DEF TableOf
<1>4. l = 1
  BY <1>3, TableAssumption
<1>5. page * Covered(l) = page
  <2>1. Covered(l) = 1
    BY <1>4, CoveredFacts
  <2>. QED BY <2>1
<1>6. HeapStartPage \div Entries = page \div Entries
  BY <1>3, <1>5, PowerAssumption
<1>. QED BY <1>4, <1>6

-------------------------------------------------------------------------------
(* The loader, until the heap is backed.                                   *)
LEMMA EmptyTableFacts ==
  /\ Mapped(EmptyTable) = {} /\ DOMAIN EmptyTable.tables = {}
  /\ \A m : Sound(EmptyTable, m)
<1>1. DOMAIN << >> = {}
  OBVIOUS
<1>2. EmptyTable.map = << >> /\ EmptyTable.tables = << >>
  BY DEF EmptyTable
<1>. QED BY <1>1, <1>2 DEF PtOK, Mapped, Sound, TableFrames

(* While the loader builds, the kernel's table is empty, and nothing is    *)
(* said of the later stages.                                               *)
LEMMA LoaderStage ==
  ASSUME Types', LoaderHeap', building' = "loader", pt'["kernel"] = EmptyTable,
         pc' \in Loading \cup {"init_heap_new", "efi_panic", "panicked"}
  PROVE  IInv'
<1>1. Stages' /\ Copying' /\ Sharing'
  BY DEF Stages, Copying, Sharing, KernelRuns, Loading
<1>2. LowIdentity' /\ NoHeapTable'
  BY EmptyTableFacts DEF LowIdentity, NoHeapTable
<1>. QED BY <1>1, <1>2 DEF IInv

(* The boot starts with empty tables.                                      *)
LEMMA IInvInit == Init => IInv
<1>1. SUFFICES ASSUME Init PROVE IInv
  OBVIOUS
<1>2. /\ DOMAIN pt = Processes
      /\ pt["loader"] = EmptyTable /\ pt["kernel"] = EmptyTable /\ pt["driver"] = EmptyTable
  BY <1>1 DEF Init, Processes
<1>3. fa \in Seq(UsableFrom(memory_map, 1))
  BY <1>1, EmptySeq DEF Init
<1>4. Types
  BY <1>1, <1>2, <1>3, EmptyTableFacts DEF Init, Types, Processes
<1>5. LoaderHeap /\ LowIdentity /\ NoHeapTable
  BY <1>1, <1>2, EmptyTableFacts DEF Init, LoaderHeap, LowIdentity, NoHeapTable, Loading
<1>6. Stages /\ Copying /\ Sharing
  BY <1>1 DEF Init, Stages, Copying, Sharing, KernelRuns, Loading
<1>. QED BY <1>4, <1>5, <1>6 DEF IInv

(* The numbers of the heap pages.                                          *)
LEMMA HeapNumbers == HeapStartPage \in Nat /\ HeapPages \in Nat \ {0} /\ IoApicPage \in Nat
BY HeapGeometry

(* The firmware calls and mem::init touch no table.                        *)
LEMMA FirmwareKeeps ==
  ASSUME IInv, get_memory_map \/ exit_boot_services \/ mem_init
  PROVE  IInv'
<1>1. /\ pc \in Loading /\ building = "loader" /\ UNCHANGED <<memory_map, image, pt, building, s, root>>
      /\ pc' \in Loading \cup {"init_heap_new", "efi_panic"} /\ k' = 0
  BY DEF IInv, Stages, LoaderHeap, get_memory_map, exit_boot_services, mem_init, Goto, Loading, const
<1>2. fa' \in Seq(UsableFrom(memory_map, 1))
  <2>1. CASE mem_init
    <3>1. fa' = FramesOf(memory_map, 1) /\ memory_map \in MemoryMaps
      BY <2>1 DEF mem_init, FramesFrom, IInv, Types
    <3>2. memory_map \in Seq(Descriptor)
      BY <3>1, MapAssumption
    <3>3. 1 \in 1 .. (Len(memory_map) + 1)
      BY <3>2
    <3>. QED BY <3>1, <3>3, IssuedFrames
  <2>2. CASE get_memory_map \/ exit_boot_services
    BY <2>2 DEF get_memory_map, exit_boot_services, Goto, IInv, Types
  <2>. QED BY <2>1, <2>2
<1>3. Types'
  BY <1>1, <1>2 DEF IInv, Types
<1>4. LoaderHeap'
  <2>1. pt["loader"] = EmptyTable /\ Mapped(pt["loader"]) = {}
    BY <1>1, EmptyTableFacts DEF IInv, LoaderHeap
  <2>2. BackedTo(0)'
    BY DEF BackedTo
  <2>. QED BY <1>1, <2>1, <2>2, HeapNumbers DEF LoaderHeap
<1>. QED BY <1>1, <1>3, <1>4, LoaderStage DEF IInv, NoHeapTable

(* A heap page that is not the first of its table shares it with the page  *)
(* before.                                                                 *)
LEMMA SameHeapTable ==
  ASSUME NEW j \in Nat, j % Entries # 0
  PROVE  j >= 1 /\ TableOf(HeapStartPage + (j - 1), 1) = TableOf(HeapStartPage + j, 1)
<1>1. PICK e \in Nat \ {0}, h \in Nat : e = Entries /\ h = HeapStartPage
  BY TableAssumption, HeapNumbers
<1>2. PICK a \in Nat : h = e * a
  <2>1. PICK w \in Nat \ {0}, b \in Nat \ {0} : w = Entries ^ Levels /\ w = e * b
    <3>1. 1 \in 0 .. Levels /\ Levels - 1 \in 0 .. (Levels - 1) /\ Levels - 1 \in 0 .. Levels
      BY TableAssumption
    <3>2. 1 + (Levels - 1) = Levels
      BY TableAssumption
    <3>3. Entries ^ (1 + (Levels - 1)) = Entries ^ 1 * Entries ^ (Levels - 1)
      BY <3>1, PowerAssumption
    <3>4. Entries ^ (Levels - 1) \in Nat \ {0} /\ Entries ^ 1 = Entries
      BY <3>1, PowerAssumption
    <3>5. PICK b \in Nat \ {0} : b = Entries ^ (Levels - 1)
      BY <3>4
    <3>6. Entries ^ Levels = e * b
      BY <1>1, <3>2, <3>3, <3>4, <3>5
    <3>7. e * b \in Nat \ {0}
      BY <3>5
    <3>. QED BY <3>6, <3>7
  <2>2. h % w = 0
    BY <1>1, <2>1, HeapGeometry
  <2>3. PICK c \in Nat, r \in 0 .. (w - 1) : h = w * c + r /\ c = h \div w /\ r = h % w
    BY Division
  <2>4. h = (e * b) * c
    BY <2>1, <2>2, <2>3
  <2>5. (e * b) * c = e * (b * c) /\ b * c \in Nat
    OBVIOUS
  <2>. QED BY <2>4, <2>5
<1>3. PICK d \in Nat, r \in 0 .. (e - 1) : j = e * d + r /\ d = j \div e /\ r = j % e
  BY Division
<1>4. r >= 1
  BY <1>1, <1>3
<1>5. e * a \in Nat /\ e * d \in Nat /\ e * (a + d) = e * a + e * d /\ a + d \in Nat
  OBVIOUS
<1>6. /\ j >= 1 /\ h + j = e * (a + d) + r /\ h + (j - 1) = e * (a + d) + (r - 1)
      /\ r - 1 \in 0 .. (e - 1) /\ h + j \in Nat /\ h + (j - 1) \in Nat
  BY <1>2, <1>3, <1>4, <1>5
<1>7. (h + j) \div e = a + d
  BY <1>5, <1>6, DivUnique
<1>8. (h + (j - 1)) \div e = a + d
  BY <1>5, <1>6, DivUnique
<1>9. Entries ^ 1 = e
  BY <1>1, PowerAssumption
<1>. QED BY <1>1, <1>6, <1>7, <1>8, <1>9 DEF TableOf

(* One page of the heap.  A map_to that fails has emptied the allocator,   *)
(* so that the loop ends; on the last page it cannot fail, because the     *)
(* page before it lies in the same table.                                  *)
LEMMA HeapPageKeeps ==
  ASSUME IInv, init_heap_page
  PROVE  IInv'
<1>1. /\ pc = "init_heap_new" /\ k < HeapPages /\ building = "loader" /\ k \in Nat
      /\ root' = root /\ pt["kernel"] = EmptyTable
      /\ memory_map \in MemoryMaps /\ fa \in Seq(UsableFrom(memory_map, 1))
      /\ Sound(pt["loader"], memory_map) /\ DOMAIN pt = Processes
  BY DEF IInv, Stages, Types, NoHeapTable, init_heap_page, Loading, Processes
<1>2. CASE fa = << >>
  <2>1. /\ pc' = "panicked" /\ fa' = fa
        /\ UNCHANGED <<memory_map, image, pt, building, s, k>>
    BY <1>2 DEF init_heap_page, Panic, const
  <2>2. Types'
    BY <1>1, <2>1 DEF IInv, Types
  <2>3. LoaderHeap'
    BY <1>1, <2>1 DEF IInv, LoaderHeap, Loading
  <2>. QED BY <1>1, <2>1, <2>2, <2>3, LoaderStage
<1>3. CASE fa # << >>
  <2>1. PICK q, frame, page, m : /\ q = Advance(fa, 1) /\ frame = fa[1] /\ page = HeapStartPage + k
                                 /\ m = map_to(pt["loader"], q, page, frame)
    OBVIOUS
  <2>2. /\ pt' = [pt EXCEPT !["loader"] = m.pt] /\ fa' = m.fa /\ k' = k + 1
        /\ UNCHANGED <<memory_map, image, building, pc, s>>
    BY <1>1, <1>3, <2>1 DEF init_heap_page, MapNext, HeapPage, const
  <2>3. UsableFrom(memory_map, 1) \subseteq Nat
    BY <1>1, FramesAreNumbers
  <2>4. Len(fa) \in Nat /\ Len(fa) >= 1
    BY <1>1, <1>3, EmptySeq
  <2>5. q \in Seq(UsableFrom(memory_map, 1)) /\ frame \in UsableFrom(memory_map, 1) /\ frame \in Nat
    BY <1>1, <2>1, <2>3, <2>4, AdvanceKeeps
  <2>6. page \in Nat
    BY <1>1, <2>1, HeapNumbers
  <2>7. /\ LevelDone(pt["loader"], q, memory_map, 1, page, m)
        /\ PageDone(pt["loader"], q, page, frame, m)
    BY <1>1, <2>1, <2>3, <2>5, <2>6, PageCall
  <2>8. /\ pt'["loader"] = m.pt /\ pt'["kernel"] = pt["kernel"] /\ pt'["driver"] = pt["driver"]
        /\ DOMAIN pt' = Processes
    BY <1>1, <2>2 DEF Processes
  <2>9. Types'
    BY <1>1, <2>2, <2>7, <2>8 DEF IInv, Types, LevelDone, Processes
  <2>10. /\ Mapped(pt["loader"]) \subseteq HeapStartPage .. (HeapStartPage + k - 1)
         /\ BackedTo(k)
    BY <1>1, <1>3 DEF IInv, LoaderHeap
  <2>11. page \notin Mapped(pt["loader"])
    <3>1. HeapStartPage + k \notin HeapStartPage .. (HeapStartPage + k - 1)
      BY <1>1, HeapNumbers
    <3>. QED BY <2>1, <2>10, <3>1
  <2>12. Mapped(m.pt) \subseteq HeapStartPage .. (HeapStartPage + k' - 1)
    <3>1. Mapped(m.pt) \subseteq Mapped(pt["loader"]) \cup {page}
      BY <2>7 DEF PageDone, Mapped
    <3>2. page \in HeapStartPage .. (HeapStartPage + k' - 1)
      BY <1>1, <2>1, <2>2, HeapNumbers
    <3>3. HeapStartPage .. (HeapStartPage + k - 1) \subseteq HeapStartPage .. (HeapStartPage + k' - 1)
      BY <1>1, <2>2, HeapNumbers
    <3>. QED BY <2>10, <3>1, <3>2, <3>3
  <2>13. ASSUME m.res = "Ok" PROVE BackedTo(k)'
    <3>1. SUFFICES ASSUME NEW j \in 0 .. (k' - 1)
                   PROVE  /\ HeapStartPage + j \in Mapped(m.pt)
                          /\ TableOf(HeapStartPage + j, 1) \in DOMAIN m.pt.tables
      BY <2>8 DEF BackedTo
    <3>2. CASE j = k
      BY <2>1, <2>7, <2>13, <3>2 DEF PageDone
    <3>3. CASE j # k
      <4>1. j \in 0 .. (k - 1)
        BY <1>1, <2>2, <3>1, <3>3
      <4>. QED BY <2>7, <2>10, <4>1 DEF BackedTo, LevelDone, Grows
    <3>. QED BY <3>2, <3>3
  <2>14. fa' # << >> => m.res = "Ok"
    BY <2>2, <2>7, <2>11 DEF PageDone
  <2>15. ASSUME k' = HeapPages PROVE m.res = "Ok"
    <3>1. k = HeapPages - 1 /\ k % Entries # 0
      BY <1>1, <2>2, <2>15, HeapGeometry
    <3>2. k >= 1 /\ k - 1 \in 0 .. (k - 1)
      BY <1>1, <3>1, SameHeapTable
    <3>3. TableOf(HeapStartPage + (k - 1), 1) \in DOMAIN pt["loader"].tables
      BY <2>10, <3>2 DEF BackedTo
    <3>4. TableOf(HeapStartPage + (k - 1), 1) = TableOf(page, 1)
      BY <1>1, <2>1, <3>1, SameHeapTable
    <3>. QED BY <2>7, <2>11, <3>3, <3>4 DEF PageDone
  <2>16. \A p \in Mapped(m.pt) : m.pt.map[p] \in UsableFrom(memory_map, 1)
    <3>1. SUFFICES ASSUME NEW p \in Mapped(m.pt) PROVE m.pt.map[p] \in UsableFrom(memory_map, 1)
      OBVIOUS
    <3>2. CASE p \in Mapped(pt["loader"])
      <4>1. m.pt.map[p] = pt["loader"].map[p]
        BY <2>7, <3>2 DEF LevelDone, Grows
      <4>. QED BY <3>2, <4>1 DEF IInv, LoaderHeap
    <3>3. CASE p \notin Mapped(pt["loader"])
      <4>1. m.res = "Ok" /\ p = page
        BY <2>7, <3>1, <3>3 DEF PageDone, Mapped
      <4>. QED BY <2>5, <2>7, <4>1 DEF PageDone
    <3>. QED BY <3>2, <3>3
  <2>17. k' <= HeapPages
    BY <1>1, <2>2, HeapNumbers
  <2>18. LoaderHeap'
    BY <1>1, <2>2, <2>8, <2>12, <2>13, <2>14, <2>15, <2>16, <2>17 DEF LoaderHeap, Loading
  <2>. QED BY <1>1, <2>2, <2>8, <2>9, <2>18, LoaderStage
<1>. QED BY <1>2, <1>3

(* init_heap_new has returned Ok: every page was backed.                   *)
LEMMA HeapDoneKeeps ==
  ASSUME IInv, init_heap_done
  PROVE  IInv'
<1>1. /\ pc = "init_heap_new" /\ k = HeapPages /\ building = "loader"
      /\ building' = "kernel" /\ pc' = "fixed" /\ s' = 1 /\ k' = 0
      /\ UNCHANGED <<memory_map, image, pt, fa, root>> /\ pt["kernel"] = EmptyTable
  BY DEF IInv, Stages, NoHeapTable, init_heap_done, const, Loading
<1>2. Types' /\ Stages'
  BY <1>1 DEF IInv, Types, Stages
<1>3. heap_range \subseteq Mapped(pt["loader"])
  <2>1. BackedTo(HeapPages)
    BY <1>1 DEF IInv, LoaderHeap
  <2>2. ASSUME NEW p \in heap_range PROVE p \in Mapped(pt["loader"])
    <3>1. PICK j \in 0 .. (HeapPages - 1) : p = HeapStartPage + j
      <4>1. p - HeapStartPage \in 0 .. (HeapPages - 1) /\ p = HeapStartPage + (p - HeapStartPage)
        BY HeapNumbers DEF heap_range
      <4>. QED BY <4>1
    <3>. QED BY <2>1, <3>1 DEF BackedTo
  <2>. QED BY <2>2
<1>4. LoaderHeap'
  BY <1>1, <1>3 DEF IInv, LoaderHeap, Loading
<1>5. LowIdentity' /\ NoHeapTable'
  BY <1>1, EmptyTableFacts DEF LowIdentity, NoHeapTable
<1>6. Copying' /\ Sharing'
  BY <1>1 DEF Copying, Sharing, KernelRuns
<1>. QED BY <1>2, <1>4, <1>5, <1>6 DEF IInv

-------------------------------------------------------------------------------
(* Once the heap is backed the loader's table stays as it is, and the      *)
(* other two only grow.                                                    *)
Growth ==
  /\ building # "loader" /\ building' # "loader"
  /\ memory_map' = memory_map /\ image' = image /\ pt'["loader"] = pt["loader"]
  /\ Grows(pt["kernel"], pt'["kernel"]) /\ Grows(pt["driver"], pt'["driver"])

(* A table that stays the same has grown by nothing.                       *)
LEMMA GrowsSame == ASSUME NEW t PROVE Grows(t, t)
BY DEF Grows

(* Tables that only grow keep what the kernel sees through them.           *)
LEMMA GrowthKeeps ==
  ASSUME IInv, Growth
  PROVE  /\ \A n : SeenTo(n) => SeenTo(n)'
         /\ \A n : IdentityTo(n) /\ root' = root => IdentityTo(n)'
         /\ \A p : Shown(p) => Shown(p)'
         /\ \A n, l : SharedTo(n, l) => SharedTo(n, l)'
         /\ Stages' => LoaderHeap'
<1>1. \A n : SeenTo(n) => SeenTo(n)'
  BY DEF Growth, Grows, SeenTo
<1>2. \A n : IdentityTo(n) /\ root' = root => IdentityTo(n)'
  BY DEF Growth, Grows, IdentityTo, RuntimePages
<1>3. \A p : Shown(p) => Shown(p)'
  BY DEF Growth, Grows, Shown
<1>4. \A n, l : SharedTo(n, l) => SharedTo(n, l)'
  BY <1>3, Zenon DEF Growth, SharedTo, Headers
<1>5. Stages' => LoaderHeap'
  BY DEF Growth, Stages, LoaderHeap, IInv, Loading
<1>. QED BY <1>1, <1>2, <1>3, <1>4, <1>5

Constructing == {"fixed", "kernel_pages", "headers", "segments"}

(* A step of kernel_from_elf or from_elf.                                  *)
LEMMA ConstructionStep ==
  ASSUME IInv, Growth, Types', Stages', LowIdentity', Sharing',
         root' = root, building' = building, pc \in Constructing,
         pc' \in Constructing \cup {"built", "panicked", "bad_elf", "fault"},
         building = "kernel" => TableOf(HeapStartPage, 1) \notin DOMAIN pt'["kernel"].tables
  PROVE  IInv' /\ Growth
<1>1. LoaderHeap' /\ NoHeapTable'
  BY GrowthKeeps DEF NoHeapTable, Growth
<1>2. KernelRuns => SeenTo(HeapPages) /\ IdentityTo(Len(RuntimePages))
  BY DEF IInv, Copying
<1>3. KernelRuns' => KernelRuns
  BY DEF KernelRuns, Constructing
<1>4. RuntimePages' = RuntimePages
  BY DEF RuntimePages, Growth
<1>5. KernelRuns' => SeenTo(HeapPages)' /\ IdentityTo(Len(RuntimePages))'
  BY <1>2, <1>3, <1>4, GrowthKeeps
<1>6. Copying'
  BY <1>5 DEF Copying, Constructing
<1>. QED BY <1>1, <1>6 DEF IInv

(* Headers of the files.                                                   *)
LEMMA HeaderFacts ==
  ASSUME Types, NEW w \in {"kernel", "driver"}
  PROVE  /\ Headers(w) \in Seq(ProgramHeader)
         /\ \A n \in 1 .. Len(Headers(w)) :
              /\ Headers(w)[n] \in ProgramHeader /\ SegPages(Headers(w)[n]) \in Int
              /\ \A j \in Nat : SegPage(Headers(w)[n], j) \in Nat
<1>1. Headers(w) \in Seq(ProgramHeader)
  BY ImageAssumption DEF Types, Headers
<1>2. ASSUME NEW n \in 1 .. Len(Headers(w))
      PROVE  /\ Headers(w)[n] \in ProgramHeader /\ SegPages(Headers(w)[n]) \in Int
             /\ \A j \in Nat : SegPage(Headers(w)[n], j) \in Nat
  <2>1. PICK h \in ProgramHeader : h = Headers(w)[n]
    BY <1>1
  <2>2. h.va \in Nat /\ h.memsz \in Nat /\ h.va + h.memsz \in Nat /\ PageSize \in Nat \ {0}
    BY BuildAssumption DEF ProgramHeader
  <2>3. PICK a \in Nat, b \in Nat : a = Containing(h.va) /\ b = Containing(h.va + h.memsz)
    BY <2>2, Division DEF Containing
  <2>4. SegPages(h) \in Int
    BY <2>3 DEF SegPages
  <2>5. \A j \in Nat : SegPage(h, j) \in Nat
    BY <2>3 DEF SegPage
  <2>. QED BY <2>1, <2>4, <2>5
<1>. QED BY <1>1, <1>2

(* Steps that leave the tables and the allocator alone.                    *)
LEMMA QuietKeeps ==
  ASSUME IInv, root' = root,
         \/ next_fixed \/ fixed_done \/ next_kernel_segment \/ kernel_pages_done
         \/ progam_headers \/ segment \/ next_segment \/ from_elf_done
  PROVE  IInv' /\ Growth
<1>1. /\ UNCHANGED <<memory_map, image, pt, fa, building>> /\ pc \in Constructing
      /\ pc' \in Constructing \cup {"built", "bad_elf"} /\ building # "loader"
  BY DEF IInv, Stages, next_fixed, fixed_done, next_kernel_segment, kernel_pages_done,
         progam_headers, segment, next_segment, from_elf_done, const, Constructing, Loading
<1>2. s' \in Nat \ {0} /\ k' \in Nat
  <2>1. s \in Nat \ {0} /\ k \in Nat
    BY DEF IInv, Types
  <2>. QED BY <2>1 DEF next_fixed, fixed_done, next_kernel_segment, kernel_pages_done,
         progam_headers, segment, next_segment, from_elf_done
<1>3. Types' /\ Growth /\ LowIdentity'
  BY <1>1, <1>2, GrowsSame DEF IInv, Types, Growth, LowIdentity
<1>4. Stages'
  BY <1>1 DEF IInv, Stages, next_fixed, fixed_done, next_kernel_segment, kernel_pages_done,
         progam_headers, segment, next_segment, from_elf_done
<1>5. \A p : Shown(p) => Shown(p)'
  BY <1>1 DEF Shown
<1>6. Headers("kernel")' = Headers("kernel") /\ SegmentPages("kernel")' = SegmentPages("kernel")
  BY <1>1 DEF Headers, SegmentPages
<1>7. s \in Nat \ {0} /\ k \in Nat /\ Len(Headers("kernel")) \in Nat
  BY HeaderFacts DEF IInv, Types
<1>8. pc' = "kernel_pages" => SharedTo(s, k)'
  <2>1. SUFFICES ASSUME pc' = "kernel_pages",
                        NEW h \in 1 .. Len(Headers("kernel")), Headers("kernel")[h].load,
                        NEW j \in 0 .. (SegPages(Headers("kernel")[h]) - 1),
                        h < s' \/ (h = s' /\ j < k')
                 PROVE  Shown(SegPage(Headers("kernel")[h], j))
    BY <1>5, <1>6 DEF SharedTo
  <2>2. SegPages(Headers("kernel")[h]) \in Int
    BY HeaderFacts DEF IInv
  <2>3. CASE fixed_done
    BY <2>1, <2>2, <2>3 DEF fixed_done
  <2>4. CASE next_kernel_segment
    <3>1. /\ pc = "kernel_pages" /\ s' = s + 1 /\ k' = 0
          /\ ~Headers("kernel")[s].load \/ k >= SegPages(Headers("kernel")[s])
      BY <2>4 DEF next_kernel_segment
    <3>2. h < s \/ h = s
      BY <1>7, <2>1, <2>2, <3>1
    <3>3. h < s \/ (h = s /\ j < k)
      BY <1>7, <2>1, <2>2, <3>1, <3>2
    <3>. QED BY <2>1, <3>1, <3>3 DEF IInv, Sharing, SharedTo
  <2>. QED BY <2>1, <2>3, <2>4 DEF next_fixed, kernel_pages_done, progam_headers, segment,
                                   next_segment, from_elf_done
<1>9. building' = "driver" /\ pc' \in {"headers", "segments", "built", "running"} =>
        (\A p \in SegmentPages("kernel") : Shown(p))'
  <2>1. SUFFICES ASSUME building = "driver", pc' \in {"headers", "segments", "built"},
                        NEW p \in SegmentPages("kernel")
                 PROVE  Shown(p)
    BY <1>1, <1>5, <1>6 DEF Constructing
  <2>2. CASE kernel_pages_done
    <3>1. pc = "kernel_pages" /\ s > Len(Headers("kernel"))
      BY <2>2 DEF kernel_pages_done
    <3>2. PICK h \in 1 .. Len(Headers("kernel")) :
            /\ Headers("kernel")[h].load
            /\ \E j \in 0 .. (SegPages(Headers("kernel")[h]) - 1) :
                 p = SegPage(Headers("kernel")[h], j)
      BY <2>1 DEF SegmentPages, SegmentsOf
    <3>3. h < s
      BY <1>7, <3>1
    <3>. QED BY <3>1, <3>2, <3>3 DEF IInv, Sharing, SharedTo
  <2>3. CASE progam_headers \/ segment \/ next_segment \/ from_elf_done
    <3>1. pc \in {"headers", "segments"}
      BY <2>3 DEF progam_headers, segment, next_segment, from_elf_done
    <3>. QED BY <2>1, <3>1 DEF IInv, Sharing
  <2>. QED BY <2>1, <2>2, <2>3 DEF next_fixed, fixed_done, next_kernel_segment, IInv, Stages
<1>10. Sharing'
  BY <1>8, <1>9 DEF Sharing
<1>11. building = "kernel" => TableOf(HeapStartPage, 1) \notin DOMAIN pt'["kernel"].tables
  BY <1>1 DEF IInv, NoHeapTable, Constructing, Stages
<1>. QED BY <1>1, <1>3, <1>4, <1>10, <1>11, ConstructionStep

(* The layout, as the steps use it.                                        *)
Others(m) ==
  (LoaderCodeOf(m).start .. (LoaderCodeOf(m).start + LoaderCodeOf(m).size))
    \cup (KStackLow .. KStackHigh) \cup {ApicPage}

(* The pages of the layout that lie apart, from LayoutAssumption.          *)
LEMMA LayoutFacts ==
  ASSUME NEW m \in MemoryMaps, NEW im \in Images
  PROVE  /\ \A f \in Physical(m) :
              /\ f \in Nat /\ f < PAGE_TABLE_OFFSET * Covered(Levels)
              /\ f \notin StackLow .. StackHigh /\ f \notin heap_range
              /\ f \notin SegmentsOf(im["kernel"].headers)
         /\ \A p \in Physical(m) \cup (StackLow .. StackHigh)
                       \cup SegmentsOf(im["kernel"].headers) \cup Others(m) :
              p \div Entries # HeapStartPage \div Entries
<1>1. Physical(m) \subseteq Nat
  BY FramesAreNumbers DEF Physical
<1>. QED BY <1>1, LayoutAssumption, Zenon DEF Physical, Others

(* The loader's code is a range of frames.                                 *)
LEMMA LoaderCodeFacts ==
  ASSUME NEW m \in MemoryMaps
  PROVE  LoaderCodeOf(m).start \in Nat /\ LoaderCodeOf(m).size \in Nat
<1>1. m \in Seq(Descriptor) /\ \E i \in 1 .. Len(m) : m[i].type = "LoaderCode"
  BY MapAssumption
<1>2. PICK C, n, j : /\ C = {i \in 1 .. Len(m) : m[i].type = "LoaderCode"}
                     /\ n = Len(m) /\ j = Min(C)
  OBVIOUS
<1>3. j \in 1 .. Len(m)
  <2>1. C # {} /\ C \in SUBSET (1 .. n) /\ n \in Int /\ 1 \in Nat
    BY <1>1, <1>2
  <2>2. Min(C) \in C
    BY <2>1, MinExists, Zenon
  <2>. QED BY <1>2, <2>1, <2>2
<1>4. m[j] \in Descriptor /\ LoaderCodeOf(m) = m[j]
  BY <1>1, <1>2, <1>3 DEF LoaderCodeOf
<1>. QED BY <1>4 DEF Descriptor

(* What a page of a fixed range is: a large one of the window, one of the  *)
(* stack, or one at its own address.                                       *)
LEMMA FixedRange ==
  ASSUME Types, building \in {"kernel", "driver"}, s <= Len(FixedRanges(building)),
         NEW r, r = FixedRanges(building)[s], NEW page, page = r.lo + k, page <= r.hi
  PROVE  /\ page \in Nat
         /\ \/ /\ r.kind = "at" /\ r.level = Levels /\ page - r.base \in Nat
               /\ PAGE_TABLE_OFFSET <= page
            \/ r.kind = "fresh" /\ r.level = 1 /\ page \in StackLow .. StackHigh
            \/ /\ r.kind = "at" /\ r.level = 1 /\ page - r.base = page
               /\ building = "kernel" => page \in Others(memory_map)
<1>1. /\ s \in Nat \ {0} /\ k \in Nat /\ memory_map \in MemoryMaps
      /\ PAGE_TABLE_OFFSET \in Nat /\ StackLow \in Nat /\ StackHigh \in Nat
      /\ KStackLow \in Nat /\ KStackHigh \in Nat /\ ApicPage \in Nat
  BY BuildAssumption DEF Types
<1>2. PICK a \in Nat, z \in Nat :
        LoaderCodeOf(memory_map).start = a /\ LoaderCodeOf(memory_map).size = z
  BY <1>1, LoaderCodeFacts
<1>3. CASE r = Window
  <2>1. r.kind = "at" /\ r.level = Levels /\ r.lo = PAGE_TABLE_OFFSET /\ r.base = PAGE_TABLE_OFFSET
    BY <1>3 DEF Window, Span
  <2>. QED BY <1>1, <2>1
<1>4. CASE r = Stack
  <2>1. r.kind = "fresh" /\ r.level = 1 /\ r.lo = StackLow /\ r.hi = StackHigh
    BY <1>4 DEF Stack, Span
  <2>. QED BY <1>1, <2>1
<1>5. ASSUME NEW lo \in Nat, NEW hi \in Nat, r = Identity(lo, hi)
      PROVE  r.kind = "at" /\ r.level = 1 /\ page \in lo .. hi /\ page - r.base = page
  <2>1. r.kind = "at" /\ r.level = 1 /\ r.lo = lo /\ r.hi = hi /\ r.base = 0
    BY <1>5 DEF Identity, Span
  <2>. QED BY <1>1, <2>1
<1>6. CASE building = "kernel"
  <2>1. \/ r = Window \/ r = Stack \/ r = Identity(a, a + z)
        \/ r = Identity(KStackLow, KStackHigh) \/ r = Identity(ApicPage, ApicPage)
    <3>1. r = KernelRanges[s] /\ s \in 1 .. 5
      BY <1>1, <1>6 DEF FixedRanges, KernelRanges
    <3>2. s = 1 \/ s = 2 \/ s = 3 \/ s = 4 \/ s = 5
      BY <3>1
    <3>. QED BY <1>2, <3>1, <3>2 DEF KernelRanges, LoaderCode
  <2>2. CASE r = Identity(a, a + z)
    BY <1>1, <1>2, <1>5, <2>2 DEF Others
  <2>3. CASE r = Identity(KStackLow, KStackHigh)
    BY <1>1, <1>5, <2>3 DEF Others
  <2>4. CASE r = Identity(ApicPage, ApicPage)
    BY <1>1, <1>5, <2>4 DEF Others
  <2>. QED BY <1>3, <1>4, <2>1, <2>2, <2>3, <2>4
<1>7. CASE building = "driver"
  <2>1. r = Window \/ r = Stack \/ r = Identity(0, 0)
    <3>1. r = DriverRanges[s] /\ s \in 1 .. 3
      BY <1>1, <1>7 DEF FixedRanges, DriverRanges
    <3>2. s = 1 \/ s = 2 \/ s = 3
      BY <3>1
    <3>. QED BY <3>1, <3>2 DEF DriverRanges
  <2>2. CASE r = Identity(0, 0)
    BY <1>5, <1>7, <2>2
  <2>. QED BY <1>3, <1>4, <2>1, <2>2
<1>. QED BY <1>6, <1>7

(* The kernel's or the driver's table is replaced by a larger one.         *)
LEMMA Replaced ==
  ASSUME IInv, NEW w \in {"kernel", "driver"}, NEW t, Sound(t, memory_map), Grows(pt[w], t),
         pt' = [pt EXCEPT ![w] = t], w = "kernel" => Low(t, memory_map),
         memory_map' = memory_map, image' = image, building # "loader", building' # "loader"
  PROVE  /\ Growth /\ LowIdentity' /\ DOMAIN pt' = Processes
         /\ \A v \in Processes : Sound(pt'[v], memory_map) /\ (pt'[v] = IF v = w THEN t ELSE pt[v])
<1>1. DOMAIN pt = Processes /\ \A v \in Processes : Sound(pt[v], memory_map)
  BY DEF IInv, Types
<1>2. DOMAIN pt' = Processes /\ \A v \in Processes : pt'[v] = IF v = w THEN t ELSE pt[v]
  BY <1>1
<1>3. \A v \in Processes : Sound(pt'[v], memory_map)
  BY <1>1, <1>2
<1>4. Growth
  BY <1>2, GrowsSame DEF Growth, Processes
<1>5. LowIdentity'
  BY <1>2 DEF IInv, LowIdentity, Low, Processes
<1>. QED BY <1>2, <1>3, <1>4, <1>5

(* expect fails: the frames taken are lost, the tables stay.               *)
LEMMA PanicKeeps ==
  ASSUME IInv, root' = root, pc \in Constructing,
         NEW q \in Seq(UsableFrom(memory_map, 1)), Panic(q)
  PROVE  IInv' /\ Growth
<1>1. /\ UNCHANGED <<memory_map, image, pt, building, s, k>> /\ pc' = "panicked" /\ fa' = q
      /\ building # "loader"
  BY DEF Panic, const, IInv, Stages, Constructing, Loading
<1>2. Types' /\ Stages' /\ LowIdentity' /\ Sharing' /\ Growth
  BY <1>1, GrowsSame DEF IInv, Types, Stages, LowIdentity, Sharing, Growth, Constructing, Loading
<1>3. building = "kernel" => TableOf(HeapStartPage, 1) \notin DOMAIN pt'["kernel"].tables
  BY <1>1 DEF IInv, NoHeapTable, Constructing, Stages
<1>. QED BY <1>1, <1>2, <1>3, ConstructionStep

(* A page of a fixed range.                                                *)
LEMMA MapFixedKeeps ==
  ASSUME IInv, map_fixed, root' = root
  PROVE  IInv' /\ Growth
<1>1. PICK r, page, fresh, from, frame, m :
        /\ r = FixedRanges(building)[s] /\ page = r.lo + k /\ fresh = (r.kind = "fresh")
        /\ from = IF fresh THEN Advance(fa, 1) ELSE fa
        /\ frame = IF fresh THEN fa[1] ELSE page - r.base
        /\ m = map_to_level(pt[building], from, r.level, page, frame)
  OBVIOUS
<1>2. /\ pc = "fixed" /\ s <= Len(FixedRanges(building)) /\ page <= r.hi
      /\ IF fresh /\ fa = << >> THEN Panic(fa)
         ELSE IF m.res # "Ok" THEN Panic(m.fa) ELSE MapNext(m, from)
  BY <1>1, Zenon DEF map_fixed
<1>3. /\ building \in {"kernel", "driver"} /\ Types /\ pc \in Constructing /\ Sound(pt[building], memory_map)
      /\ memory_map \in MemoryMaps /\ image \in Images
      /\ fa \in Seq(UsableFrom(memory_map, 1)) /\ k \in Nat
  BY <1>2 DEF IInv, Stages, Types, Constructing, Loading, Processes
<1>4. CASE fresh /\ fa = << >>
  BY <1>2, <1>3, <1>4, PanicKeeps
<1>5. CASE ~(fresh /\ fa = << >>)
  <2>1. /\ page \in Nat
        /\ \/ /\ r.kind = "at" /\ r.level = Levels /\ page - r.base \in Nat
              /\ PAGE_TABLE_OFFSET <= page
           \/ r.kind = "fresh" /\ r.level = 1 /\ page \in StackLow .. StackHigh
           \/ /\ r.kind = "at" /\ r.level = 1 /\ page - r.base = page
              /\ building = "kernel" => page \in Others(memory_map)
    BY <1>1, <1>2, <1>3, FixedRange
  <2>2. PICK l \in 1 .. Levels : l = r.level
    BY <2>1, TableAssumption
  <2>3. UsableFrom(memory_map, 1) \subseteq Nat
    BY <1>3, FramesAreNumbers
  <2>4. fresh => fa[1] \in UsableFrom(memory_map, 1) /\ 1 \in 0 .. Len(fa)
    <3>1. fresh => Len(fa) \in Nat /\ Len(fa) >= 1
      BY <1>3, <1>5, EmptySeq
    <3>. QED BY <1>3, <3>1
  <2>5. frame \in Nat
    BY <1>1, <2>1, <2>3, <2>4
  <2>6. from \in Seq(UsableFrom(memory_map, 1))
    BY <1>1, <1>3, <2>4, AdvanceKeeps
  <2>7. LevelDone(pt[building], from, memory_map, l, page, m)
    BY <1>1, <1>3, <2>1, <2>2, <2>3, <2>5, <2>6, LevelCall
  <2>8. CASE m.res # "Ok"
    <3>1. m.fa \in Seq(UsableFrom(memory_map, 1))
      BY <2>7 DEF LevelDone
    <3>. QED BY <1>2, <1>3, <1>5, <2>8, <3>1, PanicKeeps
  <2>9. CASE m.res = "Ok"
    <3>1. /\ pt' = [pt EXCEPT ![building] = m.pt] /\ fa' = m.fa /\ k' = k + 1
          /\ UNCHANGED <<memory_map, image, building, pc, s>>
      BY <1>2, <1>5, <2>9 DEF MapNext, const
    <3>2. building = "kernel" => Low(pt["kernel"], memory_map)
      BY DEF IInv, LowIdentity, Low
    <3>3. ASSUME building = "kernel"
          PROVE  \/ l = 1 /\ page = frame
                 \/ \A f \in Physical(memory_map) : f \notin EntryOf(l, page)
      <4>1. CASE r.kind = "at" /\ r.level = Levels /\ PAGE_TABLE_OFFSET <= page
        <5>1. PICK c \in Nat \ {0} : c = Covered(Levels) /\ c = Covered(l)
          BY <2>2, <4>1, CoveredFacts
        <5>2. PAGE_TABLE_OFFSET \in Nat /\ PAGE_TABLE_OFFSET * c <= page * c
          <6>1. PAGE_TABLE_OFFSET \in Nat
            BY BuildAssumption
          <6>2. PICK d \in Nat : page = PAGE_TABLE_OFFSET + d
            BY <2>1, <4>1, <6>1
          <6>3. page * c = PAGE_TABLE_OFFSET * c + d * c /\ d * c \in Nat
            BY <6>1, <6>2
          <6>4. PAGE_TABLE_OFFSET * c \in Nat
            BY <6>1
          <6>. QED BY <6>1, <6>3, <6>4
        <5>3. PICK u \in Nat, v \in Nat : u = PAGE_TABLE_OFFSET * c /\ v = page * c
          BY <2>1, <5>2
        <5>4. u <= v
          BY <5>2, <5>3
        <5>5. \A f \in Physical(memory_map) : f \in Nat /\ f < u
          BY <1>3, <5>1, <5>3, LayoutFacts
        <5>6. EntryOf(l, page) = v .. (v + c - 1)
          BY <5>1, <5>3 DEF EntryOf
        <5>. QED BY <5>4, <5>5, <5>6
      <4>2. CASE r.kind = "fresh" /\ r.level = 1 /\ page \in StackLow .. StackHigh
        <5>1. EntryOf(1, page) = {page}
          <6>1. Covered(1) = 1
            BY <2>2, CoveredFacts
          <6>. QED BY <2>1, <6>1 DEF EntryOf
        <5>. QED BY <1>3, <2>2, <4>2, <5>1, LayoutFacts
      <4>3. CASE r.kind = "at" /\ r.level = 1 /\ page - r.base = page
        BY <1>1, <2>2, <4>3
      <4>. QED BY <2>1, <4>1, <4>2, <4>3
    <3>4. ASSUME building = "kernel" PROVE Low(m.pt, memory_map)
      <4>1. /\ m = map_to_level(pt["kernel"], from, l, page, frame) /\ Sound(pt["kernel"], memory_map)
            /\ Low(pt["kernel"], memory_map) /\ memory_map \in MemoryMaps /\ page \in Nat
        BY <1>1, <1>3, <2>1, <2>2, <3>2, <3>4
      <4>2. \/ l = 1 /\ page = frame
            \/ \A f \in Physical(memory_map) : f \notin EntryOf(l, page)
        BY <3>3, <3>4
      <4>. QED BY <2>2, <2>5, <2>6, <4>1, <4>2, LowKept, Zenon
    <3>5. Sound(m.pt, memory_map) /\ Grows(pt[building], m.pt) /\ m.fa \in Seq(UsableFrom(memory_map, 1))
      BY <2>7 DEF LevelDone
    <3>6. /\ Growth /\ LowIdentity' /\ DOMAIN pt' = Processes
          /\ \A v \in Processes :
               Sound(pt'[v], memory_map) /\ (pt'[v] = IF v = building THEN m.pt ELSE pt[v])
      BY <1>3, <3>1, <3>4, <3>5, Replaced
    <3>7. Types' /\ Stages'
      BY <1>3, <3>1, <3>5, <3>6 DEF IInv, Types, Stages
    <3>8. Sharing'
      BY <1>2, <3>1 DEF Sharing
    <3>9. ASSUME building = "kernel"
          PROVE  TableOf(HeapStartPage, 1) \notin DOMAIN pt'["kernel"].tables
      <4>1. TableOf(HeapStartPage, 1) \notin DOMAIN pt["kernel"].tables
        BY <1>2, <3>9 DEF IInv, NoHeapTable
      <4>2. l > 1 \/ page \div Entries # HeapStartPage \div Entries
        <5>1. CASE r.level = Levels
          BY <2>2, <5>1, LayoutAssumption, TableAssumption
        <5>2. CASE r.level = 1
          <6>1. page \in (StackLow .. StackHigh) \cup Others(memory_map)
            BY <2>1, <3>9, <5>2, LayoutAssumption
          <6>. QED BY <1>3, <6>1, LayoutFacts
        <5>. QED BY <2>1, <5>1, <5>2
      <4>3. TableOf(HeapStartPage, 1) \notin DOMAIN m.pt.tables
        BY <2>1, <2>2, <2>7, <3>9, <4>1, <4>2, HeapTableKept
      <4>. QED BY <3>6, <3>9, <4>3 DEF Processes
    <3>. QED BY <1>3, <3>1, <3>6, <3>7, <3>8, <3>9, ConstructionStep DEF Constructing
  <2>. QED BY <2>8, <2>9
<1>. QED BY <1>4, <1>5

(* A page of the kernel, shown in the driver's address space.              *)
LEMMA KernelPageKeeps ==
  ASSUME IInv, map_kernel_page, root' = root
  PROVE  IInv' /\ Growth
<1>1. PICK h, page, frame, m :
        /\ h = Headers("kernel")[s] /\ page = SegPage(h, k)
        /\ frame = translate_page(pt["kernel"], page)
        /\ m = map_to(pt["driver"], fa, page, frame)
  OBVIOUS
<1>2. /\ pc = "kernel_pages" /\ s <= Len(Headers("kernel")) /\ h.load /\ k < SegPages(h)
      /\ IF page \notin Mapped(pt["kernel"]) THEN Panic(fa)
         ELSE IF m.res # "Ok" THEN Panic(m.fa) ELSE MapNext(m, fa)
  BY <1>1, Zenon DEF map_kernel_page
<1>3. /\ building = "driver" /\ Types /\ pc \in Constructing
      /\ Sound(pt["kernel"], memory_map) /\ Sound(pt["driver"], memory_map)
      /\ memory_map \in MemoryMaps /\ image \in Images
      /\ fa \in Seq(UsableFrom(memory_map, 1)) /\ k \in Nat /\ s \in Nat \ {0}
  BY <1>2 DEF IInv, Stages, Types, Constructing, Loading, Processes
<1>4. CASE page \notin Mapped(pt["kernel"])
  BY <1>2, <1>3, <1>4, PanicKeeps
<1>5. CASE page \in Mapped(pt["kernel"])
  <2>1. page \in Nat /\ frame \in Nat /\ frame = pt["kernel"].map[page]
    BY <1>1, <1>3, <1>5 DEF Sound, PtOK, translate_page, Mapped
  <2>2. UsableFrom(memory_map, 1) \subseteq Nat
    BY <1>3, FramesAreNumbers
  <2>3. /\ LevelDone(pt["driver"], fa, memory_map, 1, page, m)
        /\ PageDone(pt["driver"], fa, page, frame, m)
    BY <1>1, <1>3, <2>1, <2>2, PageCall
  <2>4. Sound(m.pt, memory_map) /\ Grows(pt["driver"], m.pt) /\ m.fa \in Seq(UsableFrom(memory_map, 1))
    BY <2>3 DEF LevelDone
  <2>5. CASE m.res # "Ok"
    BY <1>2, <1>3, <1>5, <2>4, <2>5, PanicKeeps
  <2>6. CASE m.res = "Ok"
    <3>1. /\ pt' = [pt EXCEPT !["driver"] = m.pt] /\ fa' = m.fa /\ k' = k + 1
          /\ UNCHANGED <<memory_map, image, building, pc, s>>
      BY <1>2, <1>3, <1>5, <2>6 DEF MapNext, const
    <3>2. /\ Growth /\ LowIdentity' /\ DOMAIN pt' = Processes
          /\ \A v \in Processes :
               Sound(pt'[v], memory_map) /\ (pt'[v] = IF v = "driver" THEN m.pt ELSE pt[v])
      BY <1>3, <2>4, <3>1, Replaced
    <3>3. Types' /\ Stages'
      BY <1>3, <2>4, <3>1, <3>2 DEF IInv, Types, Stages
    <3>4. pt'["driver"] = m.pt /\ pt'["kernel"] = pt["kernel"]
      BY <3>2 DEF Processes
    <3>5. Shown(page)'
      BY <1>5, <2>1, <2>3, <2>6, <3>4 DEF PageDone, Shown
    <3>6. PICK n, l : n = s /\ l = k /\ s' = n /\ k' = l + 1
      BY <3>1
    <3>7. SharedTo(n, l)'
      BY <1>2, <3>2, <3>6, GrowthKeeps DEF IInv, Sharing
    <3>8. SharedTo(s, k)'
      <4>1. Headers("kernel")' = Headers("kernel")
        BY <3>1 DEF Headers
      <4>2. SUFFICES ASSUME NEW g \in 1 .. Len(Headers("kernel")), Headers("kernel")[g].load,
                            NEW j \in 0 .. (SegPages(Headers("kernel")[g]) - 1),
                            g < n \/ (g = n /\ j < l + 1)
                     PROVE  Shown(SegPage(Headers("kernel")[g], j))'
        BY <3>6, <4>1 DEF SharedTo
      <4>3. CASE g < n \/ (g = n /\ j < l)
        BY <3>7, <4>1, <4>2, <4>3 DEF SharedTo
      <4>4. CASE g = n /\ j = l
        BY <1>1, <3>5, <3>6, <4>1, <4>4 DEF Shown, SegPage, Containing
      <4>5. SegPages(Headers("kernel")[g]) \in Int /\ l \in Nat
        BY <1>3, <3>6, HeaderFacts
      <4>. QED BY <4>2, <4>3, <4>4, <4>5
    <3>9. Sharing'
      BY <1>2, <3>1, <3>8 DEF Sharing
    <3>. QED BY <1>2, <1>3, <3>1, <3>2, <3>3, <3>9, ConstructionStep DEF Constructing
  <2>. QED BY <2>5, <2>6
<1>. QED BY <1>4, <1>5

(* A page of a segment that gets a frame: h is its header, cur what the    *)
(* copy does to the current table, m what map_to does to the new one.      *)
LoadStep(h, frame, from, cur, page, m) ==
  /\ h = Headers(building)[s] /\ page = SegPage(h, k) /\ frame = fa[1]
  /\ from = Advance(fa, 1) /\ cur = CurrentMap(frame, from)
  /\ m = map_to(pt[building], cur.fa, page, frame)
  /\ s <= Len(Headers(building)) /\ h.load /\ k < SegPages(h)
  /\ k' = k + 1 /\ memory_map' = memory_map /\ image' = image /\ building' = building /\ s' = s
  /\ \/ /\ building = "driver" /\ pc' = "fault" /\ fa' = cur.fa
        /\ pt' = [pt EXCEPT !["kernel"] = cur.pt]
     \/ /\ building = "driver" /\ pc' \in {pc, "panicked"} /\ fa' = m.fa
        /\ pt' = [pt EXCEPT !["kernel"] = cur.pt, !["driver"] = m.pt]
     \/ /\ building = "kernel" /\ pc' = pc /\ fa' = m.fa
        /\ pt' = [pt EXCEPT !["kernel"] = m.pt]

(* load_page with a frame left, its local values named.                    *)
LEMMA LoadedPage ==
  ASSUME IInv, load_page, fa # << >>
  PROVE  \E h, frame, from, cur, page, m : LoadStep(h, frame, from, cur, page, m)
<1>1. PICK h, frame, from, cur, n, off, page, m :
        /\ h = Headers(building)[s] /\ frame = fa[1] /\ from = Advance(fa, 1)
        /\ cur = CurrentMap(frame, from) /\ n = Min({file_size, PageSize})
        /\ off = h.va % PageSize /\ page = SegPage(h, k)
        /\ m = map_to(pt[building], cur.fa, page, frame)
  OBVIOUS
<1>2. /\ pc = "segments" /\ s <= Len(Headers(building)) /\ h.load /\ k < SegPages(h)
      /\ IF CopyFaults(cur.pt, frame, off, n)
         THEN pc' = "fault" /\ fa' = cur.fa /\ pt' = [pt EXCEPT !["kernel"] = cur.pt]
         ELSE /\ pc' = IF MapFatal(m.res) THEN "panicked" ELSE pc
              /\ fa' = m.fa
              /\ pt' = IF building = "kernel" THEN [pt EXCEPT !["kernel"] = m.pt]
                       ELSE [pt EXCEPT !["kernel"] = cur.pt, !["driver"] = m.pt]
      /\ k' = k + 1 /\ const' = const /\ building' = building /\ s' = s
  BY <1>1, Zenon DEF load_page
<1>3. building \in {"kernel", "driver"}
  BY <1>2 DEF IInv, Stages, Loading
<1>4. memory_map' = memory_map /\ image' = image
  BY <1>2 DEF const
<1>5. CopyFaults(cur.pt, frame, off, n) => building = "driver"
  BY Zenon DEF CopyFaults
<1>6. MapFatal(m.res) => building = "driver"
  BY Zenon DEF MapFatal
<1>7. \/ /\ building = "driver" /\ pc' = "fault" /\ fa' = cur.fa
         /\ pt' = [pt EXCEPT !["kernel"] = cur.pt]
      \/ /\ building = "driver" /\ pc' \in {pc, "panicked"} /\ fa' = m.fa
         /\ pt' = [pt EXCEPT !["kernel"] = cur.pt, !["driver"] = m.pt]
      \/ /\ building = "kernel" /\ pc' = pc /\ fa' = m.fa
         /\ pt' = [pt EXCEPT !["kernel"] = m.pt]
  <2>1. CASE CopyFaults(cur.pt, frame, off, n)
    BY <1>2, <1>5, <2>1, Zenon
  <2>2. CASE ~CopyFaults(cur.pt, frame, off, n) /\ building = "kernel"
    BY <1>2, <1>6, <2>2, Zenon
  <2>3. CASE ~CopyFaults(cur.pt, frame, off, n) /\ building = "driver"
    <3>1. pc' \in {pc, "panicked"} /\ fa' = m.fa
      BY <1>2, <2>3, Zenon
    <3>2. building # "kernel"
      BY <2>3
    <3>3. pt' = [pt EXCEPT !["kernel"] = cur.pt, !["driver"] = m.pt]
      BY <1>2, <2>3, <3>2, Zenon
    <3>. QED BY <2>3, <3>1, <3>3, Zenon
  <2>. QED BY <1>3, <2>1, <2>2, <2>3, Zenon
<1>8. LoadStep(h, frame, from, cur, page, m)
  BY <1>1, <1>2, <1>4, <1>7, Zenon DEF LoadStep
<1>. QED BY <1>8, Zenon

(* One page of a segment keeps the invariant.                              *)
LEMMA LoadPageKeeps ==
  ASSUME IInv, load_page, root' = root
  PROVE  IInv' /\ Growth
<1>1. /\ building \in {"kernel", "driver"} /\ Types /\ pc = "segments" /\ pc \in Constructing
      /\ Sound(pt["kernel"], memory_map) /\ Sound(pt["driver"], memory_map) /\ DOMAIN pt = Processes
      /\ Sound(pt["loader"], memory_map)
      /\ memory_map \in MemoryMaps /\ image \in Images
      /\ fa \in Seq(UsableFrom(memory_map, 1)) /\ k \in Nat /\ s \in Nat \ {0}
  <2>1. pc = "segments"
    BY DEF load_page
  <2>. QED BY <2>1 DEF IInv, Stages, Types, Constructing, Loading, Processes
<1>2. CASE fa = << >>
  <2>1. Panic(fa)
    BY <1>2, Zenon DEF load_page
  <2>. QED BY <1>1, <2>1, PanicKeeps
<1>3. CASE fa # << >>
  <2>h. PICK h, frame, from, cur, page, m : LoadStep(h, frame, from, cur, page, m)
    BY <1>3, LoadedPage, Zenon
  <2>1. /\ h = Headers(building)[s] /\ page = SegPage(h, k) /\ frame = fa[1]
        /\ from = Advance(fa, 1) /\ cur = CurrentMap(frame, from)
        /\ m = map_to(pt[building], cur.fa, page, frame)
        /\ s <= Len(Headers(building)) /\ h.load /\ k < SegPages(h)
        /\ k' = k + 1 /\ memory_map' = memory_map /\ image' = image
        /\ building' = building /\ s' = s
        /\ \/ /\ building = "driver" /\ pc' = "fault" /\ fa' = cur.fa
              /\ pt' = [pt EXCEPT !["kernel"] = cur.pt]
           \/ /\ building = "driver" /\ pc' \in {pc, "panicked"} /\ fa' = m.fa
              /\ pt' = [pt EXCEPT !["kernel"] = cur.pt, !["driver"] = m.pt]
           \/ /\ building = "kernel" /\ pc' = pc /\ fa' = m.fa
              /\ pt' = [pt EXCEPT !["kernel"] = m.pt]
    BY <2>h, Zenon DEF LoadStep
  <2>2. UsableFrom(memory_map, 1) \subseteq Nat
    BY <1>1, FramesAreNumbers
  <2>3. Len(fa) \in Nat /\ Len(fa) >= 1
    BY <1>1, <1>3, EmptySeq
  <2>4. /\ from \in Seq(UsableFrom(memory_map, 1))
        /\ frame \in UsableFrom(memory_map, 1) /\ frame \in Nat
    BY <1>1, <2>1, <2>2, <2>3, AdvanceKeeps
  <2>5. page \in Nat
    <3>1. s \in 1 .. Len(Headers(building)) /\ Len(Headers(building)) \in Nat
      BY <1>1, <2>1, HeaderFacts
    <3>. QED BY <1>1, <2>1, <3>1, HeaderFacts
  <2>6. 1 \in 1 .. Levels /\ Low(pt["kernel"], memory_map)
    BY TableAssumption DEF IInv, LowIdentity, Low
  <2>7. CASE building = "kernel"
    <3>1. cur.fa = from
      BY <2>1, <2>7 DEF CurrentMap
    <3>2. LevelDone(pt["kernel"], from, memory_map, 1, page, m)
      BY <1>1, <2>1, <2>2, <2>4, <2>5, <2>7, <3>1, PageCall
    <3>3. Sound(m.pt, memory_map) /\ Grows(pt["kernel"], m.pt) /\ m.fa \in Seq(UsableFrom(memory_map, 1))
      BY <3>2 DEF LevelDone
    <3>4. page \in SegmentsOf(image["kernel"].headers)
      <4>1. k \in 0 .. (SegPages(h) - 1) /\ s \in 1 .. Len(Headers("kernel"))
        <5>1. s \in 1 .. Len(Headers("kernel"))
          BY <1>1, <2>1, <2>7, HeaderFacts
        <5>2. SegPages(h) \in Int
          BY <1>1, <2>1, <2>7, <5>1, HeaderFacts
        <5>. QED BY <1>1, <2>1, <5>1, <5>2
      <4>. QED BY <2>1, <2>7, <4>1 DEF SegmentsOf, Headers
    <3>5. EntryOf(1, page) = {page}
      <4>1. Covered(1) = 1
        BY <2>6, CoveredFacts
      <4>. QED BY <2>5, <4>1 DEF EntryOf
    <3>6. \A f \in Physical(memory_map) : f \notin EntryOf(1, page)
      BY <1>1, <3>4, <3>5, LayoutFacts
    <3>7. m = map_to_level(pt["kernel"], from, 1, page, frame)
      BY <2>1, <2>7, <3>1 DEF map_to
    <3>8. Low(m.pt, memory_map)
      <4>1. memory_map \in MemoryMaps /\ Sound(pt["kernel"], memory_map)
        BY <1>1, <2>7
      <4>2. PICK l \in 1 .. Levels : l = 1
        BY <2>6
      <4>3. /\ m = map_to_level(pt["kernel"], from, l, page, frame)
            /\ \A f \in Physical(memory_map) : f \notin EntryOf(l, page)
        BY <3>6, <3>7, <4>2
      <4>4. /\ from \in Seq(UsableFrom(memory_map, 1)) /\ page \in Nat /\ frame \in Nat
            /\ Low(pt["kernel"], memory_map)
        BY <2>4, <2>5, <2>6
      <4>. QED BY <4>1, <4>2, <4>3, <4>4, LowKept, Zenon
    <3>9. /\ Growth /\ LowIdentity' /\ DOMAIN pt' = Processes
          /\ \A v \in Processes :
               Sound(pt'[v], memory_map) /\ (pt'[v] = IF v = "kernel" THEN m.pt ELSE pt[v])
      <4>1. pt' = [pt EXCEPT !["kernel"] = m.pt]
        BY <2>1, <2>7
      <4>. QED BY <2>1, <2>7, <3>3, <3>8, <4>1, Replaced
    <3>10. fa' = m.fa /\ pc' = pc
      BY <2>1, <2>7
    <3>11. Types' /\ Stages'
      BY <1>1, <2>1, <3>3, <3>9, <3>10 DEF IInv, Types, Stages
    <3>12. Sharing'
      BY <1>1, <2>1, <2>7, <3>10 DEF Sharing
    <3>13. TableOf(HeapStartPage, 1) \notin DOMAIN pt'["kernel"].tables
      <4>1. TableOf(HeapStartPage, 1) \notin DOMAIN pt["kernel"].tables
        BY <1>1, <2>7 DEF IInv, NoHeapTable
      <4>2. page \div Entries # HeapStartPage \div Entries
        BY <1>1, <3>4, LayoutFacts
      <4>3. TableOf(HeapStartPage, 1) \notin DOMAIN m.pt.tables
        BY <2>5, <2>6, <3>2, <4>1, <4>2, HeapTableKept
      <4>. QED BY <3>9, <4>3 DEF Processes
    <3>. QED BY <1>1, <2>1, <3>9, <3>10, <3>11, <3>12, <3>13, ConstructionStep
  <2>8. CASE building = "driver"
    <3>1. cur = map_to(pt["kernel"], from, frame, frame)
      BY <2>1, <2>8 DEF CurrentMap, identity_map
    <3>2. LevelDone(pt["kernel"], from, memory_map, 1, frame, cur)
      BY <1>1, <2>2, <2>4, <3>1, PageCall
    <3>3. Sound(cur.pt, memory_map) /\ Grows(pt["kernel"], cur.pt) /\ cur.fa \in Seq(UsableFrom(memory_map, 1))
      BY <3>2 DEF LevelDone
    <3>4. cur = map_to_level(pt["kernel"], from, 1, frame, frame)
      BY <3>1 DEF map_to
    <3>5. Low(cur.pt, memory_map)
      BY <1>1, <2>2, <2>4, <2>6, <3>4, LowKept
    <3>6. LevelDone(pt["driver"], cur.fa, memory_map, 1, page, m)
      BY <1>1, <2>1, <2>2, <2>4, <2>5, <2>8, <3>3, PageCall
    <3>7. Sound(m.pt, memory_map) /\ Grows(pt["driver"], m.pt) /\ m.fa \in Seq(UsableFrom(memory_map, 1))
      BY <3>6 DEF LevelDone
    <3>8. /\ DOMAIN pt' = Processes /\ pt'["loader"] = pt["loader"] /\ pt'["kernel"] = cur.pt
          /\ pt'["driver"] \in {pt["driver"], m.pt}
      <4>1. CASE pt' = [pt EXCEPT !["kernel"] = cur.pt]
        BY <1>1, <4>1 DEF Processes
      <4>2. CASE pt' = [pt EXCEPT !["kernel"] = cur.pt, !["driver"] = m.pt]
        BY <1>1, <4>2 DEF Processes
      <4>. QED BY <2>1, <2>8, <4>1, <4>2
    <3>9. fa' \in Seq(UsableFrom(memory_map, 1)) /\ pc' \in {"segments", "fault", "panicked"}
      BY <1>1, <2>1, <2>8, <3>3, <3>7
    <3>10. Types' /\ Stages'
      BY <1>1, <2>1, <2>8, <3>3, <3>7, <3>8, <3>9 DEF IInv, Types, Stages, Processes
    <3>11. Growth /\ LowIdentity'
      BY <2>1, <2>8, <3>3, <3>5, <3>7, <3>8, GrowsSame DEF Growth, LowIdentity, Low
    <3>12. Sharing'
      <4>1. \A p \in SegmentPages("kernel") : Shown(p)
        BY <1>1, <2>8 DEF IInv, Sharing
      <4>2. SegmentPages("kernel")' = SegmentPages("kernel")
        BY <2>1 DEF SegmentPages, Headers
      <4>3. (\A p \in SegmentPages("kernel") : Shown(p))'
        BY <3>11, <4>1, <4>2, GrowthKeeps
      <4>. QED BY <3>9, <4>3 DEF Sharing
    <3>. QED BY <1>1, <2>1, <2>8, <3>9, <3>10, <3>11, <3>12, ConstructionStep DEF Constructing
  <2>. QED BY <1>1, <2>7, <2>8
<1>. QED BY <1>2, <1>3

-------------------------------------------------------------------------------
(* The rest of run() and of _start.                                        *)
LEMMA StopKeeps ==
  ASSUME IInv, building = "kernel", UNCHANGED <<memory_map, image, pt, building, s, k, root>>,
         fa' \in Seq(UsableFrom(memory_map, 1)), pc' \in {"panicked", "swap_panic"}
  PROVE  IInv' /\ Growth
<1>1. Types' /\ Stages' /\ LowIdentity' /\ NoHeapTable' /\ LoaderHeap'
  BY DEF IInv, Types, Stages, LowIdentity, NoHeapTable, LoaderHeap, Loading
<1>2. Copying' /\ Sharing'
  BY DEF Copying, Sharing, KernelRuns
<1>3. Growth
  BY GrowsSame DEF Growth
<1>. QED BY <1>1, <1>2, <1>3 DEF IInv

(* The pages of the runtime services are runtime frames.                   *)
LEMMA RuntimeFacts ==
  ASSUME Types
  PROVE  /\ RuntimePages \in Seq(RuntimeFrames(memory_map)) /\ Len(RuntimePages) \in Nat
         /\ \A j \in 1 .. Len(RuntimePages) : RuntimePages[j] \in RuntimeFrames(memory_map)
<1>1. RuntimePages \in Seq(RuntimeFrames(memory_map))
  BY FramesAssumption DEF Types, RuntimePages
<1>. QED BY <1>1

(* A physical page is mapped at its own address in the kernel's table.     *)
LEMMA IdentityCall ==
  ASSUME IInv, NEW f \in Physical(memory_map), NEW m, m = identity_map(pt["kernel"], fa, f)
  PROVE  /\ Sound(m.pt, memory_map) /\ Grows(pt["kernel"], m.pt) /\ m.fa \in Seq(UsableFrom(memory_map, 1))
         /\ Low(m.pt, memory_map) /\ (fa = << >> => m.fa = << >>)
         /\ f \in Mapped(m.pt) \/ m.fa = << >>
         /\ TableOf(HeapStartPage, 1) \notin DOMAIN pt["kernel"].tables =>
              TableOf(HeapStartPage, 1) \notin DOMAIN m.pt.tables
<1>1. /\ memory_map \in MemoryMaps /\ image \in Images /\ Sound(pt["kernel"], memory_map)
      /\ fa \in Seq(UsableFrom(memory_map, 1)) /\ Low(pt["kernel"], memory_map)
  BY DEF IInv, Types, Processes, LowIdentity, Low
<1>2. /\ UsableFrom(memory_map, 1) \subseteq Nat /\ f \in Nat /\ 1 \in 1 .. Levels
      /\ f \div Entries # HeapStartPage \div Entries
  BY <1>1, FramesAreNumbers, LayoutFacts, TableAssumption
<1>3. m = map_to(pt["kernel"], fa, f, f) /\ m = map_to_level(pt["kernel"], fa, 1, f, f)
  BY DEF identity_map, map_to
<1>4. /\ LevelDone(pt["kernel"], fa, memory_map, 1, f, m)
      /\ PageDone(pt["kernel"], fa, f, f, m)
  BY <1>1, <1>2, <1>3, PageCall
<1>5. Low(m.pt, memory_map)
  BY <1>1, <1>2, <1>3, LowKept
<1>6. f \in Mapped(m.pt) \/ m.fa = << >>
  <2>1. f \in Mapped(pt["kernel"]) => f \in Mapped(m.pt)
    BY <1>4 DEF LevelDone, Grows
  <2>. QED BY <1>4, <2>1 DEF PageDone
<1>7. TableOf(HeapStartPage, 1) \notin DOMAIN pt["kernel"].tables =>
        TableOf(HeapStartPage, 1) \notin DOMAIN m.pt.tables
  BY <1>2, <1>4, HeapTableKept
<1>. QED BY <1>4, <1>5, <1>6, <1>7 DEF LevelDone

(* Mapping the root table keeps the invariant.                             *)
LEMMA RootKeeps ==
  ASSUME IInv, identity_map_root
  PROVE  IInv' /\ Growth
<1>1. /\ pc = "built" /\ building = "kernel" /\ pc' = "runtime" /\ k' = 0
      /\ UNCHANGED <<memory_map, image, building, s>>
  BY DEF identity_map_root, const
<1>2. PICK p, m : /\ p \in heap_range /\ root' = translate_page(pt["loader"], p)
                  /\ m = identity_map(pt["kernel"], fa, root')
                  /\ pt' = [pt EXCEPT !["kernel"] = m.pt] /\ fa' = m.fa
  BY DEF identity_map_root
<1>3. /\ root' \in UsableFrom(memory_map, 1) /\ root' \in Physical(memory_map) /\ root' \in Nat
      /\ memory_map \in MemoryMaps /\ Types
  <2>1. root' = pt["loader"].map[p] /\ p \in Mapped(pt["loader"])
    BY <1>1, <1>2 DEF translate_page, IInv, LoaderHeap
  <2>2. root' \in UsableFrom(memory_map, 1) /\ memory_map \in MemoryMaps
    BY <2>1 DEF IInv, LoaderHeap, Types
  <2>. QED BY <2>2, FramesAreNumbers DEF Physical, IInv
<1>4. PICK f : f = root'
  OBVIOUS
<1>5. /\ Sound(m.pt, memory_map) /\ Grows(pt["kernel"], m.pt) /\ m.fa \in Seq(UsableFrom(memory_map, 1))
      /\ Low(m.pt, memory_map)
      /\ f \in Mapped(m.pt) \/ m.fa = << >>
      /\ TableOf(HeapStartPage, 1) \notin DOMAIN pt["kernel"].tables =>
           TableOf(HeapStartPage, 1) \notin DOMAIN m.pt.tables
  BY <1>2, <1>3, <1>4, IdentityCall
<1>6. /\ Growth /\ LowIdentity' /\ DOMAIN pt' = Processes
      /\ \A v \in Processes : Sound(pt'[v], memory_map) /\ (pt'[v] = IF v = "kernel" THEN m.pt ELSE pt[v])
  BY <1>1, <1>2, <1>5, Replaced
<1>7. Types' /\ Stages'
  BY <1>1, <1>2, <1>3, <1>5, <1>6 DEF IInv, Types, Stages
<1>8. pt'["kernel"] = m.pt
  BY <1>6 DEF Processes
<1>9. NoHeapTable'
  BY <1>1, <1>5, <1>8 DEF IInv, NoHeapTable
<1>10. fa' = << >> \/ IdentityTo(0)'
  BY <1>1, <1>2, <1>3, <1>4, <1>5, <1>8 DEF IdentityTo
<1>11. Len(RuntimePages)' \in Nat
  BY <1>7, RuntimeFacts, <1>3, <1>1 DEF RuntimePages
<1>12. Copying'
  BY <1>1, <1>10, <1>11 DEF Copying, KernelRuns
<1>13. Sharing' /\ LoaderHeap'
  BY <1>1, <1>6, <1>7, GrowthKeeps DEF Sharing
<1>. QED BY <1>6, <1>7, <1>9, <1>12, <1>13 DEF IInv

(* One page of the runtime services.  After a failure the allocator is     *)
(* empty and stays so.                                                     *)
LEMMA RuntimeKeeps ==
  ASSUME IInv, map_runtime_page
  PROVE  IInv' /\ Growth
<1>1. pc = "runtime" /\ building = "kernel" /\ root' = root /\ k \in Nat /\ k < Len(RuntimePages)
  BY DEF map_runtime_page, IInv, Stages, Types, Loading
<1>2. PICK f, m :
        /\ f = RuntimePages[k + 1] /\ m = identity_map(pt["kernel"], fa, f)
        /\ pt' = [pt EXCEPT !["kernel"] = m.pt] /\ fa' = m.fa /\ k' = k + 1
        /\ memory_map' = memory_map /\ image' = image /\ building' = building
        /\ pc' = pc /\ s' = s
  BY <1>1 DEF map_runtime_page, MapNext, const
<1>3. /\ f \in Physical(memory_map) /\ Len(RuntimePages) \in Nat /\ k + 1 \in 1 .. Len(RuntimePages)
  <2>1. Len(RuntimePages) \in Nat
    BY RuntimeFacts DEF IInv
  <2>2. k + 1 \in 1 .. Len(RuntimePages)
    BY <1>1, <2>1
  <2>. QED BY <1>2, <2>1, <2>2, RuntimeFacts DEF IInv, Physical
<1>4. /\ Sound(m.pt, memory_map) /\ Grows(pt["kernel"], m.pt) /\ m.fa \in Seq(UsableFrom(memory_map, 1))
      /\ Low(m.pt, memory_map)
      /\ fa = << >> => m.fa = << >>
      /\ f \in Mapped(m.pt) \/ m.fa = << >>
      /\ TableOf(HeapStartPage, 1) \notin DOMAIN pt["kernel"].tables =>
           TableOf(HeapStartPage, 1) \notin DOMAIN m.pt.tables
  BY <1>2, <1>3, IdentityCall
<1>5. /\ Growth /\ LowIdentity' /\ DOMAIN pt' = Processes
      /\ \A v \in Processes : Sound(pt'[v], memory_map) /\ (pt'[v] = IF v = "kernel" THEN m.pt ELSE pt[v])
  BY <1>1, <1>2, <1>4, Replaced
<1>6. Types' /\ Stages'
  BY <1>1, <1>2, <1>4, <1>5 DEF IInv, Types, Stages
<1>7. pt'["kernel"] = m.pt /\ RuntimePages' = RuntimePages
  BY <1>2, <1>5 DEF Processes, RuntimePages
<1>8. NoHeapTable'
  BY <1>1, <1>2, <1>4, <1>7 DEF IInv, NoHeapTable
<1>9. ASSUME fa' # << >> PROVE IdentityTo(k)'
  <2>1. IdentityTo(k)
    BY <1>1, <1>2, <1>4, <1>9 DEF IInv, Copying
  <2>2. PICK n : n = k
    OBVIOUS
  <2>3. IdentityTo(n)'
    BY <1>1, <1>5, <2>1, <2>2, GrowthKeeps
  <2>4. f \in Mapped(m.pt)
    BY <1>2, <1>4, <1>9
  <2>5. ASSUME NEW j \in 1 .. k' PROVE RuntimePages[j] \in Mapped(m.pt)
    <3>1. CASE j = k + 1
      BY <1>2, <2>4, <3>1
    <3>2. CASE j # k + 1
      <4>1. j \in 1 .. n
        BY <1>1, <1>2, <2>2, <2>5, <3>2
      <4>. QED BY <1>7, <2>3, <4>1 DEF IdentityTo
    <3>. QED BY <3>1, <3>2
  <2>. QED BY <1>7, <2>3, <2>5 DEF IdentityTo
<1>10. k' <= Len(RuntimePages)'
  BY <1>2, <1>3, <1>7
<1>11. Copying'
  BY <1>1, <1>2, <1>9, <1>10 DEF Copying, KernelRuns
<1>12. Sharing' /\ LoaderHeap'
  BY <1>1, <1>2, <1>5, <1>6, GrowthKeeps DEF Sharing
<1>. QED BY <1>5, <1>6, <1>8, <1>11, <1>12 DEF IInv

(* From one loop to the next.                                              *)
LEMMA JumpKeeps ==
  ASSUME IInv, set_virtual_address_map \/ jump_to_kernel \/ new_kernel_process
  PROVE  IInv' /\ Growth
<1>1. /\ UNCHANGED <<memory_map, image, pt, fa, building, s, root>> /\ k' = 0
      /\ building # "loader"
  BY DEF set_virtual_address_map, jump_to_kernel, new_kernel_process, Goto, const,
         IInv, Stages, Loading
<1>2. Types' /\ Growth /\ LowIdentity'
  BY <1>1, GrowsSame DEF IInv, Types, Growth, LowIdentity
<1>3. Stages'
  BY <1>1 DEF IInv, Stages, set_virtual_address_map, jump_to_kernel, new_kernel_process, Goto, Loading
<1>4. LoaderHeap'
  BY <1>2, <1>3, GrowthKeeps
<1>5. RuntimePages' = RuntimePages
  BY <1>1 DEF RuntimePages
<1>6. HeapPages \in Nat \ {0} /\ k \in Nat
  BY HeapNumbers DEF IInv, Types
<1>7. CASE set_virtual_address_map
  <2>1. pc = "runtime" /\ pc' = "copy" /\ k = Len(RuntimePages) /\ building = "kernel"
    BY <1>7 DEF set_virtual_address_map, Goto, IInv, Stages, Loading
  <2>2. NoHeapTable' /\ Sharing'
    BY <1>1, <2>1 DEF IInv, NoHeapTable, Sharing
  <2>3. fa = << >> \/ IdentityTo(Len(RuntimePages))
    BY <2>1 DEF IInv, Copying
  <2>4. fa' = << >> \/ IdentityTo(Len(RuntimePages))'
    BY <1>1, <1>2, <1>5, <2>3, GrowthKeeps
  <2>5. SeenTo(k)' /\ k' <= HeapPages
    BY <1>1, <1>6 DEF SeenTo
  <2>6. Copying'
    BY <1>1, <2>1, <2>4, <2>5 DEF Copying, KernelRuns
  <2>. QED BY <1>2, <1>3, <1>4, <2>2, <2>6 DEF IInv
<1>8. CASE jump_to_kernel
  <2>1. pc = "copy" /\ pc' = "swap_map" /\ k = HeapPages /\ building = "kernel"
    BY <1>8 DEF jump_to_kernel, Goto, IInv, Stages, Loading
  <2>2. NoHeapTable' /\ Sharing'
    BY <1>1, <2>1 DEF NoHeapTable, Sharing
  <2>3. SeenTo(HeapPages) /\ IdentityTo(Len(RuntimePages))
    BY <1>6, <2>1 DEF IInv, Copying
  <2>4. SeenTo(HeapPages)' /\ IdentityTo(Len(RuntimePages))'
    BY <1>1, <1>2, <1>5, <2>3, GrowthKeeps
  <2>5. Copying'
    BY <2>1, <2>4 DEF Copying
  <2>. QED BY <1>2, <1>3, <1>4, <2>2, <2>5 DEF IInv
<1>9. CASE new_kernel_process
  <2>1. pc = "built" /\ pc' = "running" /\ building = "driver"
    BY <1>9 DEF new_kernel_process, Goto
  <2>2. NoHeapTable'
    BY <1>1, <2>1 DEF NoHeapTable
  <2>3. SeenTo(HeapPages) /\ IdentityTo(Len(RuntimePages))
    BY <2>1 DEF IInv, Copying, KernelRuns
  <2>4. SeenTo(HeapPages)' /\ IdentityTo(Len(RuntimePages))'
    BY <1>1, <1>2, <1>5, <2>3, GrowthKeeps
  <2>5. Copying'
    BY <2>1, <2>4 DEF Copying
  <2>6. SegmentPages("kernel")' = SegmentPages("kernel")
    BY <1>1 DEF SegmentPages, Headers
  <2>7. (\A p \in SegmentPages("kernel") : Shown(p))'
    BY <1>2, <2>1, <2>6, GrowthKeeps DEF IInv, Sharing
  <2>8. Sharing'
    BY <2>1, <2>7 DEF Sharing
  <2>. QED BY <1>2, <1>3, <1>4, <2>2, <2>5, <2>8 DEF IInv
<1>. QED BY <1>7, <1>8, <1>9

(* One page of the heap's copy.  The first needs a new table, so that with *)
(* an empty allocator it fails and the loader stops.                       *)
LEMMA CopyKeeps ==
  ASSUME IInv, copy_heap_page
  PROVE  IInv' /\ Growth
<1>1. /\ pc = "copy" /\ building = "kernel" /\ root' = root /\ k \in Nat /\ k < HeapPages
      /\ memory_map \in MemoryMaps /\ image \in Images /\ Sound(pt["kernel"], memory_map) /\ Sound(pt["loader"], memory_map)
      /\ fa \in Seq(UsableFrom(memory_map, 1)) /\ HeapPages \in Nat /\ HeapStartPage \in Nat
  BY HeapNumbers DEF copy_heap_page, IInv, Stages, Types, Loading, Processes
<1>2. PICK page, frame, m :
        /\ page = HeapStartPage + k /\ frame = translate_page(pt["loader"], page)
        /\ m = map_to(pt["kernel"], fa, page, frame)
  OBVIOUS
<1>3. page \in heap_range /\ page \in Nat
  BY <1>1, <1>2 DEF heap_range
<1>4. page \in Mapped(pt["loader"])
  BY <1>1, <1>3 DEF IInv, LoaderHeap
<1>5. frame = pt["loader"].map[page] /\ frame \in Nat
  BY <1>1, <1>2, <1>4 DEF translate_page, Sound, PtOK, Mapped
<1>6. IF m.res # "Ok" THEN Panic(m.fa) ELSE MapNext(m, fa)
  BY <1>1, <1>2, <1>4, Zenon DEF copy_heap_page, HeapPage
<1>7. UsableFrom(memory_map, 1) \subseteq Nat /\ 1 \in 1 .. Levels
  BY <1>1, FramesAreNumbers, TableAssumption
<1>8. /\ LevelDone(pt["kernel"], fa, memory_map, 1, page, m)
      /\ PageDone(pt["kernel"], fa, page, frame, m)
  BY <1>1, <1>2, <1>3, <1>5, <1>7, PageCall
<1>9. Sound(m.pt, memory_map) /\ Grows(pt["kernel"], m.pt) /\ m.fa \in Seq(UsableFrom(memory_map, 1))
  BY <1>8 DEF LevelDone
<1>10. CASE m.res # "Ok"
  <2>1. /\ UNCHANGED <<memory_map, image, pt, building, s, k, root>>
        /\ pc' = "panicked" /\ fa' = m.fa
    BY <1>1, <1>6, <1>10 DEF Panic, const
  <2>. QED BY <1>1, <1>9, <2>1, StopKeeps
<1>11. CASE m.res = "Ok"
  <2>1. /\ pt' = [pt EXCEPT !["kernel"] = m.pt] /\ fa' = m.fa /\ k' = k + 1
        /\ memory_map' = memory_map /\ image' = image /\ building' = building
        /\ pc' = pc /\ s' = s
    BY <1>1, <1>6, <1>11 DEF MapNext, const
  <2>2. Low(m.pt, memory_map)
    <3>1. EntryOf(1, page) = {page}
      <4>1. Covered(1) = 1
        BY <1>7, CoveredFacts
      <4>. QED BY <1>3, <4>1 DEF EntryOf
    <3>2. \A f \in Physical(memory_map) : f \notin EntryOf(1, page)
      BY <1>1, <1>3, <3>1, LayoutFacts
    <3>3. m = map_to_level(pt["kernel"], fa, 1, page, frame)
      BY <1>2 DEF map_to
    <3>4. Low(pt["kernel"], memory_map)
      BY DEF IInv, LowIdentity, Low
    <3>. QED BY <1>1, <1>3, <1>5, <1>7, <3>2, <3>3, <3>4, LowKept
  <2>3. /\ Growth /\ LowIdentity' /\ DOMAIN pt' = Processes
        /\ \A v \in Processes : Sound(pt'[v], memory_map) /\ (pt'[v] = IF v = "kernel" THEN m.pt ELSE pt[v])
    BY <1>1, <1>9, <2>1, <2>2, Replaced
  <2>4. Types' /\ Stages'
    BY <1>1, <1>9, <2>1, <2>3 DEF IInv, Types, Stages
  <2>5. /\ pt'["kernel"] = m.pt /\ pt'["loader"] = pt["loader"] /\ RuntimePages' = RuntimePages
    BY <2>1, <2>3 DEF Processes, RuntimePages
  <2>6. NoHeapTable'
    BY <1>1, <2>1 DEF NoHeapTable
  <2>7. PICK n : n = k
    OBVIOUS
  <2>8. SeenTo(n)'
    BY <1>1, <2>3, <2>7, GrowthKeeps DEF IInv, Copying
  <2>9. SeenTo(k)'
    <3>1. SUFFICES ASSUME NEW j \in 0 .. (k' - 1)
                   PROVE  /\ HeapStartPage + j \in Mapped(m.pt)
                          /\ m.pt.map[HeapStartPage + j] = pt["loader"].map[HeapStartPage + j]
      BY <2>5 DEF SeenTo
    <3>2. CASE j = k
      BY <1>2, <1>5, <1>8, <1>11, <3>2 DEF PageDone
    <3>3. CASE j # k
      <4>1. j \in 0 .. (n - 1)
        BY <1>1, <2>1, <2>7, <3>1, <3>3
      <4>. QED BY <2>5, <2>8, <4>1 DEF SeenTo
    <3>. QED BY <3>2, <3>3
  <2>10. IdentityTo(Len(RuntimePages))
    <3>1. SUFFICES ASSUME fa = << >>, k = 0 PROVE FALSE
      BY <1>1 DEF IInv, Copying
    <3>2. TableOf(page, 1) \in DOMAIN pt["kernel"].tables
      BY <1>8, <1>11, <3>1 DEF PageDone
    <3>3. page = HeapStartPage
      BY <1>1, <1>2, <3>1
    <3>. QED BY <1>1, <3>1, <3>2, <3>3 DEF IInv, NoHeapTable
  <2>11. IdentityTo(Len(RuntimePages))'
    BY <1>1, <2>3, <2>5, <2>10, GrowthKeeps
  <2>12. k' <= HeapPages
    BY <1>1, <2>1
  <2>13. Copying'
    BY <1>1, <2>1, <2>9, <2>11, <2>12 DEF Copying, KernelRuns
  <2>14. Sharing' /\ LoaderHeap'
    BY <1>1, <2>1, <2>3, <2>4, GrowthKeeps DEF Sharing
  <2>. QED BY <2>3, <2>4, <2>6, <2>13, <2>14 DEF IInv
<1>. QED BY <1>10, <1>11

(* The kernel's allocator walks the same map.                              *)
LEMMA SwapKeeps ==
  ASSUME IInv, swap_map
  PROVE  IInv' /\ Growth
<1>1. /\ pc = "swap_map" /\ building = "kernel" /\ root' = root
      /\ memory_map \in MemoryMaps /\ fa \in Seq(UsableFrom(memory_map, 1))
  BY DEF swap_map, IInv, Stages, Types, Loading
<1>2. CASE fa = << >>
  <2>1. Panic(fa)
    BY <1>2 DEF swap_map
  <2>. QED BY <1>1, <2>1, StopKeeps DEF Panic, const
<1>3. CASE fa # << >>
  <2>1. PICK stops : stops = SwapStops(memory_map, fa[1])
    OBVIOUS
  <2>2. /\ IF stops = {} THEN pc' = "swap_panic" /\ fa' = Advance(fa, 1)
           ELSE pc' = "ioapic" /\ fa' = FramesFrom(Min(stops) + 1)
        /\ UNCHANGED <<memory_map, image, pt, building, s, k>>
    BY <1>3, <2>1 DEF swap_map, const
  <2>3. CASE stops = {}
    <3>1. 1 \in 0 .. Len(fa)
      BY <1>1, <1>3, EmptySeq
    <3>2. fa' \in Seq(UsableFrom(memory_map, 1)) /\ pc' = "swap_panic"
      BY <1>1, <2>2, <2>3, <3>1, AdvanceKeeps
    <3>. QED BY <1>1, <2>2, <3>2, StopKeeps
  <2>4. CASE stops # {}
    <3>1. PICK n, j : n = Len(memory_map) /\ j = Min(stops)
      OBVIOUS
    <3>2. n \in Nat /\ stops \in SUBSET (1 .. n)
      <4>1. memory_map \in Seq(Descriptor)
        BY <1>1, MapAssumption
      <4>. QED BY <2>1, <3>1, <4>1 DEF SwapStops
    <3>3. Min(stops) \in stops
      <4>1. n \in Int /\ 1 \in Nat
        BY <3>2
      <4>. QED BY <2>4, <3>2, <4>1, MinExists, Zenon
    <3>4. j + 1 \in 1 .. (n + 1)
      <4>1. j \in 1 .. n
        BY <3>1, <3>2, <3>3, Zenon
      <4>. QED BY <3>2, <4>1
    <3>5. fa' \in Seq(UsableFrom(memory_map, 1)) /\ pc' = "ioapic"
      BY <1>1, <2>2, <2>4, <3>1, <3>4, IssuedFrames DEF FramesFrom
    <3>6. Types' /\ Stages' /\ LowIdentity' /\ NoHeapTable' /\ LoaderHeap' /\ Sharing'
      BY <1>1, <2>2, <3>5 DEF IInv, Types, Stages, LowIdentity, NoHeapTable, LoaderHeap,
                              Loading, Sharing
    <3>7. Growth /\ RuntimePages' = RuntimePages
      BY <1>1, <2>2, GrowsSame DEF Growth, RuntimePages
    <3>8. SeenTo(HeapPages)' /\ IdentityTo(Len(RuntimePages))'
      <4>1. SeenTo(HeapPages) /\ IdentityTo(Len(RuntimePages))
        BY <1>1 DEF IInv, Copying, KernelRuns
      <4>. QED BY <1>1, <3>7, <4>1, GrowthKeeps
    <3>9. Copying'
      BY <3>5, <3>8 DEF Copying
    <3>. QED BY <3>6, <3>7, <3>9 DEF IInv
  <2>. QED BY <2>3, <2>4
<1>. QED BY <1>2, <1>3

(* An identity mapping keeps low pages on their own frames.                *)
LEMMA IdentityKept ==
  ASSUME NEW m \in MemoryMaps, NEW t, Sound(t, m), Low(t, m), NEW q \in Seq(UsableFrom(m, 1)),
         NEW page \in Nat, NEW r, r = identity_map(t, q, page)
  PROVE  Sound(r.pt, m) /\ Grows(t, r.pt) /\ r.fa \in Seq(UsableFrom(m, 1)) /\ Low(r.pt, m)
<1>1. UsableFrom(m, 1) \subseteq Nat /\ 1 \in 1 .. Levels
  BY FramesAreNumbers, TableAssumption
<1>2. r = map_to_level(t, q, 1, page, page)
  BY DEF identity_map, map_to
<1>3. LevelDone(t, q, m, 1, page, r)
  BY <1>1, <1>2, LevelCall
<1>4. Low(r.pt, m)
  BY <1>1, <1>2, LowKept
<1>. QED BY <1>3, <1>4 DEF LevelDone

(* The I/O APIC's registers; the kernel goes on to the driver.             *)
LEMMA IoApicKeeps ==
  ASSUME IInv, ioapic_init
  PROVE  IInv' /\ Growth
<1>1. /\ pc = "ioapic" /\ building = "kernel" /\ root' = root /\ building' = "driver"
      /\ s' = 1 /\ k' = 0 /\ memory_map' = memory_map /\ image' = image
      /\ memory_map \in MemoryMaps /\ Sound(pt["kernel"], memory_map) /\ IoApicPage \in Nat
      /\ fa \in Seq(UsableFrom(memory_map, 1)) /\ Low(pt["kernel"], memory_map)
  BY HeapNumbers DEF ioapic_init, const, IInv, Stages, Types, Loading, Processes, LowIdentity, Low
<1>2. PICK m1, m2 :
        /\ m1 = identity_map(pt["kernel"], fa, IoApicPage)
        /\ m2 = IF m1.res = "Ok" THEN identity_map(m1.pt, m1.fa, IoApicPage + 1) ELSE m1
        /\ pt' = [pt EXCEPT !["kernel"] = m2.pt] /\ fa' = m2.fa
        /\ pc' \in {"fixed", "fault"}
  BY DEF ioapic_init
<1>3. /\ Sound(m1.pt, memory_map) /\ Grows(pt["kernel"], m1.pt) /\ m1.fa \in Seq(UsableFrom(memory_map, 1))
      /\ Low(m1.pt, memory_map)
  BY <1>1, <1>2, IdentityKept
<1>4. /\ Sound(m2.pt, memory_map) /\ Grows(m1.pt, m2.pt) /\ m2.fa \in Seq(UsableFrom(memory_map, 1))
      /\ Low(m2.pt, memory_map)
  <2>1. CASE m1.res = "Ok"
    <3>1. m2 = identity_map(m1.pt, m1.fa, IoApicPage + 1) /\ IoApicPage + 1 \in Nat
      BY <1>1, <1>2, <2>1
    <3>. QED BY <1>1, <1>3, <3>1, IdentityKept
  <2>2. CASE m1.res # "Ok"
    BY <1>2, <1>3, <2>2, GrowsSame
  <2>. QED BY <2>1, <2>2
<1>5. Grows(pt["kernel"], m2.pt)
  BY <1>3, <1>4 DEF Grows
<1>6. /\ Growth /\ LowIdentity' /\ DOMAIN pt' = Processes
      /\ \A v \in Processes : Sound(pt'[v], memory_map) /\ (pt'[v] = IF v = "kernel" THEN m2.pt ELSE pt[v])
  BY <1>1, <1>2, <1>4, <1>5, Replaced
<1>7. Types' /\ Stages' /\ NoHeapTable' /\ Sharing'
  BY <1>1, <1>2, <1>4, <1>6 DEF IInv, Types, Stages, NoHeapTable, Sharing
<1>8. SeenTo(HeapPages) /\ IdentityTo(Len(RuntimePages))
  BY <1>1 DEF IInv, Copying, KernelRuns
<1>9. RuntimePages' = RuntimePages
  BY <1>1 DEF RuntimePages
<1>10. SeenTo(HeapPages)' /\ IdentityTo(Len(RuntimePages))'
  BY <1>1, <1>6, <1>8, <1>9, GrowthKeeps
<1>11. Copying'
  BY <1>2, <1>10 DEF Copying
<1>12. LoaderHeap'
  BY <1>6, <1>7, GrowthKeeps
<1>. QED BY <1>6, <1>7, <1>11, <1>12 DEF IInv

(* Only the kernel faults on a table.                                      *)
LEMMA FaultFacts ==
  ASSUME IInv, table_fault
  PROVE  /\ building \in {"kernel", "driver"} /\ (building = "kernel" => pc = "ioapic")
         /\ pc' = "table_fault"
         /\ UNCHANGED <<memory_map, image, pt, fa, mem, building, s, k, file_size, root>>
<1>1. \/ pc = "ioapic" \/ pc = "kernel_pages"
      \/ building = "driver" /\ pc \in {"fixed", "segments"}
  BY DEF table_fault, WalksUnreached, ioapic_unreached, fixed_unreached, kernel_page_unreached,
         load_page_unreached
<1>2. building \in {"kernel", "driver"} /\ (building = "kernel" => pc = "ioapic")
  BY <1>1 DEF IInv, Stages, Loading
<1>. QED BY <1>2 DEF table_fault, const

(* It leaves everything as it is.                                          *)
LEMMA FaultKeeps ==
  ASSUME IInv, table_fault
  PROVE  IInv' /\ Growth
<1>1. /\ building \in {"kernel", "driver"} /\ (building = "kernel" => pc = "ioapic")
      /\ pc' = "table_fault"
      /\ UNCHANGED <<memory_map, image, pt, fa, building, s, k, root>>
  BY FaultFacts
<1>2. Types' /\ Stages' /\ LowIdentity'
  BY <1>1 DEF IInv, Types, Stages, LowIdentity
<1>3. NoHeapTable' /\ LoaderHeap' /\ Sharing'
  BY <1>1 DEF IInv, NoHeapTable, LoaderHeap, Sharing, Loading
<1>4. Copying'
  <2>1. KernelRuns' => KernelRuns
    BY <1>1 DEF KernelRuns
  <2>. QED BY <1>1, <2>1 DEF IInv, Copying, SeenTo, IdentityTo, RuntimePages
<1>5. Growth
  BY <1>1, GrowsSame DEF Growth
<1>. QED BY <1>2, <1>3, <1>4, <1>5 DEF IInv

-------------------------------------------------------------------------------

(* Every step keeps the invariant, and behind the loader's heap the tables *)
(* only grow.                                                              *)
LEMMA IInvNext == IInv /\ [Next]_vars => IInv' /\ (building = "loader" \/ Growth)
<1>. SUFFICES ASSUME IInv, [Next]_vars PROVE IInv' /\ (building = "loader" \/ Growth)
  OBVIOUS
<1>0. pc \in Loading \cup {"init_heap_new"} => building = "loader"
  BY DEF IInv, Stages, Loading
<1>1. CASE get_memory_map \/ exit_boot_services \/ mem_init
  <2>1. pc \in Loading
    BY <1>1 DEF get_memory_map, exit_boot_services, mem_init, Goto, Loading
  <2>. QED BY <1>0, <1>1, <2>1, FirmwareKeeps
<1>2. CASE init_heap_page
  BY <1>0, <1>2, HeapPageKeeps DEF init_heap_page
<1>3. CASE init_heap_done
  BY <1>0, <1>3, HeapDoneKeeps DEF init_heap_done
<1>4. CASE BuildNext /\ UNCHANGED root
  BY <1>4, MapFixedKeeps, KernelPageKeeps, LoadPageKeeps, QuietKeeps DEF BuildNext
<1>5. CASE identity_map_root
  BY <1>5, RootKeeps
<1>6. CASE map_runtime_page
  BY <1>6, RuntimeKeeps
<1>7. CASE set_virtual_address_map \/ jump_to_kernel \/ new_kernel_process
  BY <1>7, JumpKeeps
<1>8. CASE copy_heap_page
  BY <1>8, CopyKeeps
<1>9. CASE swap_map
  BY <1>9, SwapKeeps
<1>10. CASE ioapic_init
  BY <1>10, IoApicKeeps
<1>12. CASE table_fault
  BY <1>12, FaultKeeps
<1>11. CASE finished \/ UNCHANGED vars
  <2>1. UNCHANGED <<memory_map, image, pt, fa, building, pc, s, k, root>>
    BY <1>11 DEF finished, vars
  <2>2. IInv'
    BY <2>1 DEF IInv, Types, Stages, LoaderHeap, BackedTo, LowIdentity, NoHeapTable, Copying,
                SeenTo, IdentityTo, KernelRuns, RuntimePages, Sharing, SharedTo, Shown,
                SegmentPages, Headers
  <2>3. building # "loader" => Growth
    BY <2>1, GrowsSame DEF Growth
  <2>. QED BY <2>2, <2>3
<1>. QED BY <1>1, <1>2, <1>3, <1>4, <1>5, <1>6, <1>7, <1>8, <1>9, <1>10, <1>11, <1>12
        DEF Next

(* The invariant of the boot, from the memory map to the first driver.     *)
THEOREM Invariance == Spec => []IInv
BY IInvInit, IInvNext, PTL DEF Spec

(* The loader uses its heap only with a page behind every address of it,   *)
(* although init_heap_new drops what map_to returns (allocator.rs 38-58),  *)
(* for every machine, heap and geometry of the tables.                     *)
THEOREM HeapIsBacked == Spec => []OkMeansBacked
<1>1. IInv => OkMeansBacked
  BY DEF IInv, LoaderHeap, OkMeansBacked
<1>. QED BY <1>1, Invariance, PTL

(* A kernel that runs sees every page of the loader's heap on the frame    *)
(* the loader wrote to (kernel_loader/src/main.rs 365-383), through        *)
(* swap_map and the construction of the driver.                            *)
THEOREM HeapIsSeen == Spec => []KernelSeesHeap
<1>1. IInv => KernelSeesHeap
  <2>1. SUFFICES ASSUME IInv, KernelRuns, NEW p \in heap_range
                 PROVE  p \in Mapped(pt["kernel"]) /\ pt["kernel"].map[p] = pt["loader"].map[p]
    BY DEF KernelSeesHeap
  <2>2. PICK j \in 0 .. (HeapPages - 1) : p = HeapStartPage + j
    <3>1. p - HeapStartPage \in 0 .. (HeapPages - 1) /\ p = HeapStartPage + (p - HeapStartPage)
      BY HeapNumbers DEF heap_range
    <3>. QED BY <3>1
  <2>. QED BY <2>1, <2>2 DEF IInv, Copying, SeenTo
<1>. QED BY <1>1, Invariance, PTL

(* When the kernel runs, its root table and the runtime services are       *)
(* mapped at their own addresses, although run() drops both results        *)
(* (kernel_loader/src/main.rs 249-309).                                    *)
THEOREM DroppedResults == Spec => []DroppedResultsHarmless
<1>1. IInv => DroppedResultsHarmless
  <2>1. SUFFICES ASSUME IInv, KernelRuns,
                        NEW f \in {root} \cup {RuntimePages[j] : j \in 1 .. Len(RuntimePages)}
                 PROVE  f \in Mapped(pt["kernel"]) /\ pt["kernel"].map[f] = f
    BY DEF DroppedResultsHarmless
  <2>2. IdentityTo(Len(RuntimePages))
    BY <2>1 DEF IInv, Copying
  <2>3. f \in Mapped(pt["kernel"])
    BY <2>1, <2>2 DEF IdentityTo
  <2>4. f \in Physical(memory_map)
    BY <2>1, <2>2, RuntimeFacts DEF IInv, IdentityTo, Physical
  <2>. QED BY <2>1, <2>3, <2>4 DEF IInv, LowIdentity
<1>. QED BY <1>1, Invariance, PTL

(* The driver's address space shows every page of the kernel's segments on *)
(* the kernel's frames (process.rs 351-390).                               *)
THEOREM KernelIsShared == Spec => []KernelPagesShared
<1>1. IInv => KernelPagesShared
  BY DEF IInv, Stages, Sharing, Shown, KernelPagesShared, Loading
<1>. QED BY <1>1, Invariance, PTL
-------------------------------------------------------------------------------
(* The window on physical memory, in large pages.                          *)
LargePages == (get_mem_size(memory_map) \div Covered(Levels)) + 1

WindowTo(n) ==
  \A j \in 0 .. (n - 1) : Shows(pt["kernel"], Levels, PAGE_TABLE_OFFSET + j, j)

(* The kernel's window, the first of its ranges, is mapped.                *)
WindowDone ==
  \/ building = "driver"
  \/ /\ building = "kernel"
     /\ \/ pc = "fixed" /\ s > 1
        \/ pc \in {"headers", "segments", "built", "runtime", "copy", "swap_map", "ioapic"}

Windowed ==
  /\ building = "kernel" /\ pc = "fixed" /\ s = 1 => WindowTo(k)
  /\ WindowDone => WindowTo(LargePages)

(* The window grows with the table.                                        *)
LEMMA WindowKept ==
  ASSUME Growth
  PROVE  LargePages' = LargePages /\ \A n : WindowTo(n) => WindowTo(n)'
<1>1. LargePages' = LargePages
  BY DEF LargePages, Growth
<1>2. ASSUME NEW l, NEW page, NEW frame, Shows(pt["kernel"], l, page, frame)
      PROVE  Shows(pt["kernel"], l, page, frame)'
  BY <1>2 DEF Growth, Grows, Shows
<1>3. \A n : WindowTo(n) => WindowTo(n)'
  BY <1>2, Zenon DEF WindowTo
<1>. QED BY <1>1, <1>3

(* The number of large pages of the window.                                *)
LEMMA LargePagesNat ==
  ASSUME Types
  PROVE  /\ Covered(Levels) \in Nat \ {0} /\ PAGE_TABLE_OFFSET \in Nat
         /\ get_mem_size(memory_map) \div Covered(Levels) \in Nat
<1>1. Levels \in 1 .. Levels
  BY TableAssumption
<1>2. PICK c \in Nat \ {0}, z \in Nat : c = Covered(Levels) /\ z = get_mem_size(memory_map)
  BY <1>1, CoveredFacts, FramesAssumption DEF Types
<1>3. z \div c \in Nat
  BY Division
<1>. QED BY <1>2, <1>3, BuildAssumption

(* A large page of the kernel's window.                                    *)
LEMMA WindowPage ==
  ASSUME IInv, Windowed, Growth, map_fixed, building = "kernel", s = 1
  PROVE  Windowed'
<1>1. PICK page, m : /\ page = PAGE_TABLE_OFFSET + k
                     /\ m = map_to_level(pt["kernel"], fa, Levels, page, k)
                     /\ pc = "fixed"
                     /\ IF m.res # "Ok" THEN Panic(m.fa) ELSE MapNext(m, fa)
  <2>1. /\ FixedRanges(building)[s] = Window /\ Window.lo = PAGE_TABLE_OFFSET
        /\ Window.base = PAGE_TABLE_OFFSET /\ Window.level = Levels /\ Window.kind = "at"
    BY DEF FixedRanges, KernelRanges, Window, Span
  <2>2. PICK r, page, fresh, from, frame, m :
          /\ r = FixedRanges(building)[s] /\ page = r.lo + k /\ fresh = (r.kind = "fresh")
          /\ from = IF fresh THEN Advance(fa, 1) ELSE fa
          /\ frame = IF fresh THEN fa[1] ELSE page - r.base
          /\ m = map_to_level(pt[building], from, r.level, page, frame)
    OBVIOUS
  <2>3. /\ pc = "fixed"
        /\ IF fresh /\ fa = << >> THEN Panic(fa)
           ELSE IF m.res # "Ok" THEN Panic(m.fa) ELSE MapNext(m, from)
    BY <2>2, Zenon DEF map_fixed
  <2>4. k \in Nat /\ PAGE_TABLE_OFFSET \in Nat
    BY BuildAssumption DEF IInv, Types
  <2>5. ~fresh /\ page = PAGE_TABLE_OFFSET + k
    BY <2>1, <2>2
  <2>6. from = fa /\ frame = page - PAGE_TABLE_OFFSET
    BY <2>1, <2>2, <2>5
  <2>7. frame = k
    BY <2>4, <2>5, <2>6
  <2>. QED BY <2>1, <2>2, <2>3, <2>5, <2>6, <2>7
<1>2. /\ page \in Nat /\ k \in Nat /\ fa \in Seq(UsableFrom(memory_map, 1)) /\ Levels \in 1 .. Levels
      /\ Sound(pt["kernel"], memory_map) /\ memory_map \in MemoryMaps
  BY <1>1, BuildAssumption, TableAssumption DEF IInv, Types, Processes
<1>3. CASE m.res # "Ok"
  BY <1>1, <1>3 DEF Panic, Windowed, WindowDone
<1>4. CASE m.res = "Ok"
  <2>1. /\ pt' = [pt EXCEPT !["kernel"] = m.pt] /\ k' = k + 1
        /\ building' = building /\ pc' = pc /\ s' = s
    BY <1>1, <1>4 DEF MapNext
  <2>2. Shows(m.pt, Levels, page, k)
    BY <1>1, <1>2, <1>4, LevelCall, Zenon DEF MapDone
  <2>3. pt'["kernel"] = m.pt
    BY <2>1 DEF IInv, Types, Processes
  <2>4. PICK n \in Nat : n = k
    BY <1>2
  <2>5. WindowTo(n)'
    BY <1>1, <2>4, WindowKept DEF Windowed
  <2>6. WindowTo(k)'
    <3>1. SUFFICES ASSUME NEW j \in 0 .. (k' - 1)
                   PROVE  Shows(pt'["kernel"], Levels, PAGE_TABLE_OFFSET + j, j)
      BY DEF WindowTo
    <3>2. CASE j = n
      BY <1>1, <2>2, <2>3, <2>4, <3>2
    <3>3. CASE j # n
      <4>1. j \in 0 .. (n - 1)
        BY <2>1, <2>4, <3>1, <3>3
      <4>. QED BY <2>5, <4>1 DEF WindowTo
    <3>. QED BY <3>2, <3>3
  <2>7. ~WindowDone'
    BY <1>1, <2>1 DEF WindowDone
  <2>. QED BY <2>6, <2>7 DEF Windowed
<1>. QED BY <1>3, <1>4

(* The range ends behind its last page, phys_mem_end.                      *)
LEMMA WindowEnd ==
  ASSUME IInv, Windowed, Growth, next_fixed, building = "kernel", s = 1
  PROVE  Windowed'
<1>1. /\ pc = "fixed" /\ s' = 2 /\ building' = building /\ WindowTo(k)
      /\ Window.lo + k > Window.hi
  <2>1. FixedRanges(building)[s] = Window
    BY DEF FixedRanges, KernelRanges
  <2>. QED BY <2>1 DEF next_fixed, Windowed
<1>2. PICK n \in Nat, z \in Nat, o \in Nat :
        n = k /\ z = get_mem_size(memory_map) \div Covered(Levels) /\ o = PAGE_TABLE_OFFSET
  BY LargePagesNat DEF IInv, Types
<1>3. o + n > o + z
  BY <1>1, <1>2 DEF Window, Span
<1>4. n >= z + 1 /\ LargePages = z + 1
  BY <1>2, <1>3 DEF LargePages
<1>5. WindowTo(LargePages)
  BY <1>1, <1>2, <1>4 DEF WindowTo
<1>6. WindowTo(LargePages)'
  BY <1>5, WindowKept
<1>. QED BY <1>1, <1>6 DEF Windowed

(* The other steps neither begin nor end the window.                       *)
WindowSame ==
  /\ WindowDone' => WindowDone
  /\ building' = "kernel" /\ pc' = "fixed" /\ s' = 1 =>
       building = "kernel" /\ pc = "fixed" /\ s = 1 /\ k' = k

(* The steps that leave the window as it is: those of the other ranges,    *)
LEMMA FixedSteps ==
  ASSUME IInv, building # "loader", map_fixed \/ next_fixed \/ fixed_done,
         ~(building = "kernel" /\ s = 1 /\ (map_fixed \/ next_fixed))
  PROVE  WindowSame
<1>1. /\ pc = "fixed" /\ building' = building /\ s \in Nat \ {0}
      /\ building \in {"kernel", "driver"}
  BY DEF map_fixed, next_fixed, fixed_done, Panic, MapNext, IInv, Types, Stages, Loading
<1>2. CASE map_fixed
  <2>1. s' = s /\ pc' \in {pc, "panicked"}
    BY <1>2 DEF map_fixed, Panic, MapNext
  <2>. QED BY <1>1, <1>2, <2>1 DEF WindowSame, WindowDone
<1>3. CASE next_fixed
  <2>1. s' = s + 1 /\ pc' = pc
    BY <1>3 DEF next_fixed
  <2>. QED BY <1>1, <1>3, <2>1 DEF WindowSame, WindowDone
<1>4. CASE fixed_done
  <2>1. pc' # "fixed" /\ (building = "kernel" => s > 1)
    <3>1. building = "kernel" => s > 5
      BY <1>4 DEF fixed_done, FixedRanges, KernelRanges
    <3>. QED BY <1>1, <1>4, <3>1 DEF fixed_done
  <2>. QED BY <1>1, <2>1 DEF WindowSame, WindowDone
<1>. QED BY <1>2, <1>3, <1>4

(* those of the segments,                                                  *)
LEMMA LaterSteps ==
  ASSUME IInv, building # "loader",
         \/ map_kernel_page \/ next_kernel_segment \/ kernel_pages_done
         \/ progam_headers \/ segment \/ load_page \/ next_segment \/ from_elf_done
  PROVE  WindowSame
<1>1. building' = building /\ pc' # "fixed" /\ pc \in {"kernel_pages", "headers", "segments"}
  <2>1. CASE map_kernel_page
    BY <2>1 DEF map_kernel_page, Panic, MapNext
  <2>2. CASE load_page
    BY <2>2 DEF load_page, Panic
  <2>3. CASE next_kernel_segment \/ kernel_pages_done \/ progam_headers
    BY <2>3 DEF next_kernel_segment, kernel_pages_done, progam_headers
  <2>4. CASE segment \/ next_segment \/ from_elf_done
    BY <2>4 DEF segment, next_segment, from_elf_done
  <2>. QED BY <2>1, <2>2, <2>3, <2>4
<1>2. pc = "kernel_pages" => building = "driver"
  BY DEF IInv, Stages, Loading
<1>3. building \in {"kernel", "driver"}
  BY DEF IInv, Stages
<1>. QED BY <1>1, <1>2, <1>3 DEF WindowSame, WindowDone

(* and those of run() and _start.                                          *)
LEMMA MainSteps ==
  ASSUME IInv, building # "loader", [Next]_vars, ~BuildNext
  PROVE  WindowSame
<1>1. pc \notin Loading \cup {"init_heap_new"} /\ building \in {"kernel", "driver"}
  BY DEF IInv, Stages, Loading
<1>2. CASE identity_map_root \/ ioapic_init
  <2>1. /\ pc \in {"built", "ioapic"} /\ building = "kernel"
        /\ building' = "driver" \/ (building' = building /\ pc' = "runtime")
    BY <1>2 DEF identity_map_root, ioapic_init, IInv, Stages, Loading
  <2>. QED BY <2>1 DEF WindowSame, WindowDone
<1>3. CASE map_runtime_page \/ copy_heap_page \/ swap_map
  <2>1. /\ pc \in {"runtime", "copy", "swap_map"} /\ building' = building /\ pc' # "fixed"
    BY <1>3 DEF map_runtime_page, copy_heap_page, swap_map, Panic, MapNext
  <2>. QED BY <1>1, <2>1 DEF WindowSame, WindowDone
<1>4. CASE set_virtual_address_map \/ jump_to_kernel \/ new_kernel_process
  <2>1. /\ pc \in {"runtime", "copy", "built"} /\ building' = building /\ pc' # "fixed"
    BY <1>4 DEF set_virtual_address_map, jump_to_kernel, new_kernel_process, Goto
  <2>. QED BY <1>1, <2>1 DEF WindowSame, WindowDone
<1>5. CASE finished \/ UNCHANGED vars
  <2>1. UNCHANGED <<building, pc, s, k>>
    BY <1>5 DEF finished, vars
  <2>. QED BY <2>1 DEF WindowSame, WindowDone
<1>6. ~(get_memory_map \/ exit_boot_services \/ mem_init \/ init_heap_page \/ init_heap_done)
  BY <1>1 DEF get_memory_map, exit_boot_services, mem_init, init_heap_page, init_heap_done,
              Goto, Loading
<1>7. CASE table_fault
  <2>1. /\ building \in {"kernel", "driver"} /\ (building = "kernel" => pc = "ioapic")
        /\ pc' = "table_fault" /\ building' = building
    BY <1>7, FaultFacts
  <2>. QED BY <2>1 DEF WindowSame, WindowDone
<1>. QED BY <1>2, <1>3, <1>4, <1>5, <1>6, <1>7 DEF Next

(* Every step keeps the window up to the page it has reached.              *)
LEMMA WindowedNext == IInv /\ Windowed /\ [Next]_vars => Windowed'
<1>. SUFFICES ASSUME IInv, Windowed, [Next]_vars PROVE Windowed'
  OBVIOUS
<1>1. IInv' /\ (building = "loader" \/ Growth)
  BY IInvNext
<1>2. CASE building = "loader"
  <2>1. CASE init_heap_done
    <3>1. building' = "kernel" /\ pc' = "fixed" /\ s' = 1 /\ k' = 0
      BY <2>1 DEF init_heap_done
    <3>2. WindowTo(k)'
      BY <3>1 DEF WindowTo
    <3>. QED BY <3>1, <3>2 DEF Windowed, WindowDone
  <2>2. CASE ~init_heap_done
    <3>1. building' = "loader"
      <4>1. pc \in Loading \cup {"init_heap_new", "efi_panic", "panicked"}
        BY <1>2 DEF IInv, Stages
      <4>2. ~BuildNext
        BY <4>1 DEF BuildNext, map_fixed, next_fixed, fixed_done, map_kernel_page,
             next_kernel_segment, kernel_pages_done, progam_headers, segment, load_page,
             next_segment, from_elf_done, Loading
      <4>3. ~(\/ identity_map_root \/ map_runtime_page \/ set_virtual_address_map
              \/ copy_heap_page \/ jump_to_kernel \/ swap_map \/ ioapic_init
              \/ new_kernel_process)
        BY <1>2, <4>1 DEF identity_map_root, map_runtime_page, set_virtual_address_map, Goto,
             copy_heap_page, jump_to_kernel, swap_map, ioapic_init, new_kernel_process, Loading
      <4>4. CASE get_memory_map \/ exit_boot_services \/ mem_init
        BY <1>2, <4>4 DEF get_memory_map, exit_boot_services, mem_init, Goto
      <4>5. CASE init_heap_page
        BY <1>2, <4>5 DEF init_heap_page, Panic, MapNext
      <4>6. CASE finished \/ UNCHANGED vars
        BY <1>2, <4>6 DEF finished, vars
      <4>7. ~table_fault
        BY <1>2, FaultFacts
      <4>. QED BY <2>2, <4>2, <4>3, <4>4, <4>5, <4>6, <4>7 DEF Next
    <3>. QED BY <3>1 DEF Windowed, WindowDone
  <2>. QED BY <2>1, <2>2
<1>3. CASE Growth
  <2>1. CASE building = "kernel" /\ s = 1 /\ (map_fixed \/ next_fixed)
    BY <1>3, <2>1, WindowPage, WindowEnd
  <2>2. CASE ~(building = "kernel" /\ s = 1 /\ (map_fixed \/ next_fixed))
    <3>1. WindowSame
      <4>0. building # "loader"
        BY <1>3 DEF Growth
      <4>1. CASE map_fixed \/ next_fixed \/ fixed_done
        BY <2>2, <4>0, <4>1, FixedSteps
      <4>2. CASE BuildNext /\ ~(map_fixed \/ next_fixed \/ fixed_done)
        BY <4>0, <4>2, LaterSteps DEF BuildNext
      <4>3. CASE ~BuildNext
        BY <4>0, <4>3, MainSteps
      <4>. QED BY <4>1, <4>2, <4>3
    <3>2. WindowDone' => WindowTo(LargePages)'
      BY <1>3, <3>1, WindowKept DEF Windowed, WindowSame
    <3>3. ASSUME building' = "kernel" /\ pc' = "fixed" /\ s' = 1 PROVE WindowTo(k)'
      <4>1. PICK n : n = k /\ k' = n /\ WindowTo(n)
        BY <3>1, <3>3 DEF Windowed, WindowSame
      <4>2. WindowTo(n)'
        BY <1>3, <4>1, WindowKept
      <4>. QED BY <4>1, <4>2 DEF WindowTo
    <3>. QED BY <3>2, <3>3 DEF Windowed
  <2>. QED BY <2>1, <2>2
<1>. QED BY <1>1, <1>2, <1>3

(* Two parts, because the window is no part of what keeps IInv.            *)
LEMMA WindowInvariance == Spec => [](IInv /\ Windowed)
<1>1. Init => Windowed
  BY DEF Init, Windowed, WindowDone
<1>. QED BY <1>1, IInvInit, IInvNext, WindowedNext, PTL DEF Spec

(* A usable frame within the window is seen through it.                    *)
LEMMA WindowShows ==
  ASSUME IInv, Windowed, WindowDone, NEW f \in UsableFrom(memory_map, 1), ~Beyond(f),
         NEW p, p = PAGE_TABLE_OFFSET * Covered(Levels) + f
  PROVE  p \in Mapped(pt["kernel"]) /\ pt["kernel"].map[p] = f
<1>1. memory_map \in MemoryMaps /\ WindowTo(LargePages)
  BY DEF IInv, Types, Windowed
<1>2. f \in Nat
  BY <1>1, FramesAreNumbers
<1>3. PICK c \in Nat \ {0}, o \in Nat, z \in Nat :
        /\ c = Covered(Levels) /\ o = PAGE_TABLE_OFFSET
        /\ z = get_mem_size(memory_map) \div Covered(Levels)
  BY LargePagesNat DEF IInv
<1>4. PICK j \in Nat, x \in 0 .. (c - 1) : f = c * j + x /\ j = f \div c
  BY <1>2, <1>3, Division
<1>5. j <= z
  BY <1>3, <1>4 DEF Beyond
<1>6. Shows(pt["kernel"], Levels, o + j, j)
  <2>1. j \in 0 .. (LargePages - 1)
    BY <1>3, <1>5 DEF LargePages
  <2>. QED BY <1>1, <1>3, <2>1 DEF WindowTo
<1>7. PICK a \in Nat, b \in Nat : a = o * c /\ b = j * c /\ (o + j) * c = a + b
  <2>1. o * c \in Nat /\ j * c \in Nat /\ (o + j) * c = o * c + j * c
    BY <1>3, <1>4
  <2>. QED BY <2>1
<1>8. f = b + x /\ p = a + b + x
  BY <1>3, <1>4, <1>7
<1>9. EntryOf(Levels, o + j) = (a + b) .. (a + b + c - 1)
  BY <1>3, <1>7 DEF EntryOf
<1>10. p \in EntryOf(Levels, o + j)
  <2>1. ASSUME NEW u \in Nat PROVE u + x \in u .. (u + c - 1)
    BY <1>4
  <2>. QED BY <1>7, <1>8, <1>9, <2>1
<1>11. p \in Mapped(pt["kernel"]) /\ pt["kernel"].map[p] = j * c + (p - (o + j) * c)
  BY <1>3, <1>6, <1>10 DEF Shows
<1>12. j * c + (p - (o + j) * c) = f
  BY <1>4, <1>7, <1>8
<1>. QED BY <1>11, <1>12

(* The tables on the way to a page stand on usable frames.                 *)
LEMMA WalkUsable ==
  ASSUME NEW m \in MemoryMaps, NEW t, Sound(t, m), NEW q \in Seq(UsableFrom(m, 1)),
         NEW l \in 1 .. Levels, NEW page \in Nat
  PROVE  Walk(t, q, l, page) \subseteq UsableFrom(m, 1)
<1>1. PICK r : r = map_to_level(t, q, l, page, 0)
  OBVIOUS
<1>2. Sound(r.pt, m)
  BY <1>1, LevelCall DEF LevelDone
<1>3. Walk(t, q, l, page) \subseteq TableFrames(r.pt)
  BY <1>1 DEF Walk, TableFrames
<1>. QED BY <1>2, <1>3 DEF Sound

(* The kernel meets a table that it does not reach only beyond the window. *)
LEMMA FaultBeyond ==
  ASSUME IInv, Windowed, table_fault
  PROVE  \E f \in UsableFrom(memory_map, 1) : Beyond(f)
<1>1. /\ memory_map \in MemoryMaps /\ image \in Images /\ k \in Nat /\ s \in Nat \ {0}
      /\ Sound(pt["kernel"], memory_map) /\ Sound(pt["driver"], memory_map) /\ Types
      /\ fa \in Seq(UsableFrom(memory_map, 1)) /\ 1 \in 1 .. Levels /\ Levels \in 1 .. Levels
  BY TableAssumption DEF IInv, Types, Processes
<1>2. ASSUME NEW frames, frames \subseteq UsableFrom(memory_map, 1), Unreached(frames)
      PROVE  \E f \in UsableFrom(memory_map, 1) : Beyond(f)
  <2>1. PICK f \in frames : ~Reached(f)
    BY <1>2 DEF Unreached
  <2>2. WindowDone
    BY FaultFacts DEF WindowDone
  <2>3. f \in UsableFrom(memory_map, 1)
    BY <1>2, <2>1
  <2>. QED BY <2>1, <2>2, <2>3, WindowShows DEF Reached
<1>3. ASSUME NEW t, Sound(t, memory_map), NEW q \in Seq(UsableFrom(memory_map, 1)),
             NEW page \in Nat, Unreached(Walk(t, q, 1, page))
      PROVE  \E f \in UsableFrom(memory_map, 1) : Beyond(f)
  BY <1>1, <1>2, <1>3, WalkUsable
<1>4. ASSUME NEW q \in Seq(UsableFrom(memory_map, 1)), NEW page \in Nat, NEW frame \in Nat, NEW m,
             m = map_to(pt["kernel"], q, page, frame)
      PROVE  Sound(m.pt, memory_map) /\ m.fa \in Seq(UsableFrom(memory_map, 1))
  BY <1>1, <1>4, PageCall DEF LevelDone
<1>5. CASE ioapic_unreached
  <2>1. PICK m : m = identity_map(pt["kernel"], fa, IoApicPage)
    OBVIOUS
  <2>2. \/ Unreached(Walk(pt["kernel"], fa, 1, IoApicPage))
        \/ Unreached(Walk(m.pt, m.fa, 1, IoApicPage + 1))
    BY <1>5, <2>1 DEF ioapic_unreached
  <2>3. IoApicPage \in Nat /\ IoApicPage + 1 \in Nat
    BY HeapNumbers
  <2>4. Sound(m.pt, memory_map) /\ m.fa \in Seq(UsableFrom(memory_map, 1))
    BY <1>1, <1>4, <2>1, <2>3 DEF identity_map
  <2>. QED BY <1>1, <1>3, <2>2, <2>3, <2>4
<1>6. CASE fixed_unreached
  <2>1. PICK r, q : /\ r = FixedRanges(building)[s]
                    /\ q = IF r.kind = "fresh" THEN Advance(fa, 1) ELSE fa
    OBVIOUS
  <2>2. /\ building = "driver" /\ s <= Len(FixedRanges(building))
        /\ ~(r.kind = "fresh" /\ fa = << >>) /\ r.lo + k <= r.hi
        /\ Unreached(Walk(pt["driver"], q, r.level, r.lo + k))
    BY <1>6, <2>1 DEF fixed_unreached
  <2>3. r.lo + k \in Nat /\ r.level \in 1 .. Levels
    <3>1. r.lo + k \in Nat /\ r.level \in {1, Levels}
      BY <1>1, <2>1, <2>2, FixedRange
    <3>. QED BY <1>1, <3>1
  <2>4. q \in Seq(UsableFrom(memory_map, 1))
    <3>1. CASE r.kind = "fresh"
      <4>1. Len(fa) \in Nat /\ Len(fa) >= 1
        BY <1>1, <2>2, <3>1, EmptySeq
      <4>. QED BY <1>1, <2>1, <3>1, <4>1, AdvanceKeeps
    <3>. QED BY <1>1, <2>1, <3>1
  <2>. QED BY <1>1, <1>2, <2>2, <2>3, <2>4, WalkUsable
<1>7. CASE kernel_page_unreached
  <2>1. PICK h, page : h = Headers("kernel")[s] /\ page = SegPage(h, k)
    OBVIOUS
  <2>2. /\ s <= Len(Headers("kernel"))
        /\ \/ Unreached(Walk(pt["kernel"], << >>, 1, page))
           \/ Unreached(Walk(pt["driver"], fa, 1, page))
    BY <1>7, <2>1 DEF kernel_page_unreached
  <2>3. page \in Nat
    <3>1. s \in 1 .. Len(Headers("kernel"))
      BY <1>1, <2>2, HeaderFacts
    <3>. QED BY <1>1, <2>1, <3>1, HeaderFacts
  <2>4. << >> \in Seq(UsableFrom(memory_map, 1))
    OBVIOUS
  <2>. QED BY <1>1, <1>3, <2>2, <2>3, <2>4
<1>8. CASE load_page_unreached
  <2>1. PICK h, frame, from, cur, page :
          /\ h = Headers("driver")[s] /\ frame = fa[1] /\ from = Advance(fa, 1)
          /\ cur = identity_map(pt["kernel"], from, frame) /\ page = SegPage(h, k)
    OBVIOUS
  <2>2. /\ s <= Len(Headers("driver")) /\ fa # << >>
        /\ \/ Unreached(Walk(pt["kernel"], from, 1, frame))
           \/ Unreached(Walk(pt["driver"], cur.fa, 1, page))
    BY <1>8, <2>1 DEF load_page_unreached
  <2>3. page \in Nat
    <3>1. s \in 1 .. Len(Headers("driver"))
      BY <1>1, <2>2, HeaderFacts
    <3>. QED BY <1>1, <2>1, <3>1, HeaderFacts
  <2>4. Len(fa) \in Nat /\ Len(fa) >= 1 /\ UsableFrom(memory_map, 1) \subseteq Nat
    BY <1>1, <2>2, FramesAreNumbers, EmptySeq
  <2>5. from \in Seq(UsableFrom(memory_map, 1)) /\ frame \in Nat
    BY <1>1, <2>1, <2>4, AdvanceKeeps
  <2>6. cur.fa \in Seq(UsableFrom(memory_map, 1))
    BY <1>4, <2>1, <2>5 DEF identity_map
  <2>. QED BY <1>1, <1>3, <2>2, <2>3, <2>5, <2>6
<1>. QED BY <1>5, <1>6, <1>7, <1>8 DEF table_fault, WalksUnreached

(* No step but table_fault stops there.                                    *)
Faulted == pc = "table_fault" => \E f \in UsableFrom(memory_map, 1) : Beyond(f)

(* Every step keeps it.                                                    *)
LEMMA FaultedNext == IInv /\ Windowed /\ Faulted /\ [Next]_vars => Faulted'
<1>. SUFFICES ASSUME IInv, Windowed, Faulted, [Next]_vars, pc' = "table_fault" PROVE Faulted'
  BY DEF Faulted
<1>1. CASE table_fault
  <2>1. memory_map' = memory_map
    BY <1>1, FaultFacts
  <2>. QED BY <1>1, <2>1, FaultBeyond DEF Faulted, Beyond
<1>2. CASE finished \/ UNCHANGED vars
  <2>1. pc' = pc /\ memory_map' = memory_map
    BY <1>2 DEF finished, vars
  <2>. QED BY <2>1 DEF Faulted, Beyond
<1>3. ~BuildNext
  <2>1. ~(map_fixed \/ map_kernel_page)
    BY DEF map_fixed, map_kernel_page, Panic, MapNext
  <2>2. ~load_page
    BY DEF load_page, Panic
  <2>3. ~(next_fixed \/ fixed_done \/ next_kernel_segment \/ kernel_pages_done
          \/ progam_headers \/ segment \/ next_segment \/ from_elf_done)
    BY DEF next_fixed, fixed_done, next_kernel_segment, kernel_pages_done,
           progam_headers, segment, next_segment, from_elf_done
  <2>. QED BY <2>1, <2>2, <2>3 DEF BuildNext
<1>4. ~(\/ get_memory_map \/ exit_boot_services \/ mem_init \/ init_heap_page
        \/ init_heap_done \/ set_virtual_address_map \/ jump_to_kernel \/ new_kernel_process)
  BY DEF get_memory_map, exit_boot_services, mem_init, init_heap_page, init_heap_done,
         set_virtual_address_map, jump_to_kernel, new_kernel_process, Goto, Panic, MapNext
<1>5. ~(\/ identity_map_root \/ map_runtime_page \/ copy_heap_page \/ swap_map \/ ioapic_init)
  BY DEF identity_map_root, map_runtime_page, copy_heap_page, swap_map, ioapic_init, Panic, MapNext
<1>. QED BY <1>1, <1>2, <1>3, <1>4, <1>5 DEF Next

(* The kernel reaches its own page tables, and those it builds for the     *)
(* driver from frames taken after swap_map, through the large pages that   *)
(* kernel_from_elf mapped first (process.rs 61-99), unless they stand on   *)
(* frames beyond the sum of the map's sizes; no later mapping takes one    *)
(* away.  On a memory map without such frames no step of the kernel faults *)
(* on a page table.                                                        *)
THEOREM TablesAreReached == Spec => []WindowCoversTables
<1>1. IInv /\ Windowed /\ Faulted => WindowCoversTables
  <2>1. SUFFICES ASSUME IInv, Windowed, KernelRuns,
                        NEW f \in TableFrames(pt["kernel"]) \cup TableFrames(pt["driver"]),
                        ~Beyond(f), NEW p, p = PAGE_TABLE_OFFSET * Covered(Levels) + f
                 PROVE  p \in Mapped(pt["kernel"]) /\ pt["kernel"].map[p] = f
    BY DEF WindowCoversTables, Reached, Faulted
  <2>2. f \in UsableFrom(memory_map, 1)
    BY <2>1 DEF IInv, Types, Processes, Sound
  <2>3. WindowDone
    BY <2>1 DEF KernelRuns, WindowDone, IInv, Stages, Loading
  <2>. QED BY <2>1, <2>2, <2>3, WindowShows
<1>2. Init => Faulted
  BY DEF Init, Faulted
<1>. QED BY <1>1, <1>2, FaultedNext, WindowInvariance, PTL DEF Spec
-------------------------------------------------------------------------------
(* No frame serves twice.  The allocator's frames rise, every frame in use *)
(* or in hand (X) lies below them, and no two holders share one.           *)
Rising(q) == \A i, j \in 1 .. Len(q) : i < j => q[i] < q[j]

Apart(spaces, im, q, X) ==
  /\ Rising(q)
  /\ \A a, b \in Holders(im, spaces) : FrameOf(spaces, a) = FrameOf(spaces, b) => a = b
  /\ \A a \in Holders(im, spaces) :
       /\ FrameOf(spaces, a) \in Nat /\ FrameOf(spaces, a) \notin X
       /\ \A i \in 1 .. Len(q) : FrameOf(spaces, a) < q[i]
  /\ \A x \in X : x \in Nat /\ \A i \in 1 .. Len(q) : x < q[i]

Exclusive == Apart(pt, image, fa, {})

HolderForms(im, spaces) ==
  /\ \A a \in Holders(im, spaces) : \E w \in Processes :
       \/ \E t \in DOMAIN spaces[w].tables : a = <<w, "table", t>>
       \/ \E p \in Mapped(spaces[w]) \cap Own(im, w) : a = <<w, "page", p>>
  /\ \A w \in Processes : \A t \in DOMAIN spaces[w].tables :
       <<w, "table", t>> \in Holders(im, spaces)
  /\ \A w \in Processes : \A p \in Mapped(spaces[w]) \cap Own(im, w) :
       <<w, "page", p>> \in Holders(im, spaces)
  /\ \A w, t : FrameOf(spaces, <<w, "table", t>>) = spaces[w].tables[t]
  /\ \A w, p : FrameOf(spaces, <<w, "page", p>>) = spaces[w].map[p]

(* The holders of frames, by their two forms.                              *)
LEMMA HoldersAre ==
  ASSUME NEW im, NEW spaces
  PROVE  HolderForms(im, spaces)
<1>. DEFINE Of(w) == {<<w, "table", t>> : t \in DOMAIN spaces[w].tables} \cup
                       {<<w, "page", p>> : p \in Mapped(spaces[w]) \cap Own(im, w)}
<1>0. Holders(im, spaces) = UNION {Of(w) : w \in Processes}
  BY Zenon DEF Holders, Processes
<1>1. \A a \in Holders(im, spaces) : \E w \in Processes :
        \/ \E t \in DOMAIN spaces[w].tables : a = <<w, "table", t>>
        \/ \E p \in Mapped(spaces[w]) \cap Own(im, w) : a = <<w, "page", p>>
  BY <1>0
<1>2. \A w \in Processes : \A t \in DOMAIN spaces[w].tables :
        <<w, "table", t>> \in Holders(im, spaces)
  BY <1>0
<1>3. \A w \in Processes : \A p \in Mapped(spaces[w]) \cap Own(im, w) :
        <<w, "page", p>> \in Holders(im, spaces)
  BY <1>0
<1>4. \A w, t : FrameOf(spaces, <<w, "table", t>>) = spaces[w].tables[t]
  BY DEF FrameOf
<1>5. \A w, p : FrameOf(spaces, <<w, "page", p>>) = spaces[w].map[p]
  BY DEF FrameOf
<1>. QED BY <1>1, <1>2, <1>3, <1>4, <1>5, Zenon DEF HolderForms

(* Frames that are thrown away are not used again.                         *)
LEMMA AdvanceFacts ==
  ASSUME NEW q \in Seq(Nat), NEW n \in 0 .. Len(q)
  PROVE  /\ Advance(q, n) \in Seq(Nat)
         /\ \A i \in 1 .. Len(Advance(q, n)) : /\ i + n \in 1 .. Len(q)
                                               /\ Advance(q, n)[i] = q[i + n]
<1>1. Len(q) \in Nat
  OBVIOUS
<1>2. Len(Advance(q, n)) = Len(q) - n
  BY <1>1 DEF Advance
<1>3. \A i \in 1 .. (Len(q) - n) : Advance(q, n)[i] = q[i + n] /\ i + n \in 1 .. Len(q)
  BY <1>1 DEF Advance
<1>. QED BY <1>2, <1>3, AdvanceKeeps

(* Frames that are left over stay apart when some are taken.               *)
LEMMA ApartAdvances ==
  ASSUME NEW spaces, NEW im, NEW q \in Seq(Nat), NEW X, NEW n \in 0 .. Len(q),
         Apart(spaces, im, q, X)
  PROVE  Apart(spaces, im, Advance(q, n), X)
<1>1. PICK z \in Seq(Nat) : /\ z = Advance(q, n)
                            /\ \A i \in 1 .. Len(z) : i + n \in 1 .. Len(q) /\ z[i] = q[i + n]
  BY AdvanceFacts
<1>2. Rising(z)
  <2>1. SUFFICES ASSUME NEW i \in 1 .. Len(z), NEW j \in 1 .. Len(z), i < j PROVE z[i] < z[j]
    BY DEF Rising
  <2>2. i + n < j + n
    BY <2>1
  <2>3. q[i + n] < q[j + n]
    BY <1>1, <2>2 DEF Apart, Rising
  <2>. QED BY <1>1, <2>3
<1>3. \A x : (\A i \in 1 .. Len(q) : x < q[i]) => \A i \in 1 .. Len(z) : x < z[i]
  BY <1>1
<1>. QED BY <1>1, <1>2, <1>3 DEF Apart

(* A frame in hand may be given up.                                        *)
LEMMA ApartLess ==
  ASSUME NEW spaces, NEW im, NEW q, NEW X, Apart(spaces, im, q, X)
  PROVE  Apart(spaces, im, q, {})
BY DEF Apart

(* allocate_frame: the frame is in hand.                                   *)
LEMMA FrameTaken ==
  ASSUME NEW spaces, NEW im, NEW q \in Seq(Nat), q # << >>, Apart(spaces, im, q, {})
  PROVE  /\ Apart(spaces, im, Advance(q, 1), {q[1]})
         /\ 1 \in 0 .. Len(q) /\ q[1] \in Nat
<1>1. Len(q) \in Nat /\ Len(q) >= 1
  BY EmptySeq
<1>2. 1 \in 0 .. Len(q) /\ 1 \in 1 .. Len(q) /\ q[1] \in Nat
  BY <1>1
<1>3. PICK z \in Seq(Nat) : /\ z = Advance(q, 1)
                            /\ \A i \in 1 .. Len(z) : i + 1 \in 1 .. Len(q) /\ z[i] = q[i + 1]
  BY <1>2, AdvanceFacts
<1>4. Apart(spaces, im, z, {})
  BY <1>2, <1>3, ApartAdvances
<1>5. \A i \in 1 .. Len(z) : q[1] < z[i]
  <2>1. SUFFICES ASSUME NEW i \in 1 .. Len(z) PROVE q[1] < z[i]
    OBVIOUS
  <2>2. 1 < i + 1
    OBVIOUS
  <2>. QED BY <1>2, <1>3, <2>2 DEF Apart, Rising
<1>6. \A a \in Holders(im, spaces) : FrameOf(spaces, a) # q[1]
  BY <1>2 DEF Apart
<1>. QED BY <1>2, <1>3, <1>4, <1>5, <1>6 DEF Apart

(* One map_to in one of the address spaces: the new tables take frames of  *)
(* the allocator, each its own; an own page takes the frame in hand.       *)
May(r, l, page, frame, own, Z) ==
  r.res = "Ok" => EntryOf(l, page) \cap own = {} \/ (l = 1 /\ frame \in Z)

CallIn(m, w, spaces, spaces2, im, q, l, page, frame, r, X, Y, Z) ==
  /\ m \in MemoryMaps /\ w \in Processes /\ Sound(spaces[w], m) /\ q \in Seq(UsableFrom(m, 1))
  /\ l \in 1 .. Levels /\ page \in Nat /\ frame \in Nat
  /\ r = map_to_level(spaces[w], q, l, page, frame)
  /\ Apart(spaces, im, q, X) /\ Y \subseteq X /\ Z \subseteq X /\ Y \cap Z = {}
  /\ May(r, l, page, frame, Own(im, w), Z)
  /\ \A v \in Processes : spaces2[v] = IF v = w THEN r.pt ELSE spaces[v]

(* A call of map_to takes its tables from the allocator, so they share no  *)
(* frame with what is there.                                               *)
LEMMA CallApart ==
  ASSUME NEW m, NEW w, NEW spaces, NEW spaces2, NEW im, NEW q, NEW l, NEW page, NEW frame, NEW r,
         NEW X, NEW Y, NEW Z,
         CallIn(m, w, spaces, spaces2, im, q, l, page, frame, r, X, Y, Z)
  PROVE  Apart(spaces2, im, r.fa, Y)
<1>. /\ m \in MemoryMaps /\ w \in Processes /\ Sound(spaces[w], m) /\ q \in Seq(UsableFrom(m, 1))
     /\ l \in 1 .. Levels /\ page \in Nat /\ frame \in Nat
     /\ r = map_to_level(spaces[w], q, l, page, frame)
     /\ Apart(spaces, im, q, X) /\ Y \subseteq X /\ Z \subseteq X /\ Y \cap Z = {}
     /\ May(r, l, page, frame, Own(im, w), Z)
     /\ \A v \in Processes : spaces2[v] = IF v = w THEN r.pt ELSE spaces[v]
  BY Zenon DEF CallIn
<1>1. q \in Seq(Nat) /\ Len(q) \in Nat
  BY FramesAreNumbers, SeqMonotonic
<1>2. MapDone(spaces[w], q, l, page, frame, r)
  BY LevelCall, Zenon
<1>3. PICK n \in 0 .. Len(q), outer \in Int :
        /\ r.fa = Advance(q, n)
        /\ \A x \in DOMAIN r.pt.tables :
             \/ x \in DOMAIN spaces[w].tables /\ r.pt.tables[x] = spaces[w].tables[x]
             \/ \E i \in 1 .. n :
                  x = TableOf(page * Covered(l), outer - i + 1) /\ r.pt.tables[x] = q[i]
  BY <1>2, Zenon DEF MapDone, TablesTaken
<1>4. \A i \in 1 .. n : i \in 1 .. Len(q) /\ q[i] \in Nat
  BY <1>1
<1>5. PICK z \in Seq(Nat) : /\ z = r.fa
                            /\ \A i \in 1 .. Len(z) : i + n \in 1 .. Len(q) /\ z[i] = q[i + n]
  BY <1>1, <1>3, AdvanceFacts
<1>. DEFINE Old(a)    == a \in Holders(im, spaces) /\ FrameOf(spaces2, a) = FrameOf(spaces, a)
            New(a, i) == /\ a = <<w, "table", TableOf(page * Covered(l), outer - i + 1)>>
                         /\ FrameOf(spaces2, a) = q[i]
            Mine(a)   == /\ a = <<w, "page", page>> /\ FrameOf(spaces2, a) = frame
                         /\ frame \in Z
<1>6. ASSUME NEW p \in Mapped(r.pt) \cap Own(im, w)
      PROVE  \/ p \in Mapped(spaces[w]) /\ r.pt.map[p] = spaces[w].map[p]
             \/ p = page /\ r.pt.map[p] = frame /\ frame \in Z
  <2>1. CASE p \in Mapped(spaces[w])
    BY <1>2, <2>1, Zenon DEF MapDone, Grows
  <2>2. CASE p \notin Mapped(spaces[w])
    <3>1. r.res = "Ok" /\ p \in EntryOf(l, page)
      BY <1>2, <1>6, <2>2 DEF MapDone, Mapped
    <3>2. l = 1 /\ frame \in Z
      BY <1>6, <3>1 DEF May
    <3>3. PageDone(spaces[w], q, page, frame, r)
      <4>1. r = map_to(spaces[w], q, page, frame)
        BY <3>2 DEF map_to
      <4>. QED BY <4>1, PageCall
    <3>. QED BY <1>6, <2>2, <3>1, <3>2, <3>3 DEF PageDone
  <2>. QED BY <2>1, <2>2
<1>f. HolderForms(im, spaces) /\ HolderForms(im, spaces2)
  BY HoldersAre, Zenon
<1>7. ASSUME NEW a \in Holders(im, spaces2)
      PROVE  Old(a) \/ (\E i \in 1 .. n : New(a, i)) \/ Mine(a)
  <2>1. PICK v \in Processes :
          \/ \E t \in DOMAIN spaces2[v].tables : a = <<v, "table", t>>
          \/ \E p \in Mapped(spaces2[v]) \cap Own(im, v) : a = <<v, "page", p>>
    BY <1>7, <1>f, Zenon DEF HolderForms
  <2>2. CASE v # w
    <3>1. spaces2[v] = spaces[v]
      BY <2>2
    <3>2. ASSUME NEW t \in DOMAIN spaces[v].tables, a = <<v, "table", t>> PROVE Old(a)
      <4>1. <<v, "table", t>> \in Holders(im, spaces)
        BY <1>f, Zenon DEF HolderForms
      <4>2. FrameOf(spaces2, <<v, "table", t>>) = FrameOf(spaces, <<v, "table", t>>)
        <5>1. /\ FrameOf(spaces2, <<v, "table", t>>) = spaces2[v].tables[t]
              /\ FrameOf(spaces, <<v, "table", t>>) = spaces[v].tables[t]
          BY <1>f, Zenon DEF HolderForms
        <5>. QED BY <3>1, <5>1
      <4>. QED BY <3>2, <4>1, <4>2
    <3>3. ASSUME NEW p \in Mapped(spaces[v]) \cap Own(im, v), a = <<v, "page", p>> PROVE Old(a)
      <4>1. <<v, "page", p>> \in Holders(im, spaces)
        BY <1>f, Zenon DEF HolderForms
      <4>2. FrameOf(spaces2, <<v, "page", p>>) = FrameOf(spaces, <<v, "page", p>>)
        <5>1. /\ FrameOf(spaces2, <<v, "page", p>>) = spaces2[v].map[p]
              /\ FrameOf(spaces, <<v, "page", p>>) = spaces[v].map[p]
          BY <1>f, Zenon DEF HolderForms
        <5>. QED BY <3>1, <5>1
      <4>. QED BY <3>3, <4>1, <4>2
    <3>. QED BY <2>1, <3>1, <3>2, <3>3, Zenon
  <2>3. CASE v = w
    <3>1. spaces2[w] = r.pt
      OBVIOUS
    <3>2. ASSUME NEW t \in DOMAIN r.pt.tables, a = <<w, "table", t>>
          PROVE  Old(a) \/ \E i \in 1 .. n : New(a, i)
      <4>0. /\ FrameOf(spaces2, <<w, "table", t>>) = spaces2[w].tables[t]
            /\ FrameOf(spaces, <<w, "table", t>>) = spaces[w].tables[t]
        BY <1>f, Zenon DEF HolderForms
      <4>1. FrameOf(spaces2, a) = r.pt.tables[t] /\ FrameOf(spaces, a) = spaces[w].tables[t]
        BY <3>1, <3>2, <4>0
      <4>2. CASE t \in DOMAIN spaces[w].tables /\ r.pt.tables[t] = spaces[w].tables[t]
        <5>1. a \in Holders(im, spaces)
          BY <3>2, <4>2, <1>f, Zenon DEF HolderForms
        <5>. QED BY <4>1, <4>2, <5>1, Zenon
      <4>3. CASE \E i \in 1 .. n :
                   t = TableOf(page * Covered(l), outer - i + 1) /\ r.pt.tables[t] = q[i]
        BY <3>2, <4>1, <4>3, Zenon
      <4>. QED BY <1>3, <3>2, <4>2, <4>3, Zenon
    <3>3. ASSUME NEW p \in Mapped(r.pt) \cap Own(im, w), a = <<w, "page", p>>
          PROVE  Old(a) \/ Mine(a)
      <4>0. /\ FrameOf(spaces2, <<w, "page", p>>) = spaces2[w].map[p]
            /\ FrameOf(spaces, <<w, "page", p>>) = spaces[w].map[p]
        BY <1>f, Zenon DEF HolderForms
      <4>1. FrameOf(spaces2, a) = r.pt.map[p] /\ FrameOf(spaces, a) = spaces[w].map[p]
        BY <3>1, <3>3, <4>0
      <4>2. CASE p \in Mapped(spaces[w]) /\ r.pt.map[p] = spaces[w].map[p]
        <5>1. p \in Mapped(spaces[w]) \cap Own(im, w)
          BY <3>3, <4>2
        <5>2. a \in Holders(im, spaces)
          BY <3>3, <5>1, <1>f, Zenon DEF HolderForms
        <5>. QED BY <4>1, <4>2, <5>2, Zenon
      <4>3. CASE p = page /\ r.pt.map[p] = frame /\ frame \in Z
        BY <3>3, <4>1, <4>3, Zenon
      <4>. QED BY <1>6, <3>3, <4>2, <4>3, Zenon
    <3>. QED BY <2>1, <2>3, <3>1, <3>2, <3>3, Zenon
  <2>. QED BY <2>2, <2>3
(* What is known of the frame of each kind.                                *)
<1>8. ASSUME NEW a, Old(a)
      PROVE  /\ a \in Holders(im, spaces) /\ FrameOf(spaces2, a) = FrameOf(spaces, a)
             /\ FrameOf(spaces2, a) \in Nat /\ FrameOf(spaces2, a) \notin X
             /\ \A i \in 1 .. Len(q) : FrameOf(spaces2, a) < q[i]
  BY <1>8 DEF Apart
<1>9. frame \in Z => \A i \in 1 .. Len(q) : frame < q[i]
  BY DEF Apart
<1>10. \A i, j \in 1 .. n : q[i] = q[j] => i = j
  <2>1. SUFFICES ASSUME NEW i \in 1 .. n, NEW j \in 1 .. n, q[i] = q[j] PROVE i = j
    OBVIOUS
  <2>2. /\ i < j => q[i] < q[j]
        /\ j < i => q[j] < q[i]
    BY <1>4 DEF Apart, Rising
  <2>. QED BY <1>4, <2>1, <2>2
<1>11. ASSUME NEW a \in Holders(im, spaces2), NEW b \in Holders(im, spaces2),
              FrameOf(spaces2, a) = FrameOf(spaces2, b)
       PROVE  a = b
  <2>1. CASE Old(a) /\ Old(b)
    BY <1>8, <1>11, <2>1 DEF Apart
  <2>2. ASSUME NEW c, NEW d, Old(c), NEW i \in 1 .. n, New(d, i),
               FrameOf(spaces2, c) = FrameOf(spaces2, d)
        PROVE  FALSE
    <3>1. FrameOf(spaces2, c) = q[i]
      BY <2>2
    <3>2. FrameOf(spaces2, c) < q[i]
      BY <1>4, <1>8, <2>2
    <3>. QED BY <1>4, <3>1, <3>2
  <2>3. ASSUME NEW c, NEW d, Old(c), Mine(d), FrameOf(spaces2, c) = FrameOf(spaces2, d)
        PROVE  FALSE
    BY <1>8, <2>3
  <2>4. ASSUME NEW c, NEW d, Mine(c), NEW i \in 1 .. n, New(d, i),
               FrameOf(spaces2, c) = FrameOf(spaces2, d)
        PROVE  FALSE
    BY <1>4, <1>9, <2>4
  <2>5. ASSUME NEW i \in 1 .. n, NEW j \in 1 .. n, New(a, i), New(b, j) PROVE a = b
    BY <1>10, <1>11, <2>5
  <2>6. CASE Mine(a) /\ Mine(b)
    BY <2>6
  <2>. HIDE DEF Old, New, Mine
  <2>. QED BY <1>7, <1>11, <2>1, <2>2, <2>3, <2>4, <2>5, <2>6, Zenon
<1>12. ASSUME NEW a \in Holders(im, spaces2)
       PROVE  /\ FrameOf(spaces2, a) \in Nat /\ FrameOf(spaces2, a) \notin Y
              /\ \A i \in 1 .. Len(z) : FrameOf(spaces2, a) < z[i]
  <2>1. CASE Old(a)
    BY <1>5, <1>8, <2>1
  <2>2. ASSUME NEW i \in 1 .. n, New(a, i)
        PROVE  /\ FrameOf(spaces2, a) \in Nat /\ FrameOf(spaces2, a) \notin Y
               /\ \A j \in 1 .. Len(z) : FrameOf(spaces2, a) < z[j]
    <3>1. FrameOf(spaces2, a) = q[i] /\ q[i] \in Nat /\ i \in 1 .. Len(q)
      BY <1>4, <2>2
    <3>2. q[i] \notin Y
      BY <3>1 DEF Apart
    <3>3. \A j \in 1 .. Len(z) : i < j + n
      BY <1>5
    <3>4. \A j \in 1 .. Len(z) : q[i] < q[j + n]
      BY <1>5, <3>1, <3>3 DEF Apart, Rising
    <3>. QED BY <1>5, <3>1, <3>2, <3>4
  <2>3. CASE Mine(a)
    BY <1>5, <1>9, <2>3
  <2>. HIDE DEF Old, New, Mine
  <2>. QED BY <1>7, <1>12, <2>1, <2>2, <2>3, Zenon
<1>13. Apart(spaces, im, z, X)
  BY <1>1, <1>3, <1>5, ApartAdvances
<1>. QED BY <1>5, <1>11, <1>12, <1>13 DEF Apart

(* The layout, as it keeps own pages apart from the others.                *)
(* Regions number by number, as the assumption sets them apart.            *)
LEMMA RegionFacts ==
  ASSUME NEW m \in MemoryMaps, NEW im \in Images, NEW w \in {"kernel", "driver"}
  PROVE  /\ w = "kernel" =>
              /\ Len(Regions(m, im, w)) = 7
              /\ Regions(m, im, w)[1] = WindowPages(m)
              /\ Regions(m, im, w)[2] = StackLow .. StackHigh
              /\ Regions(m, im, w)[3]
                   = LoaderCodeOf(m).start .. (LoaderCodeOf(m).start + LoaderCodeOf(m).size)
              /\ Regions(m, im, w)[4] = KStackLow .. KStackHigh
              /\ Regions(m, im, w)[5] = {ApicPage}
              /\ Regions(m, im, w)[6] = SegmentsOf(im["kernel"].headers)
              /\ Regions(m, im, w)[7] = heap_range
         /\ w = "driver" =>
              /\ Len(Regions(m, im, w)) = 4
              /\ Regions(m, im, w)[1] = WindowPages(m)
              /\ Regions(m, im, w)[2] = StackLow .. StackHigh
              /\ Regions(m, im, w)[3] = {0}
              /\ Regions(m, im, w)[4] = SegmentsOf(im["kernel"].headers)
         /\ \A i, j \in 1 .. Len(Regions(m, im, w)) :
              i # j => Regions(m, im, w)[i] \cap Regions(m, im, w)[j] = {}
<1>1. w = "kernel" => Regions(m, im, w) =
        << WindowPages(m), StackLow .. StackHigh,
           LoaderCodeOf(m).start .. (LoaderCodeOf(m).start + LoaderCodeOf(m).size),
           KStackLow .. KStackHigh, {ApicPage}, SegmentsOf(im["kernel"].headers), heap_range >>
  BY DEF Regions
<1>2. w = "driver" => Regions(m, im, w) =
        << WindowPages(m), StackLow .. StackHigh, {0}, SegmentsOf(im["kernel"].headers) >>
  BY DEF Regions
<1>3. PICK R : R = Regions(m, im, w)
  OBVIOUS
<1>4. \A i, j \in 1 .. Len(R) : i < j => R[i] \cap R[j] = {}
  BY <1>3, RegionsAssumption, Zenon
<1>5. Len(R) \in Nat
  BY <1>1, <1>2, <1>3
<1>6. \A i, j \in 1 .. Len(R) : i # j => R[i] \cap R[j] = {}
  <2>1. SUFFICES ASSUME NEW i \in 1 .. Len(R), NEW j \in 1 .. Len(R), i # j
                 PROVE  R[i] \cap R[j] = {}
    OBVIOUS
  <2>2. i < j \/ j < i
    BY <1>5, <2>1
  <2>3. R[i] \cap R[j] = {} \/ R[j] \cap R[i] = {}
    BY <1>4, <2>2, Zenon
  <2>. QED BY <2>3
<1>7. \A i, j \in 1 .. Len(Regions(m, im, w)) :
        i # j => Regions(m, im, w)[i] \cap Regions(m, im, w)[j] = {}
  BY <1>3, <1>6, Zenon
<1>8. CASE w = "kernel"
  <2>1. w # "driver"
    BY <1>8
  <2>. QED BY <1>1, <1>7, <1>8, <2>1
<1>9. CASE w = "driver"
  <2>1. w # "kernel"
    BY <1>9
  <2>. QED BY <1>2, <1>7, <1>9, <2>1
<1>. QED BY <1>8, <1>9

(* The regions of the kernel and of the driver do not meet.                *)
LEMMA RegionsApart ==
  ASSUME NEW m \in MemoryMaps, NEW im \in Images
  PROVE  /\ \A p \in Others(m) \cup heap_range :
              p \notin StackLow .. StackHigh /\ p \notin SegmentsOf(im["kernel"].headers)
         /\ \A p \in WindowPages(m) :
              p \notin StackLow .. StackHigh /\ p \notin SegmentsOf(im["kernel"].headers)
         /\ 0 \notin StackLow .. StackHigh
         /\ \A p \in StackLow .. StackHigh : p \notin SegmentsOf(im["kernel"].headers)
<1>1. PICK W, S, C, K, A, G, H :
        /\ W = WindowPages(m) /\ S = StackLow .. StackHigh
        /\ C = LoaderCodeOf(m).start .. (LoaderCodeOf(m).start + LoaderCodeOf(m).size)
        /\ K = KStackLow .. KStackHigh /\ A = {ApicPage}
        /\ G = SegmentsOf(im["kernel"].headers) /\ H = heap_range
  OBVIOUS
<1>2. PICK R : R = Regions(m, im, "kernel")
  OBVIOUS
<1>3. /\ Len(R) = 7 /\ R[1] = W /\ R[2] = S /\ R[3] = C /\ R[4] = K /\ R[5] = A
      /\ R[6] = G /\ R[7] = H
      /\ \A i, j \in 1 .. Len(R) : i # j => R[i] \cap R[j] = {}
  BY <1>1, <1>2, RegionFacts, Zenon
<1>4. /\ W \cap S = {} /\ W \cap G = {} /\ C \cap S = {} /\ C \cap G = {} /\ K \cap S = {}
      /\ K \cap G = {} /\ A \cap S = {} /\ A \cap G = {} /\ H \cap S = {} /\ H \cap G = {}
      /\ S \cap G = {}
  BY <1>3
<1>5. PICK D : D = Regions(m, im, "driver")
  OBVIOUS
<1>6. /\ Len(D) = 4 /\ D[2] = S /\ D[3] = {0}
      /\ \A i, j \in 1 .. Len(D) : i # j => D[i] \cap D[j] = {}
  BY <1>1, <1>5, RegionFacts, Zenon
<1>7. 0 \notin S
  BY <1>6
<1>8. Others(m) = C \cup K \cup A
  BY <1>1 DEF Others
<1>. QED BY <1>1, <1>4, <1>7, <1>8

(* The pages that do not stand on frames of their own.                     *)
LEMMA OwnFacts ==
  ASSUME NEW m \in MemoryMaps, NEW im \in Images
  PROVE  /\ \A p \in Physical(m) \cup Others(m) \cup heap_range \cup {IoApicPage, IoApicPage + 1} :
              p \notin Own(im, "kernel")
         /\ \A p \in {0} \cup SegmentsOf(im["kernel"].headers) : p \notin Own(im, "driver")
         /\ \A w \in {"kernel", "driver"} :
              \A n \in 0 .. (get_mem_size(m) \div Covered(Levels)) :
                EntryOf(Levels, PAGE_TABLE_OFFSET + n) \cap Own(im, w) = {}
<1>0. /\ Own(im, "kernel") = (StackLow .. StackHigh) \cup SegmentsOf(im["kernel"].headers)
      /\ Own(im, "driver") = (StackLow .. StackHigh) \cup
           (SegmentsOf(im["driver"].headers) \ SegmentsOf(im["kernel"].headers))
  BY DEF Own
<1>1. \A p \in Physical(m) : p \notin Own(im, "kernel")
  BY <1>0, LayoutFacts
<1>2. \A p \in Others(m) \cup heap_range : p \notin Own(im, "kernel")
  BY <1>0, RegionsApart
<1>3. \A p \in {IoApicPage, IoApicPage + 1} : p \notin Own(im, "kernel")
  <2>1. {IoApicPage, IoApicPage + 1} \cap Own(im, "kernel") = {}
    BY RegionsAssumption, Zenon
  <2>. QED BY <2>1
<1>4. ({0} \cup WindowPages(m)) \cap SegmentsOf(im["driver"].headers) = {}
  BY RegionsAssumption, Zenon
<1>5. \A p \in {0} \cup SegmentsOf(im["kernel"].headers) : p \notin Own(im, "driver")
  BY <1>0, <1>4, RegionsApart
<1>6. \A w \in {"kernel", "driver"} : WindowPages(m) \cap Own(im, w) = {}
  BY <1>0, <1>4, RegionsApart
<1>7. \A n \in 0 .. (get_mem_size(m) \div Covered(Levels)) :
        EntryOf(Levels, PAGE_TABLE_OFFSET + n) \subseteq WindowPages(m)
  BY Zenon DEF EntryOf, WindowPages
<1>8. \A w \in {"kernel", "driver"} :
        \A n \in 0 .. (get_mem_size(m) \div Covered(Levels)) :
          EntryOf(Levels, PAGE_TABLE_OFFSET + n) \cap Own(im, w) = {}
  BY <1>6, <1>7
<1>. QED BY <1>1, <1>2, <1>3, <1>5, <1>8

(* A small page covers itself.                                             *)
LEMMA OnePage ==
  ASSUME NEW page \in Nat
  PROVE  1 \in 1 .. Levels /\ EntryOf(1, page) = {page}
<1>1. 1 \in 1 .. Levels
  BY TableAssumption
<1>2. Covered(1) = 1
  BY <1>1, CoveredFacts
<1>. QED BY <1>1, <1>2 DEF EntryOf

(* A call that the state takes over, or whose frames are thrown away.      *)
Calls(w, q, X, l, page, frame, r) ==
  /\ w \in Processes /\ q \in Seq(UsableFrom(memory_map, 1)) /\ Apart(pt, image, q, X)
  /\ l \in 1 .. Levels /\ page \in Nat /\ frame \in Nat
  /\ r = map_to_level(pt[w], q, l, page, frame)

(* A step whose only call is a map_to keeps frames exclusive.              *)
LEMMA CallStep ==
  ASSUME Types, NEW w, NEW q, NEW X, NEW l, NEW page, NEW frame, NEW r,
         Calls(w, q, X, l, page, frame, r)
  PROVE  /\ Apart(pt, image, r.fa, {})
         /\ /\ pt' = [pt EXCEPT ![w] = r.pt] /\ fa' = r.fa /\ image' = image
            /\ May(r, l, page, frame, Own(image, w), X)
            => Exclusive'
<1>. /\ w \in Processes /\ q \in Seq(UsableFrom(memory_map, 1)) /\ Apart(pt, image, q, X)
     /\ l \in 1 .. Levels /\ page \in Nat /\ frame \in Nat
     /\ r = map_to_level(pt[w], q, l, page, frame)
  BY Zenon DEF Calls
<1>1. /\ memory_map \in MemoryMaps /\ Sound(pt[w], memory_map) /\ DOMAIN pt = Processes
      /\ UsableFrom(memory_map, 1) \subseteq Nat
  BY FramesAreNumbers DEF Types
<1>2. Apart(pt, image, r.fa, {})
  <2>1. MapDone(pt[w], q, l, page, frame, r)
    BY <1>1, LevelCall, Zenon
  <2>2. PICK n \in 0 .. Len(q) : r.fa = Advance(q, n)
    BY <2>1, Zenon DEF MapDone
  <2>3. q \in Seq(Nat)
    BY <1>1, SeqMonotonic
  <2>. QED BY <2>2, <2>3, ApartAdvances, ApartLess
<1>3. ASSUME pt' = [pt EXCEPT ![w] = r.pt], fa' = r.fa, image' = image,
             May(r, l, page, frame, Own(image, w), X)
      PROVE  Exclusive'
  <2>1. PICK P, P2, im, m, Y : P = pt /\ P2 = pt' /\ im = image /\ m = memory_map /\ Y = {}
    OBVIOUS
  <2>2. \A v \in Processes : P2[v] = IF v = w THEN r.pt ELSE P[v]
    BY <1>1, <1>3, <2>1
  <2>3. CallIn(m, w, P, P2, im, q, l, page, frame, r, X, Y, X)
    <3>1. /\ Apart(P, im, q, X) /\ May(r, l, page, frame, Own(im, w), X) /\ m \in MemoryMaps
          /\ Sound(P[w], m) /\ q \in Seq(UsableFrom(m, 1))
          /\ r = map_to_level(P[w], q, l, page, frame)
      BY <1>1, <1>3, <2>1, Zenon
    <3>2. Y \subseteq X /\ X \subseteq X /\ Y \cap X = {}
      BY <2>1
    <3>. QED BY <2>2, <3>1, <3>2, Zenon DEF CallIn
  <2>4. Apart(P2, im, r.fa, Y)
    BY <2>3, CallApart, Zenon
  <2>5. Apart(pt', image', fa', {})
    BY <1>3, <2>1, <2>4
  <2>. QED BY <2>5 DEF Exclusive
<1>. QED BY <1>2, <1>3

(* So does a step that touches no table and no frame,                      *)
LEMMA ExclusiveSame ==
  ASSUME Exclusive, pt' = pt, image' = image, fa' = fa
  PROVE  Exclusive'
BY DEF Exclusive, Apart, Holders, FrameOf, Rising

(* and one that stops.                                                     *)
LEMMA ExclusivePanic ==
  ASSUME NEW q, Apart(pt, image, q, {}), Panic(q)
  PROVE  Exclusive'
<1>1. pt' = pt /\ image' = image /\ fa' = q
  BY DEF Panic, const
<1>2. Apart(pt', image', fa', {})
  BY <1>1
<1>. QED BY <1>2 DEF Exclusive

(* The ranges with given frames keep off the pages with frames of their own. *)
LEMMA FixedOwn ==
  ASSUME Types, building \in {"kernel", "driver"}, s <= Len(FixedRanges(building)),
         NEW r, r = FixedRanges(building)[s], NEW page, page = r.lo + k, page <= r.hi,
         r.kind = "at"
  PROVE  EntryOf(r.level, page) \cap Own(image, building) = {}
<1>1. /\ s \in Nat \ {0} /\ k \in Nat /\ memory_map \in MemoryMaps /\ image \in Images
      /\ KStackLow \in Nat /\ KStackHigh \in Nat /\ ApicPage \in Nat
  BY BuildAssumption DEF Types
<1>2. PICK o \in Nat, z \in Nat : /\ o = PAGE_TABLE_OFFSET
                                  /\ z = get_mem_size(memory_map) \div Covered(Levels)
  BY LargePagesNat
<1>3. CASE r = Window
  <2>1. r.level = Levels /\ r.lo = o /\ r.hi = o + z
    BY <1>2, <1>3 DEF Window, Span
  <2>2. k \in 0 .. z /\ page = PAGE_TABLE_OFFSET + k
    BY <1>1, <1>2, <2>1
  <2>3. \A n \in 0 .. z : EntryOf(Levels, PAGE_TABLE_OFFSET + n) \cap Own(image, building) = {}
    BY <1>1, <1>2, OwnFacts
  <2>. QED BY <2>1, <2>2, <2>3
<1>4. CASE r # Window
  <2>1. r # Stack
    BY DEF Stack, Span
  <2>2. r.level = 1 /\ page \in Nat /\ page \notin Own(image, building)
    <3>1. ASSUME NEW lo \in Nat, NEW hi \in Nat, r = Identity(lo, hi)
          PROVE  r.level = 1 /\ page \in lo .. hi
      <4>1. r.level = 1 /\ r.lo = lo /\ r.hi = hi
        BY <3>1 DEF Identity, Span
      <4>. QED BY <1>1, <4>1
    <3>2. CASE building = "kernel"
      <4>1. PICK a \in Nat, e \in Nat : /\ a = LoaderCodeOf(memory_map).start
                                        /\ e = a + LoaderCodeOf(memory_map).size
        BY <1>1, LoaderCodeFacts
      <4>2. \/ r = Identity(a, e) \/ r = Identity(KStackLow, KStackHigh)
            \/ r = Identity(ApicPage, ApicPage)
        <5>1. r = KernelRanges[s] /\ s \in 1 .. 5
          BY <1>1, <3>2 DEF FixedRanges, KernelRanges
        <5>2. s = 1 \/ s = 2 \/ s = 3 \/ s = 4 \/ s = 5
          BY <5>1
        <5>. QED BY <1>4, <2>1, <4>1, <5>1, <5>2 DEF KernelRanges, LoaderCode
      <4>3. r.level = 1 /\ page \in Nat /\ page \in Others(memory_map)
        BY <1>1, <3>1, <4>1, <4>2 DEF Others
      <4>. QED BY <1>1, <3>2, <4>3, OwnFacts
    <3>3. CASE building = "driver"
      <4>1. r = Identity(0, 0)
        <5>1. r = DriverRanges[s] /\ s \in 1 .. 3
          BY <1>1, <3>3 DEF FixedRanges, DriverRanges
        <5>2. s = 1 \/ s = 2 \/ s = 3
          BY <5>1
        <5>. QED BY <1>4, <2>1, <5>1, <5>2 DEF DriverRanges
      <4>2. r.level = 1 /\ page = 0
        BY <3>1, <4>1
      <4>. QED BY <1>1, <3>3, <4>2, OwnFacts
    <3>. QED BY <3>2, <3>3
  <2>. QED BY <2>2, OnePage
<1>. QED BY <1>3, <1>4

(* One page of a fixed range keeps frames exclusive.                       *)
LEMMA FixedExclusive ==
  ASSUME IInv, Exclusive, map_fixed
  PROVE  Exclusive'
<1>1. PICK r, page, fresh, from, frame, m :
        /\ r = FixedRanges(building)[s] /\ page = r.lo + k /\ fresh = (r.kind = "fresh")
        /\ from = IF fresh THEN Advance(fa, 1) ELSE fa
        /\ frame = IF fresh THEN fa[1] ELSE page - r.base
        /\ m = map_to_level(pt[building], from, r.level, page, frame)
  OBVIOUS
<1>2. /\ pc = "fixed" /\ s <= Len(FixedRanges(building)) /\ page <= r.hi
      /\ IF fresh /\ fa = << >> THEN Panic(fa)
         ELSE IF m.res # "Ok" THEN Panic(m.fa) ELSE MapNext(m, from)
  BY <1>1, Zenon DEF map_fixed
<1>3. /\ building \in {"kernel", "driver"} /\ Types /\ memory_map \in MemoryMaps /\ image \in Images
      /\ fa \in Seq(UsableFrom(memory_map, 1)) /\ k \in Nat /\ building \in Processes
  BY <1>2 DEF IInv, Stages, Types, Loading, Processes
<1>4. CASE fresh /\ fa = << >>
  BY <1>2, <1>4, ExclusivePanic DEF Exclusive
<1>5. CASE ~(fresh /\ fa = << >>)
  <2>1. /\ page \in Nat
        /\ \/ /\ r.kind = "at" /\ r.level = Levels /\ page - r.base \in Nat
              /\ PAGE_TABLE_OFFSET <= page
           \/ r.kind = "fresh" /\ r.level = 1 /\ page \in StackLow .. StackHigh
           \/ /\ r.kind = "at" /\ r.level = 1 /\ page - r.base = page
              /\ building = "kernel" => page \in Others(memory_map)
    BY <1>1, <1>2, <1>3, FixedRange
  <2>2. PICK l \in 1 .. Levels : l = r.level
    BY <2>1, TableAssumption
  <2>3. UsableFrom(memory_map, 1) \subseteq Nat /\ fa \in Seq(Nat)
    BY <1>3, FramesAreNumbers, SeqMonotonic
  <2>4. PICK X : /\ X = IF fresh THEN {frame} ELSE {}
                 /\ Apart(pt, image, from, X) /\ frame \in Nat
                 /\ from \in Seq(UsableFrom(memory_map, 1))
    <3>1. CASE fresh
      <4>1. /\ Apart(pt, image, Advance(fa, 1), {fa[1]})
            /\ 1 \in 0 .. Len(fa) /\ fa[1] \in Nat
        BY <1>5, <2>3, <3>1, FrameTaken DEF Exclusive
      <4>2. from = Advance(fa, 1) /\ frame = fa[1]
        BY <1>1, <3>1
      <4>3. Advance(fa, 1) \in Seq(UsableFrom(memory_map, 1))
        BY <1>3, <4>1, AdvanceKeeps
      <4>. QED BY <3>1, <4>1, <4>2, <4>3
    <3>2. CASE ~fresh
      BY <1>1, <1>3, <2>1, <3>2 DEF Exclusive
    <3>. QED BY <3>1, <3>2
  <2>5. May(m, l, page, frame, Own(image, building), X)
    <3>1. CASE fresh
      BY <1>1, <2>1, <2>2, <2>4, <3>1 DEF May
    <3>2. CASE ~fresh
      <4>1. EntryOf(l, page) \cap Own(image, building) = {}
        BY <1>1, <1>2, <1>3, <2>1, <2>2, <3>2, FixedOwn
      <4>. QED BY <4>1 DEF May
    <3>. QED BY <3>1, <3>2
  <2>6. m = map_to_level(pt[building], from, l, page, frame)
    BY <1>1, <2>2
  <2>7. PICK w \in Processes : w = building
    BY <1>3
  <2>8. /\ Apart(pt, image, m.fa, {})
        /\ /\ pt' = [pt EXCEPT ![w] = m.pt] /\ fa' = m.fa /\ image' = image
           /\ May(m, l, page, frame, Own(image, w), X)
           => Exclusive'
    <3>1. Calls(w, from, X, l, page, frame, m)
      BY <1>3, <2>1, <2>2, <2>4, <2>6, <2>7, Zenon DEF Calls
    <3>. QED BY <1>3, <3>1, CallStep, Zenon
  <2>9. CASE m.res # "Ok"
    BY <1>2, <1>5, <2>8, <2>9, ExclusivePanic
  <2>10. CASE m.res = "Ok"
    BY <1>2, <1>5, <2>5, <2>7, <2>8, <2>10 DEF MapNext, const
  <2>. QED BY <2>9, <2>10
<1>. QED BY <1>4, <1>5

(* A small page that is given somebody's frame.                            *)
LEMMA GivenPage ==
  ASSUME Types, Exclusive, NEW w \in Processes, NEW page \in Nat, NEW frame \in Nat,
         NEW r, r = map_to(pt[w], fa, page, frame), page \notin Own(image, w)
  PROVE  /\ Apart(pt, image, r.fa, {})
         /\ pt' = [pt EXCEPT ![w] = r.pt] /\ fa' = r.fa /\ image' = image => Exclusive'
<1>1. PICK l \in 1 .. Levels : l = 1 /\ EntryOf(l, page) = {page}
  BY OnePage
<1>2. PICK X : X = {}
  OBVIOUS
<1>3. Calls(w, fa, X, l, page, frame, r)
  BY <1>1, <1>2 DEF Calls, Types, Exclusive, map_to
<1>4. May(r, l, page, frame, Own(image, w), X)
  BY <1>1 DEF May
<1>. QED BY <1>3, <1>4, CallStep, Zenon

(* A small page that gets a frame of the allocator.                        *)
LEMMA OwnPage ==
  ASSUME Types, Exclusive, fa # << >>, NEW w \in Processes, NEW page \in Nat,
         NEW r, r = map_to(pt[w], Advance(fa, 1), page, fa[1])
  PROVE  pt' = [pt EXCEPT ![w] = r.pt] /\ fa' = r.fa /\ image' = image => Exclusive'
<1>1. PICK l \in 1 .. Levels : l = 1
  BY OnePage
<1>2. memory_map \in MemoryMaps /\ fa \in Seq(UsableFrom(memory_map, 1)) /\ fa \in Seq(Nat)
  BY FramesAreNumbers, SeqMonotonic DEF Types
<1>3. PICK q, frame, X : q = Advance(fa, 1) /\ frame = fa[1] /\ X = {frame}
  OBVIOUS
<1>4. Apart(pt, image, q, X) /\ 1 \in 0 .. Len(fa) /\ frame \in Nat
  BY <1>2, <1>3, FrameTaken DEF Exclusive
<1>5. q \in Seq(UsableFrom(memory_map, 1))
  BY <1>2, <1>3, <1>4, AdvanceKeeps
<1>6. r = map_to_level(pt[w], q, l, page, frame)
  BY <1>1, <1>3 DEF map_to
<1>7. Calls(w, q, X, l, page, frame, r)
  BY <1>4, <1>5, <1>6, Zenon DEF Calls
<1>8. May(r, l, page, frame, Own(image, w), X)
  BY <1>1, <1>3 DEF May
<1>. QED BY <1>7, <1>8, CallStep, Zenon

(* One page of the loader's heap keeps frames exclusive.                   *)
LEMMA HeapExclusive ==
  ASSUME IInv, Exclusive, init_heap_page
  PROVE  Exclusive'
<1>1. Types /\ building = "loader" /\ k \in Nat /\ "loader" \in Processes
  BY DEF IInv, Stages, Types, init_heap_page, Loading, Processes
<1>2. CASE fa = << >>
  BY <1>2, ExclusivePanic DEF init_heap_page, Exclusive
<1>3. CASE fa # << >>
  <2>1. PICK page, m : /\ page = HeapStartPage + k
                       /\ m = map_to(pt["loader"], Advance(fa, 1), page, fa[1])
    OBVIOUS
  <2>2. pt' = [pt EXCEPT !["loader"] = m.pt] /\ fa' = m.fa /\ image' = image
    BY <1>1, <1>3, <2>1 DEF init_heap_page, MapNext, HeapPage, const
  <2>3. page \in Nat
    BY <1>1, <2>1, HeapNumbers
  <2>. QED BY <1>1, <1>3, <2>1, <2>2, <2>3, OwnPage
<1>. QED BY <1>2, <1>3

(* A page of the kernel shown to the driver is no page of its own.         *)
LEMMA KernelPageExclusive ==
  ASSUME IInv, Exclusive, map_kernel_page
  PROVE  Exclusive'
<1>1. PICK h, page, frame, m :
        /\ h = Headers("kernel")[s] /\ page = SegPage(h, k)
        /\ frame = translate_page(pt["kernel"], page)
        /\ m = map_to(pt["driver"], fa, page, frame)
  OBVIOUS
<1>2. /\ pc = "kernel_pages" /\ s <= Len(Headers("kernel")) /\ h.load /\ k < SegPages(h)
      /\ IF page \notin Mapped(pt["kernel"]) THEN Panic(fa)
         ELSE IF m.res # "Ok" THEN Panic(m.fa) ELSE MapNext(m, fa)
  BY <1>1, Zenon DEF map_kernel_page
<1>3. /\ building = "driver" /\ Types /\ "driver" \in Processes
      /\ Sound(pt["kernel"], memory_map) /\ memory_map \in MemoryMaps /\ image \in Images
      /\ k \in Nat /\ s \in Nat \ {0}
  BY <1>2 DEF IInv, Stages, Types, Loading, Processes
<1>4. CASE page \notin Mapped(pt["kernel"])
  BY <1>2, <1>4, ExclusivePanic DEF Exclusive
<1>5. CASE page \in Mapped(pt["kernel"])
  <2>1. page \in Nat /\ frame \in Nat
    BY <1>1, <1>3, <1>5 DEF Sound, PtOK, translate_page, Mapped
  <2>2. page \in SegmentsOf(image["kernel"].headers)
    <3>1. s \in 1 .. Len(Headers("kernel")) /\ SegPages(h) \in Int
      BY <1>1, <1>2, <1>3, HeaderFacts
    <3>2. k \in 0 .. (SegPages(h) - 1)
      BY <1>2, <1>3, <3>1
    <3>. QED BY <1>1, <1>2, <3>1, <3>2 DEF SegmentsOf, Headers
  <2>3. page \notin Own(image, "driver")
    BY <1>3, <2>2, OwnFacts
  <2>4. /\ Apart(pt, image, m.fa, {})
        /\ pt' = [pt EXCEPT !["driver"] = m.pt] /\ fa' = m.fa /\ image' = image => Exclusive'
    BY <1>1, <1>3, <2>1, <2>3, GivenPage
  <2>5. CASE m.res # "Ok"
    BY <1>2, <1>5, <2>4, <2>5, ExclusivePanic
  <2>6. CASE m.res = "Ok"
    BY <1>2, <1>3, <1>5, <2>4, <2>6 DEF MapNext, const
  <2>. QED BY <2>5, <2>6
<1>. QED BY <1>4, <1>5

(* A page of a segment.  For the driver the frame is in hand while the     *)
(* kernel's table gets its page.                                           *)
LEMMA LoadExclusive ==
  ASSUME IInv, Exclusive, load_page
  PROVE  Exclusive'
<1>1. /\ building \in {"kernel", "driver"} /\ Types /\ pc = "segments"
      /\ Sound(pt["kernel"], memory_map) /\ Sound(pt["driver"], memory_map) /\ DOMAIN pt = Processes
      /\ memory_map \in MemoryMaps /\ image \in Images /\ fa \in Seq(UsableFrom(memory_map, 1))
      /\ k \in Nat /\ s \in Nat \ {0} /\ fa \in Seq(Nat)
  BY FramesAreNumbers, SeqMonotonic DEF load_page, IInv, Stages, Types, Loading, Processes
<1>2. CASE fa = << >>
  BY <1>2, ExclusivePanic DEF load_page, Exclusive
<1>3. CASE fa # << >>
  <2>1. PICK h, frame, from, cur, page, m : LoadStep(h, frame, from, cur, page, m)
    BY <1>3, LoadedPage
  <2>2. page \in Nat /\ frame = fa[1] /\ from = Advance(fa, 1) /\ image' = image
    <3>1. h = Headers(building)[s] /\ s <= Len(Headers(building)) /\ page = SegPage(h, k)
      BY <2>1, Zenon DEF LoadStep
    <3>2. s \in 1 .. Len(Headers(building))
      BY <1>1, <3>1, HeaderFacts
    <3>. QED BY <1>1, <2>1, <3>1, <3>2, HeaderFacts DEF LoadStep
  <2>3. CASE building = "kernel"
    <3>1. cur.fa = from /\ m = map_to(pt["kernel"], from, page, frame)
      BY <2>1, <2>3 DEF LoadStep, CurrentMap
    <3>2. pt' = [pt EXCEPT !["kernel"] = m.pt] /\ fa' = m.fa
      BY <2>1, <2>3 DEF LoadStep
    <3>3. "kernel" \in Processes
      BY DEF Processes
    <3>. QED BY <1>1, <1>3, <2>2, <3>1, <3>2, <3>3, OwnPage
  <2>4. CASE building = "driver"
    <3>1. /\ cur = map_to(pt["kernel"], from, frame, frame)
          /\ m = map_to(pt["driver"], cur.fa, page, frame)
      BY <2>1, <2>4 DEF LoadStep, CurrentMap, identity_map
    <3>2. Apart(pt, image, from, {frame}) /\ 1 \in 0 .. Len(fa) /\ frame \in Nat
      BY <1>1, <1>3, <2>2, FrameTaken DEF Exclusive
    <3>3. from \in Seq(UsableFrom(memory_map, 1)) /\ frame \in UsableFrom(memory_map, 1)
      <4>1. 1 \in 1 .. Len(fa)
        BY <1>1, <1>3, <3>2, EmptySeq
      <4>. QED BY <1>1, <2>2, <3>2, <4>1, AdvanceKeeps
    <3>4. PICK P2, X, Z, l : /\ P2 = [pt EXCEPT !["kernel"] = cur.pt] /\ X = {frame} /\ Z = {}
                             /\ l = 1 /\ l \in 1 .. Levels
      BY OnePage
    <3>5. CallIn(memory_map, "kernel", pt, P2, image, from, l, frame, frame, cur, X, X, Z)
      <4>1. frame \notin Own(image, "kernel")
        BY <1>1, <3>3, OwnFacts DEF Physical
      <4>2. May(cur, l, frame, frame, Own(image, "kernel"), Z)
        BY <3>2, <3>4, <4>1, OnePage DEF May
      <4>3. \A v \in Processes : P2[v] = IF v = "kernel" THEN cur.pt ELSE pt[v]
        BY <1>1, <3>4
      <4>4. X \subseteq X /\ Z \subseteq X /\ X \cap Z = {} /\ "kernel" \in Processes
        BY <3>4 DEF Processes
      <4>5. cur = map_to_level(pt["kernel"], from, l, frame, frame) /\ Apart(pt, image, from, X)
        BY <3>1, <3>2, <3>4 DEF map_to
      <4>. QED BY <1>1, <3>2, <3>3, <3>4, <4>2, <4>3, <4>4, <4>5, Zenon DEF CallIn
    <3>6. Apart(P2, image, cur.fa, X)
      BY <3>5, CallApart, Zenon
    <3>7. cur.fa \in Seq(UsableFrom(memory_map, 1))
      BY <1>1, <3>1, <3>2, <3>3, PageCall DEF LevelDone
    <3>8. CASE pt' = P2 /\ fa' = cur.fa
      <4>1. Apart(P2, image, cur.fa, {})
        BY <3>6, ApartLess, Zenon
      <4>2. Apart(pt', image', fa', {})
        BY <2>2, <3>8, <4>1
      <4>. QED BY <4>2 DEF Exclusive
    <3>9. CASE pt' = [pt EXCEPT !["kernel"] = cur.pt, !["driver"] = m.pt] /\ fa' = m.fa
      <4>1. PICK P3, Y : P3 = pt' /\ Y = {}
        OBVIOUS
      <4>2. /\ P2["driver"] = pt["driver"] /\ "driver" \in Processes
            /\ \A v \in Processes : P3[v] = IF v = "driver" THEN m.pt ELSE P2[v]
        BY <1>1, <3>4, <3>9, <4>1 DEF Processes
      <4>3. CallIn(memory_map, "driver", P2, P3, image, cur.fa, l, page, frame, m, X, Y, X)
        <5>1. May(m, l, page, frame, Own(image, "driver"), X)
          BY <3>4 DEF May
        <5>2. Y \subseteq X /\ X \subseteq X /\ Y \cap X = {}
          BY <4>1
        <5>3. m = map_to_level(P2["driver"], cur.fa, l, page, frame) /\ Sound(P2["driver"], memory_map)
          BY <1>1, <3>1, <3>4, <4>2 DEF map_to
        <5>. QED BY <1>1, <2>2, <3>2, <3>4, <3>6, <3>7, <4>2, <5>1, <5>2, <5>3, Zenon DEF CallIn
      <4>4. Apart(P3, image, m.fa, Y)
        BY <4>3, CallApart, Zenon
      <4>5. Apart(pt', image', fa', {})
        BY <2>2, <3>9, <4>1, <4>4
      <4>. QED BY <4>5 DEF Exclusive
    <3>. QED BY <2>1, <2>4, <3>4, <3>8, <3>9 DEF LoadStep
  <2>. QED BY <1>1, <2>3, <2>4
<1>. QED BY <1>2, <1>3

(* The root table is mapped where no page of its own lies.                 *)
LEMMA RootExclusive ==
  ASSUME IInv, Exclusive, identity_map_root
  PROVE  Exclusive'
<1>1. PICK p, f, m : /\ p \in heap_range /\ f = pt["loader"].map[p]
                     /\ m = identity_map(pt["kernel"], fa, f)
                     /\ pt' = [pt EXCEPT !["kernel"] = m.pt] /\ fa' = m.fa /\ image' = image
  BY DEF identity_map_root, translate_page, const
<1>2. building = "kernel" /\ Types /\ "kernel" \in Processes
      /\ memory_map \in MemoryMaps /\ image \in Images
  BY DEF identity_map_root, IInv, Types, Processes
<1>3. f \in Physical(memory_map) /\ f \in Nat
  <2>1. f \in UsableFrom(memory_map, 1)
    BY <1>1, <1>2 DEF IInv, LoaderHeap
  <2>. QED BY <1>2, <2>1, FramesAreNumbers DEF Physical
<1>4. f \notin Own(image, "kernel") /\ m = map_to(pt["kernel"], fa, f, f)
  BY <1>1, <1>2, <1>3, OwnFacts DEF identity_map
<1>. QED BY <1>1, <1>2, <1>3, <1>4, GivenPage

(* So are the runtime services,                                            *)
LEMMA RuntimeExclusive ==
  ASSUME IInv, Exclusive, map_runtime_page
  PROVE  Exclusive'
<1>1. /\ pc = "runtime" /\ building = "kernel" /\ k \in Nat /\ k < Len(RuntimePages) /\ Types
      /\ "kernel" \in Processes /\ memory_map \in MemoryMaps /\ image \in Images
  BY DEF map_runtime_page, IInv, Stages, Types, Loading, Processes
<1>2. PICK f, m :
        /\ f = RuntimePages[k + 1] /\ m = identity_map(pt["kernel"], fa, f)
        /\ pt' = [pt EXCEPT !["kernel"] = m.pt] /\ fa' = m.fa /\ image' = image
  BY <1>1 DEF map_runtime_page, MapNext, const
<1>3. f \in Physical(memory_map) /\ f \in Nat
  <2>1. Len(RuntimePages) \in Nat
    BY RuntimeFacts DEF IInv
  <2>2. k + 1 \in 1 .. Len(RuntimePages)
    BY <1>1, <2>1
  <2>. QED BY <1>1, <1>2, <2>2, RuntimeFacts, FramesAreNumbers DEF Physical
<1>4. f \notin Own(image, "kernel") /\ m = map_to(pt["kernel"], fa, f, f)
  BY <1>1, <1>2, <1>3, OwnFacts DEF identity_map
<1>. QED BY <1>1, <1>2, <1>3, <1>4, GivenPage

(* the heap pages,                                                         *)
LEMMA CopyExclusive ==
  ASSUME IInv, Exclusive, copy_heap_page
  PROVE  Exclusive'
<1>1. /\ pc = "copy" /\ building = "kernel" /\ k \in Nat /\ k < HeapPages /\ Types
      /\ "kernel" \in Processes /\ "loader" \in Processes /\ memory_map \in MemoryMaps /\ image \in Images
      /\ Sound(pt["loader"], memory_map)
  BY DEF copy_heap_page, IInv, Stages, Types, Loading, Processes
<1>2. PICK page, frame, m :
        /\ page = HeapStartPage + k /\ frame = translate_page(pt["loader"], page)
        /\ m = map_to(pt["kernel"], fa, page, frame)
  OBVIOUS
<1>3. page \in heap_range /\ page \in Nat
  BY <1>1, <1>2, HeapNumbers DEF heap_range
<1>4. page \in Mapped(pt["loader"])
  BY <1>1, <1>3 DEF IInv, LoaderHeap
<1>5. frame \in Nat
  BY <1>1, <1>2, <1>4 DEF translate_page, Sound, PtOK, Mapped
<1>6. IF m.res # "Ok" THEN Panic(m.fa) ELSE MapNext(m, fa)
  BY <1>1, <1>2, <1>4, Zenon DEF copy_heap_page, HeapPage
<1>7. /\ Apart(pt, image, m.fa, {})
      /\ pt' = [pt EXCEPT !["kernel"] = m.pt] /\ fa' = m.fa /\ image' = image => Exclusive'
  BY <1>1, <1>2, <1>3, <1>5, OwnFacts, GivenPage
<1>8. CASE m.res # "Ok"
  BY <1>6, <1>7, <1>8, ExclusivePanic
<1>9. CASE m.res = "Ok"
  BY <1>1, <1>6, <1>7, <1>9 DEF MapNext, const
<1>. QED BY <1>8, <1>9

(* The frames behind the descriptor at which swap_map stops lie above the  *)
(* frame that was next, and so above all frames in use.                    *)
LEMMA SwapExclusive ==
  ASSUME IInv, Exclusive, swap_map
  PROVE  Exclusive'
<1>1. /\ Types /\ memory_map \in MemoryMaps /\ memory_map \in Seq(Descriptor) /\ Ascending(memory_map)
      /\ fa \in Seq(UsableFrom(memory_map, 1)) /\ fa \in Seq(Nat) /\ Len(memory_map) \in Nat
  BY MapAssumption, FramesAreNumbers, SeqMonotonic DEF IInv, Types
<1>2. CASE fa = << >>
  BY <1>2, ExclusivePanic DEF swap_map, Exclusive
<1>3. CASE fa # << >>
  <2>1. PICK next, stops : next = fa[1] /\ stops = SwapStops(memory_map, next)
    OBVIOUS
  <2>2. /\ IF stops = {} THEN fa' = Advance(fa, 1) ELSE fa' = FramesFrom(Min(stops) + 1)
        /\ pt' = pt /\ image' = image
    BY <1>3, <2>1 DEF swap_map, const
  <2>3. 1 \in 0 .. Len(fa) /\ 1 \in 1 .. Len(fa) /\ next \in Nat
    BY <1>1, <1>3, <2>1, EmptySeq
  <2>4. CASE stops = {}
    <3>1. Apart(pt, image, Advance(fa, 1), {})
      BY <1>1, <2>3, ApartAdvances DEF Exclusive
    <3>2. Apart(pt', image', fa', {})
      BY <2>2, <2>4, <3>1
    <3>. QED BY <3>2 DEF Exclusive
  <2>5. CASE stops # {}
    <3>1. PICK n, j : n = Len(memory_map) /\ j = Min(stops)
      OBVIOUS
    <3>2. n \in Nat /\ stops \in SUBSET (1 .. n)
      BY <1>1, <2>1, <3>1 DEF SwapStops
    <3>3. Min(stops) \in stops
      <4>1. n \in Int /\ 1 \in Nat
        BY <3>2
      <4>. QED BY <2>5, <3>2, <4>1, MinExists, Zenon
    <3>4. /\ j \in 1 .. n /\ is_usable(memory_map[j].type) /\ memory_map[j].start >= next
          /\ j + 1 \in 1 .. (Len(memory_map) + 1)
      BY <1>1, <2>1, <3>1, <3>2, <3>3 DEF SwapStops
    <3>5. PICK q : q = FramesOf(memory_map, j + 1)
      OBVIOUS
    <3>6. q \in Seq(UsableFrom(memory_map, j + 1)) /\ Rising(q)
      BY <1>1, <3>4, <3>5, FramesAssumption DEF Rising
    <3>7. ASSUME NEW f \in UsableFrom(memory_map, j + 1) PROVE f \in Nat /\ next < f
      <4>1. PICK i \in (j + 1) .. n : is_usable(memory_map[i].type) /\ f \in Frames(memory_map[i])
        BY <3>1, <3>7 DEF UsableFrom
      <4>2. i \in 1 .. n /\ j < i
        BY <3>2, <3>4, <4>1
      <4>3. memory_map[j] \in Descriptor /\ memory_map[i] \in Descriptor
        BY <1>1, <3>1, <3>4, <4>2
      <4>4. PICK a \in Nat, b \in Nat, c \in Nat, d \in Nat :
              /\ a = memory_map[j].start /\ b = memory_map[j].size
              /\ c = memory_map[i].start /\ d = memory_map[i].size
        BY <4>3 DEF Descriptor
      <4>5. b > 0 /\ a + b <= c
        BY <1>1, <3>1, <3>4, <4>1, <4>2, <4>4 DEF Ascending
      <4>6. f \in c .. (c + d - 1)
        BY <4>1, <4>4 DEF Frames
      <4>7. a >= next
        BY <3>4, <4>4
      <4>8. next < c
        BY <2>3, <4>4, <4>5, <4>7
      <4>. QED BY <2>3, <4>4, <4>6, <4>8
    <3>8. ASSUME NEW a \in Holders(image, pt)
          PROVE  /\ FrameOf(pt, a) \in Nat
                 /\ \A i \in 1 .. Len(q) : FrameOf(pt, a) < q[i]
      <4>1. FrameOf(pt, a) \in Nat /\ FrameOf(pt, a) < next
        BY <2>1, <2>3 DEF Exclusive, Apart
      <4>2. \A i \in 1 .. Len(q) : q[i] \in Nat /\ next < q[i]
        BY <3>6, <3>7
      <4>. QED BY <2>3, <4>1, <4>2
    <3>9. Apart(pt, image, q, {})
      BY <3>6, <3>8 DEF Exclusive, Apart
    <3>10. Apart(pt', image', fa', {})
      BY <2>2, <2>5, <3>1, <3>5, <3>9 DEF FramesFrom
    <3>. QED BY <3>10 DEF Exclusive
  <2>. QED BY <2>4, <2>5
<1>. QED BY <1>2, <1>3

(* and the I/O APIC.                                                       *)
LEMMA IoApicExclusive ==
  ASSUME IInv, Exclusive, ioapic_init
  PROVE  Exclusive'
<1>1. /\ Types /\ memory_map \in MemoryMaps /\ image \in Images /\ image' = image
      /\ Sound(pt["kernel"], memory_map) /\ DOMAIN pt = Processes /\ "kernel" \in Processes
      /\ IoApicPage \in Nat /\ IoApicPage + 1 \in Nat
      /\ fa \in Seq(UsableFrom(memory_map, 1)) /\ Low(pt["kernel"], memory_map)
      /\ IoApicPage \notin Own(image, "kernel") /\ IoApicPage + 1 \notin Own(image, "kernel")
  <2>1. memory_map \in MemoryMaps /\ image \in Images
    BY DEF IInv, Types
  <2>2. IoApicPage \notin Own(image, "kernel") /\ IoApicPage + 1 \notin Own(image, "kernel")
    BY <2>1, OwnFacts
  <2>. QED BY <2>2, HeapNumbers DEF ioapic_init, const, IInv, Types, Processes, LowIdentity, Low
<1>2. PICK m1, m2 :
        /\ m1 = identity_map(pt["kernel"], fa, IoApicPage)
        /\ m2 = IF m1.res = "Ok" THEN identity_map(m1.pt, m1.fa, IoApicPage + 1) ELSE m1
        /\ pt' = [pt EXCEPT !["kernel"] = m2.pt] /\ fa' = m2.fa
  BY DEF ioapic_init
<1>3. Sound(m1.pt, memory_map) /\ m1.fa \in Seq(UsableFrom(memory_map, 1))
  BY <1>1, <1>2, IdentityKept
<1>4. PICK P1, P2, X, l : /\ P1 = [pt EXCEPT !["kernel"] = m1.pt] /\ P2 = pt' /\ X = {}
                          /\ l = 1 /\ l \in 1 .. Levels
  BY OnePage
<1>5. X \subseteq X /\ X \cap X = {} /\ P1["kernel"] = m1.pt
  BY <1>1, <1>4
<1>6. Apart(P1, image, m1.fa, X)
  <2>1. PICK page : page = IoApicPage
    OBVIOUS
  <2>2. /\ m1 = map_to_level(pt["kernel"], fa, l, page, page) /\ Apart(pt, image, fa, X)
        /\ page \in Nat
    BY <1>1, <1>2, <1>4, <2>1 DEF identity_map, map_to, Exclusive
  <2>3. May(m1, l, page, page, Own(image, "kernel"), X)
    BY <1>1, <1>4, <2>1, OnePage DEF May
  <2>4. \A v \in Processes : P1[v] = IF v = "kernel" THEN m1.pt ELSE pt[v]
    BY <1>1, <1>4
  <2>5. CallIn(memory_map, "kernel", pt, P1, image, fa, l, page, page, m1, X, X, X)
    BY <1>1, <1>4, <1>5, <2>2, <2>3, <2>4, Zenon DEF CallIn
  <2>. QED BY <2>5, CallApart, Zenon
<1>7. Apart(P2, image, m2.fa, X)
  <2>1. CASE m1.res # "Ok"
    <3>1. m2 = m1 /\ P2 = P1
      BY <1>2, <1>4, <2>1
    <3>. QED BY <1>6, <3>1
  <2>2. CASE m1.res = "Ok"
    <3>1. PICK page : page = IoApicPage + 1
      OBVIOUS
    <3>2. m2 = map_to_level(P1["kernel"], m1.fa, l, page, page) /\ page \in Nat
      BY <1>1, <1>2, <1>4, <1>5, <2>2, <3>1 DEF identity_map, map_to
    <3>3. May(m2, l, page, page, Own(image, "kernel"), X)
      BY <1>1, <1>4, <3>1, OnePage DEF May
    <3>4. \A v \in Processes : P2[v] = IF v = "kernel" THEN m2.pt ELSE P1[v]
      BY <1>1, <1>2, <1>4
    <3>5. Sound(P1["kernel"], memory_map)
      BY <1>3, <1>5
    <3>6. CallIn(memory_map, "kernel", P1, P2, image, m1.fa, l, page, page, m2, X, X, X)
      BY <1>1, <1>3, <1>4, <1>5, <1>6, <3>2, <3>3, <3>4, <3>5, Zenon DEF CallIn
    <3>. QED BY <3>6, CallApart, Zenon
  <2>. QED BY <2>1, <2>2
<1>8. Apart(pt', image', fa', {})
  BY <1>1, <1>2, <1>4, <1>7
<1>. QED BY <1>8 DEF Exclusive

(* The driver's address space is empty until it is built.                  *)
DriverLater == building # "driver" => pt["driver"] = EmptyTable

(* The driver's table is empty until its construction.                     *)
LEMMA DriverLaterNext ==
  ASSUME IInv, DriverLater, [Next]_vars
  PROVE  DriverLater'
<1>1. SUFFICES ASSUME building # "driver", building' # "driver", pt["driver"] = EmptyTable
               PROVE  pt'["driver"] = pt["driver"]
  <2>1. building = "driver" => building' = "driver"
    <3>1. ASSUME building = "driver" PROVE building' = "driver"
      <4>1. pc \in {"fixed", "kernel_pages", "headers", "segments", "built", "running",
                    "panicked", "bad_elf", "fault", "table_fault"}
        BY <3>1 DEF IInv, Stages
      <4>2. ~(init_heap_page \/ init_heap_done \/ swap_map \/ ioapic_init \/ copy_heap_page
              \/ map_runtime_page \/ mem_init \/ identity_map_root)
        BY <3>1, <4>1 DEF init_heap_page, init_heap_done, swap_map, ioapic_init, copy_heap_page,
                     map_runtime_page, mem_init, identity_map_root
      <4>3. CASE BuildNext
        <5>1. CASE load_page
          BY <3>1, <5>1 DEF load_page, Panic
        <5>2. CASE map_fixed \/ map_kernel_page
          BY <3>1, <5>2 DEF map_fixed, map_kernel_page, Panic, MapNext
        <5>. QED BY <3>1, <4>3, <5>1, <5>2 DEF BuildNext, next_fixed, fixed_done, next_kernel_segment,
               kernel_pages_done, progam_headers, segment, next_segment, from_elf_done
      <4>4. CASE get_memory_map \/ exit_boot_services \/ set_virtual_address_map
                 \/ jump_to_kernel \/ new_kernel_process
        BY <3>1, <4>4 DEF get_memory_map, exit_boot_services, set_virtual_address_map,
                          jump_to_kernel, new_kernel_process, Goto
      <4>5. CASE finished \/ UNCHANGED vars
        BY <3>1, <4>5 DEF finished, vars
      <4>6. CASE table_fault
        BY <3>1, <4>6, FaultFacts
      <4>. QED BY <4>2, <4>3, <4>4, <4>5, <4>6 DEF Next
    <3>. QED BY <3>1
  <2>. QED BY <2>1 DEF DriverLater
<1>2. DOMAIN pt = Processes /\ building \in {"loader", "kernel"}
  BY <1>1 DEF IInv, Types, Stages
<1>3. CASE BuildNext
  <2>1. CASE load_page
    <3>1. CASE fa = << >>
      BY <2>1, <3>1 DEF load_page, Panic
    <3>2. CASE fa # << >>
      <4>1. PICK h, frame, from, cur, page, m : LoadStep(h, frame, from, cur, page, m)
        BY <2>1, <3>2, LoadedPage
      <4>2. pt' = [pt EXCEPT !["kernel"] = m.pt]
        BY <1>1, <4>1 DEF LoadStep
      <4>. QED BY <1>2, <4>2
    <3>. QED BY <3>1, <3>2
  <2>2. CASE map_fixed
    <3>1. pt' = pt \/ \E t : pt' = [pt EXCEPT ![building] = t]
      BY <2>2 DEF map_fixed, Panic, MapNext
    <3>2. "driver" \in DOMAIN pt
      BY <1>2 DEF Processes
    <3>. QED BY <1>1, <3>1, <3>2
  <2>3. CASE map_kernel_page
    BY <1>1, <2>3 DEF map_kernel_page, IInv, Stages, Loading
  <2>. QED BY <1>3, <2>1, <2>2, <2>3 DEF BuildNext, next_fixed, fixed_done, next_kernel_segment,
         kernel_pages_done, progam_headers, segment, next_segment, from_elf_done
<1>4. CASE init_heap_page \/ map_runtime_page \/ copy_heap_page
  <2>1. pt' = pt \/ \E t : pt' = [pt EXCEPT ![building] = t]
    BY <1>4 DEF init_heap_page, map_runtime_page, copy_heap_page, Panic, MapNext
  <2>2. "driver" \in DOMAIN pt
    BY <1>2 DEF Processes
  <2>. QED BY <1>1, <2>1, <2>2
<1>5. CASE identity_map_root
  <2>1. \E t : pt' = [pt EXCEPT !["kernel"] = t]
    BY <1>5 DEF identity_map_root
  <2>. QED BY <1>2, <2>1
<1>6. CASE \/ get_memory_map \/ exit_boot_services \/ mem_init \/ init_heap_done \/ swap_map
           \/ set_virtual_address_map \/ jump_to_kernel \/ new_kernel_process
  BY <1>6 DEF get_memory_map, exit_boot_services, mem_init, init_heap_done, swap_map, Panic,
              set_virtual_address_map, jump_to_kernel, new_kernel_process, Goto
<1>7. CASE ioapic_init
  BY <1>1, <1>7 DEF ioapic_init
<1>8. CASE finished \/ UNCHANGED vars
  BY <1>8 DEF finished, vars
<1>9. CASE table_fault
  BY <1>9, FaultFacts
<1>. QED BY <1>3, <1>4, <1>5, <1>6, <1>7, <1>8, <1>9 DEF Next

(* Empty tables hold no frame.                                             *)
LEMMA EmptyApart ==
  ASSUME NEW spaces, NEW im, NEW q, Rising(q), \A w \in Processes : spaces[w] = EmptyTable
  PROVE  Apart(spaces, im, q, {})
<1>1. \A w \in Processes : DOMAIN spaces[w].tables = {} /\ Mapped(spaces[w]) = {}
  BY EmptyTableFacts
<1>2. HolderForms(im, spaces)
  BY HoldersAre
<1>3. Holders(im, spaces) = {}
  BY <1>1, <1>2 DEF HolderForms
<1>. QED BY <1>3 DEF Apart

(* Every step keeps frames exclusive.                                      *)
LEMMA ExclusiveNext == IInv /\ DriverLater /\ Exclusive /\ [Next]_vars => Exclusive'
<1>. SUFFICES ASSUME IInv, DriverLater, Exclusive, [Next]_vars PROVE Exclusive'
  OBVIOUS
<1>1. CASE mem_init
  <2>1. pc = "mem_init" /\ fa' = FramesOf(memory_map, 1) /\ pt' = pt /\ image' = image
    BY <1>1 DEF mem_init, FramesFrom, const
  <2>2. \A w \in Processes : pt[w] = EmptyTable
    BY <2>1 DEF IInv, Stages, LoaderHeap, NoHeapTable, DriverLater, Loading, Processes
  <2>3. memory_map \in MemoryMaps /\ Len(memory_map) \in Nat
    BY MapAssumption DEF IInv, Types
  <2>4. Rising(FramesOf(memory_map, 1))
    <3>1. 1 \in 1 .. (Len(memory_map) + 1)
      BY <2>3
    <3>. QED BY <2>3, <3>1, FramesAssumption DEF Rising
  <2>5. Apart(pt', image', fa', {})
    BY <2>1, <2>2, <2>4, EmptyApart
  <2>. QED BY <2>5 DEF Exclusive
<1>2. CASE \/ get_memory_map \/ exit_boot_services \/ init_heap_done
           \/ set_virtual_address_map \/ jump_to_kernel \/ new_kernel_process
  <2>1. pt' = pt /\ image' = image /\ fa' = fa
    BY <1>2 DEF get_memory_map, exit_boot_services, init_heap_done, set_virtual_address_map,
                jump_to_kernel, new_kernel_process, Goto, const
  <2>. QED BY <2>1, ExclusiveSame
<1>3. CASE BuildNext /\ ~(map_fixed \/ map_kernel_page \/ load_page)
  <2>1. pt' = pt /\ image' = image /\ fa' = fa
    BY <1>3 DEF BuildNext, next_fixed, fixed_done, next_kernel_segment, kernel_pages_done,
                progam_headers, segment, next_segment, from_elf_done, const
  <2>. QED BY <2>1, ExclusiveSame
<1>4. CASE finished \/ UNCHANGED vars
  <2>1. pt' = pt /\ image' = image /\ fa' = fa
    BY <1>4 DEF finished, vars
  <2>. QED BY <2>1, ExclusiveSame
<1>5. CASE table_fault
  BY <1>5, FaultFacts, ExclusiveSame
<1>. QED BY <1>1, <1>2, <1>3, <1>4, <1>5, HeapExclusive, FixedExclusive, KernelPageExclusive,
            LoadExclusive, RootExclusive, RuntimeExclusive, CopyExclusive, SwapExclusive,
            IoApicExclusive DEF Next

(* Frames are exclusive in every reachable state.                          *)
LEMMA ExclusiveInvariance == Spec => [](IInv /\ DriverLater /\ Exclusive)
<1>1. Init => DriverLater /\ Exclusive
  <2>1. ASSUME Init PROVE DriverLater /\ Exclusive
    <3>1. \A w \in Processes : pt[w] = EmptyTable
      BY <2>1 DEF Init, Processes
    <3>2. Rising(fa)
      BY <2>1 DEF Init, Rising
    <3>. QED BY <3>1, <3>2, EmptyApart DEF DriverLater, Exclusive, Processes
  <2>. QED BY <2>1
<1>2. IInv /\ DriverLater /\ [Next]_vars => DriverLater'
  BY DriverLaterNext
<1>. QED BY <1>1, <1>2, IInvInit, IInvNext, ExclusiveNext, PTL DEF Spec

(* No frame serves twice, across the loader's, the kernel's and the        *)
(* driver's address spaces: allocate_frame and the frames that map_to      *)
(* takes for tables come from one iterator (allocator.rs 38-58, process.rs *)
(* 61-280), and the one that swap_map installs (paging/mod.rs) starts      *)
(* above every frame that was issued.                                      *)
THEOREM NoFrameServesTwice == Spec => []FramesExclusive
<1>1. Exclusive => FramesExclusive
  BY DEF Exclusive, Apart, FramesExclusive
<1>. QED BY <1>1, ExclusiveInvariance, PTL-------------------------------------------------------------------------------

(* What there is still room for in the address space of process w: the     *)
(* regions that come later, and the rest of the range being mapped.        *)
Free(w, i) == Regions(memory_map, image, w)[i] \cap Mapped(pt[w]) = {}

RestFree(w, r) ==
  \A j \in Nat : j >= k /\ r.lo + j <= r.hi => EntryOf(r.level, r.lo + j) \cap Mapped(pt[w]) = {}

FixedRoom ==
  pc = "fixed" =>
    /\ \A i \in 1 .. Len(Regions(memory_map, image, building)) :
         i > s \/ (i = s /\ s > Len(FixedRanges(building))) => Free(building, i)
    /\ s <= Len(FixedRanges(building)) => RestFree(building, FixedRanges(building)[s])
    /\ s = 1 => \A x \in DOMAIN pt[building].tables : x[1] = Levels
    /\ s <= Len(FixedRanges(building)) + 1

HeapRoom ==
  /\ building = "kernel" /\ pc \in {"headers", "segments", "built", "runtime"} =>
       heap_range \cap Mapped(pt["kernel"]) = {}
  /\ pc = "copy" => \A j \in k .. (HeapPages - 1) : HeapStartPage + j \notin Mapped(pt["kernel"])

Passed(h, j) == h < s \/ (h = s /\ j < k)

SharedRoom ==
  pc = "kernel_pages" =>
    \A h \in 1 .. Len(Headers("kernel")) : Headers("kernel")[h].load =>
      \A j \in 0 .. (SegPages(Headers("kernel")[h]) - 1) :
        ~Passed(h, j) => SegPage(Headers("kernel")[h], j) \notin Mapped(pt["driver"])

SegmentsTo(n, l) ==
  \A h \in 1 .. Len(Headers("kernel")) : Headers("kernel")[h].load =>
    \A j \in 0 .. (SegPages(Headers("kernel")[h]) - 1) :
      h < n \/ (h = n /\ j < l) => SegPage(Headers("kernel")[h], j) \in Mapped(pt["kernel"])

SegmentsThere ==
  /\ building = "kernel" /\ pc = "segments" => fa = << >> \/ SegmentsTo(s, k)
  /\ building = "kernel" /\ pc \in {"built", "runtime"} =>
       fa = << >> \/ SegmentPages("kernel") \subseteq Mapped(pt["kernel"])
  /\ pc = "copy" => (fa = << >> /\ k = 0) \/ SegmentPages("kernel") \subseteq Mapped(pt["kernel"])
  /\ KernelRuns => SegmentPages("kernel") \subseteq Mapped(pt["kernel"])

Room ==
  /\ file_size \in Nat /\ (pc = "headers" => s = 1 /\ k = 0)
  /\ FixedRoom /\ HeapRoom /\ SharedRoom /\ SegmentsThere
  /\ pc \in {"panicked", "fault"} => fa = << >>

(* Entries of one level do not overlap.                                    *)
LEMMA EntriesApart ==
  ASSUME NEW l \in 1 .. Levels, NEW a \in Nat, NEW b \in Nat, a # b
  PROVE  EntryOf(l, a) \cap EntryOf(l, b) = {}
<1>1. PICK c \in Nat \ {0} : c = Covered(l)
  BY CoveredFacts
<1>2. ASSUME NEW u \in Nat, NEW v \in Nat, u < v, NEW x \in EntryOf(l, u), x \in EntryOf(l, v)
      PROVE  FALSE
  <2>1. PICK e \in Nat, f \in Nat : e = u * c /\ f = v * c
    OBVIOUS
  <2>2. x \in e .. (e + c - 1) /\ x \in f .. (f + c - 1)
    BY <1>1, <1>2, <2>1 DEF EntryOf
  <2>3. c * u + c <= c * v
    BY <1>2, NextMultiple
  <2>4. c * u = e /\ c * v = f
    BY <2>1
  <2>. QED BY <2>2, <2>3, <2>4
<1>. QED BY <1>2

(* Range r of level l, and where its pages lie.                            *)
RangeIn(r, l, S) ==
  /\ r.lo \in Nat /\ r.level = l /\ l \in 1 .. Levels
  /\ \A j \in Nat : r.lo + j <= r.hi => EntryOf(l, r.lo + j) \subseteq S

(* The pages of a fixed range lie in the region with the range's number;   *)
(* the first range is the window.                                          *)
LEMMA FixedRegion ==
  ASSUME Types, NEW w \in {"kernel", "driver"}, NEW n \in 1 .. Len(FixedRanges(w))
  PROVE  /\ RangeIn(FixedRanges(w)[n], IF n = 1 THEN Levels ELSE 1,
                    Regions(memory_map, image, w)[n])
         /\ n < Len(Regions(memory_map, image, w))
<1>1. /\ memory_map \in MemoryMaps /\ image \in Images
      /\ PAGE_TABLE_OFFSET \in Nat /\ StackLow \in Nat /\ StackHigh \in Nat
      /\ KStackLow \in Nat /\ KStackHigh \in Nat /\ ApicPage \in Nat
  BY BuildAssumption DEF Types
<1>2. PICK a \in Nat, z \in Nat :
        LoaderCodeOf(memory_map).start = a /\ LoaderCodeOf(memory_map).size = z
  BY <1>1, LoaderCodeFacts
<1>3. PICK R, r : R = Regions(memory_map, image, w) /\ r = FixedRanges(w)[n]
  OBVIOUS
<1>4. SUFFICES RangeIn(r, IF n = 1 THEN Levels ELSE 1, R[n]) /\ n < Len(R)
  BY <1>3, Zenon
<1>5. Levels \in 1 .. Levels /\ 1 \in 1 .. Levels
  BY TableAssumption
<1>6. r = Window => RangeIn(r, Levels, WindowPages(memory_map))
  <2>1. SUFFICES ASSUME r = Window PROVE RangeIn(r, Levels, WindowPages(memory_map))
    OBVIOUS
  <2>2. PICK d \in Nat : d = get_mem_size(memory_map) \div Covered(Levels)
    BY LargePagesNat
  <2>3. /\ r.lo = PAGE_TABLE_OFFSET /\ r.hi = PAGE_TABLE_OFFSET + d /\ r.level = Levels
    BY <2>1, <2>2 DEF Window, Span
  <2>4. \A j \in 0 .. d : EntryOf(Levels, PAGE_TABLE_OFFSET + j) \subseteq WindowPages(memory_map)
    BY <2>2, Zenon DEF EntryOf, WindowPages
  <2>5. \A j \in Nat : r.lo + j <= r.hi => j \in 0 .. d
    BY <1>1, <2>3
  <2>6. \A j \in Nat : r.lo + j <= r.hi => EntryOf(Levels, r.lo + j) \subseteq WindowPages(memory_map)
    BY <2>3, <2>4, <2>5, Zenon
  <2>. QED BY <1>1, <1>5, <2>3, <2>6, Zenon DEF RangeIn
<1>7. ASSUME NEW lo \in Nat, NEW hi \in Nat, r.lo = lo /\ r.hi = hi /\ r.level = 1
      PROVE  RangeIn(r, 1, lo .. hi)
  <2>1. ASSUME NEW j \in Nat, r.lo + j <= r.hi PROVE EntryOf(1, r.lo + j) \subseteq lo .. hi
    <3>1. PICK page \in Nat : page = lo + j /\ page = r.lo + j /\ page <= hi
      BY <1>7, <2>1
    <3>2. EntryOf(1, page) = {page}
      BY OnePage
    <3>. QED BY <3>1, <3>2
  <2>. QED BY <1>5, <1>7, <2>1, Zenon DEF RangeIn
<1>8. r = Stack => RangeIn(r, 1, StackLow .. StackHigh)
  <2>1. r = Stack => r.lo = StackLow /\ r.hi = StackHigh /\ r.level = 1
    BY DEF Stack, Span
  <2>. QED BY <1>1, <1>7, <2>1, Zenon
<1>9. \A lo, hi \in Nat : r = Identity(lo, hi) => RangeIn(r, 1, lo .. hi)
  <2>1. \A lo, hi \in Nat : r = Identity(lo, hi) => r.lo = lo /\ r.hi = hi /\ r.level = 1
    BY DEF Identity, Span
  <2>. QED BY <1>7, <2>1, Zenon
<1>10. CASE w = "kernel"
  <2>0. /\ Len(R) = 7 /\ R[1] = WindowPages(memory_map)
        /\ R[2] = StackLow .. StackHigh
        /\ R[3] = LoaderCodeOf(memory_map).start ..
                    (LoaderCodeOf(memory_map).start + LoaderCodeOf(memory_map).size)
        /\ R[4] = KStackLow .. KStackHigh /\ R[5] = {ApicPage}
    BY <1>1, <1>3, <1>10, RegionFacts, Zenon
  <2>1. r = KernelRanges[n] /\ n \in 1 .. 5
    BY <1>3, <1>10 DEF FixedRanges, KernelRanges
  <2>2. CASE n = 1
    <3>1. r = Window
      BY <2>1, <2>2 DEF KernelRanges
    <3>. QED BY <1>6, <2>0, <2>2, <3>1
  <2>3. CASE n = 2
    <3>1. r = Stack
      BY <2>1, <2>3 DEF KernelRanges
    <3>. QED BY <1>8, <2>0, <2>3, <3>1
  <2>4. CASE n = 3
    <3>1. r = Identity(a, a + z) /\ a + z \in Nat /\ R[3] = a .. (a + z)
      BY <1>2, <2>0, <2>1, <2>4 DEF KernelRanges, LoaderCode
    <3>2. RangeIn(r, 1, a .. (a + z))
      BY <1>9, <3>1, Zenon
    <3>. QED BY <2>0, <2>4, <3>1, <3>2
  <2>5. CASE n = 4
    <3>1. r = Identity(KStackLow, KStackHigh)
      BY <2>1, <2>5 DEF KernelRanges
    <3>2. RangeIn(r, 1, KStackLow .. KStackHigh)
      BY <1>1, <1>9, <3>1, Zenon
    <3>. QED BY <2>0, <2>5, <3>2
  <2>6. CASE n = 5
    <3>1. r = Identity(ApicPage, ApicPage) /\ ApicPage .. ApicPage = {ApicPage}
      BY <1>1, <2>1, <2>6 DEF KernelRanges
    <3>2. RangeIn(r, 1, ApicPage .. ApicPage)
      BY <1>1, <1>9, <3>1, Zenon
    <3>3. RangeIn(r, 1, R[5])
      BY <2>0, <3>1, <3>2, Zenon
    <3>4. n < Len(R)
      BY <2>0, <2>6
    <3>. QED BY <2>6, <3>3, <3>4
  <2>. QED BY <2>1, <2>2, <2>3, <2>4, <2>5, <2>6
<1>11. CASE w = "driver"
  <2>0. /\ Len(R) = 4 /\ R[1] = WindowPages(memory_map)
        /\ R[2] = StackLow .. StackHigh /\ R[3] = {0}
    BY <1>1, <1>3, <1>11, RegionFacts, Zenon
  <2>1. r = DriverRanges[n] /\ n \in 1 .. 3
    BY <1>3, <1>11 DEF FixedRanges, DriverRanges
  <2>2. CASE n = 1
    <3>1. r = Window
      BY <2>1, <2>2 DEF DriverRanges
    <3>. QED BY <1>6, <2>0, <2>2, <3>1
  <2>3. CASE n = 2
    <3>1. r = Stack
      BY <2>1, <2>3 DEF DriverRanges
    <3>. QED BY <1>8, <2>0, <2>3, <3>1
  <2>4. CASE n = 3
    <3>1. r = Identity(0, 0) /\ 0 .. 0 = {0} /\ 0 \in Nat
      BY <2>1, <2>4 DEF DriverRanges
    <3>2. RangeIn(r, 1, 0 .. 0)
      BY <1>9, <3>1, Zenon
    <3>3. RangeIn(r, 1, R[3])
      BY <2>0, <3>1, <3>2, Zenon
    <3>4. n < Len(R)
      BY <2>0, <2>4
    <3>. QED BY <2>4, <3>3, <3>4
  <2>. QED BY <2>1, <2>2, <2>3, <2>4
<1>. QED BY <1>10, <1>11

(* A call of map_to for an entry that is free.                             *)
FreeCall(w, q, l, page, frame, m) ==
  /\ w \in Processes /\ q \in Seq(UsableFrom(memory_map, 1))
  /\ l \in 1 .. Levels /\ page \in Nat /\ frame \in Nat
  /\ m = map_to_level(pt[w], q, l, page, frame)
  /\ EntryOf(l, page) \cap Mapped(pt[w]) = {}
  /\ l > 1 => l = Levels /\ \A x \in DOMAIN pt[w].tables : x[1] = Levels

(* It fails only for want of a frame.                                      *)
LEMMA RoomCall ==
  ASSUME Types, NEW w, NEW q, NEW l, NEW page, NEW frame, NEW m,
         FreeCall(w, q, l, page, frame, m)
  PROVE  /\ m.res # "Ok" => m.fa = << >>
         /\ m.res = "Ok" => Mapped(m.pt) = Mapped(pt[w]) \cup EntryOf(l, page)
<1>. /\ w \in Processes /\ q \in Seq(UsableFrom(memory_map, 1))
     /\ l \in 1 .. Levels /\ page \in Nat /\ frame \in Nat
     /\ m = map_to_level(pt[w], q, l, page, frame)
     /\ EntryOf(l, page) \cap Mapped(pt[w]) = {}
     /\ l > 1 => l = Levels /\ \A x \in DOMAIN pt[w].tables : x[1] = Levels
  BY Zenon DEF FreeCall
<1>1. memory_map \in MemoryMaps /\ Sound(pt[w], memory_map)
  BY DEF Types
<1>2. MapDone(pt[w], q, l, page, frame, m)
  BY <1>1, LevelCall, Zenon
<1>3. PICK first \in Nat : first = page * Covered(l) /\ first \in EntryOf(l, page)
  BY EntryPages
<1>4. first \notin Mapped(pt[w])
  BY <1>3
<1>5. l > 1 => TableOf(first, l - 1) \notin DOMAIN pt[w].tables
  <2>1. SUFFICES ASSUME l > 1, TableOf(first, l - 1) \in DOMAIN pt[w].tables PROVE FALSE
    OBVIOUS
  <2>2. TableOf(first, l - 1)[1] = l - 1
    BY DEF TableOf
  <2>3. l = Levels /\ TableOf(first, l - 1)[1] = Levels
    BY <2>1
  <2>. QED BY <2>2, <2>3, TableAssumption
<1>6. m.res \in {"Ok", "FrameAllocationFailed"}
  BY <1>2, <1>3, <1>4, <1>5, Zenon DEF MapDone
<1>7. m.res = "FrameAllocationFailed" => m.fa = << >>
  BY <1>2, Zenon DEF MapDone
<1>8. m.res = "Ok" => Mapped(m.pt) = Mapped(pt[w]) \cup EntryOf(l, page)
  BY <1>2, Zenon DEF MapDone, Mapped
<1>. QED BY <1>6, <1>7, <1>8

(* Pages of segments that are mapped stay mapped.                          *)
LEMMA SegmentsKept ==
  ASSUME Growth
  PROVE  /\ SegmentPages("kernel")' = SegmentPages("kernel")
         /\ Headers("kernel")' = Headers("kernel")
         /\ SegmentPages("kernel") \subseteq Mapped(pt["kernel"]) =>
              SegmentPages("kernel")' \subseteq Mapped(pt["kernel"])'
         /\ \A n, l : SegmentsTo(n, l) => SegmentsTo(n, l)'
<1>1. SegmentPages("kernel")' = SegmentPages("kernel") /\ Headers("kernel")' = Headers("kernel")
  BY DEF Growth, SegmentPages, Headers
<1>2. \A p : p \in Mapped(pt["kernel"]) => p \in Mapped(pt["kernel"])'
  BY DEF Growth, Grows
<1>3. \A n, l : SegmentsTo(n, l) => SegmentsTo(n, l)'
  BY <1>1, <1>2, Zenon DEF SegmentsTo
<1>. QED BY <1>1, <1>2, <1>3

(* A stop for want of memory.                                              *)
LEMMA RoomStop ==
  ASSUME Room, Growth, pc' \in {"panicked", "fault"}, fa' = << >>, file_size' \in Nat,
         KernelRuns' => SegmentPages("kernel") \subseteq Mapped(pt["kernel"])
  PROVE  Room'
<1>1. FixedRoom' /\ HeapRoom' /\ SharedRoom'
  BY DEF FixedRoom, HeapRoom, SharedRoom
<1>2. SegmentsThere'
  BY SegmentsKept DEF SegmentsThere
<1>. QED BY <1>1, <1>2 DEF Room

(* One page of a fixed range finds its place free.                         *)
LEMMA RoomFixed ==
  ASSUME IInv, Room, map_fixed, Growth
  PROVE  Room'
<1>1. PICK r, page, fresh, from, frame, m :
        /\ r = FixedRanges(building)[s] /\ page = r.lo + k /\ fresh = (r.kind = "fresh")
        /\ from = IF fresh THEN Advance(fa, 1) ELSE fa
        /\ frame = IF fresh THEN fa[1] ELSE page - r.base
        /\ m = map_to_level(pt[building], from, r.level, page, frame)
  OBVIOUS
<1>2. /\ pc = "fixed" /\ s <= Len(FixedRanges(building)) /\ page <= r.hi
      /\ IF fresh /\ fa = << >> THEN Panic(fa)
         ELSE IF m.res # "Ok" THEN Panic(m.fa) ELSE MapNext(m, from)
  BY <1>1, Zenon DEF map_fixed
<1>3. /\ building \in {"kernel", "driver"} /\ building \in Processes /\ Types
      /\ memory_map \in MemoryMaps /\ image \in Images /\ DOMAIN pt = Processes
      /\ fa \in Seq(UsableFrom(memory_map, 1)) /\ k \in Nat /\ s \in Nat \ {0}
      /\ file_size \in Nat
  BY <1>2 DEF IInv, Stages, Types, Loading, Processes, Room
<1>4. KernelRuns => SegmentPages("kernel") \subseteq Mapped(pt["kernel"])
  BY DEF Room, SegmentsThere
<1>5. ASSUME NEW q, q = << >>, Panic(q) PROVE Room'
  <2>1. pc' = "panicked" /\ fa' = << >> /\ file_size' \in Nat /\ building' = building
    BY <1>3, <1>5 DEF Panic
  <2>2. KernelRuns' => KernelRuns
    BY <2>1 DEF KernelRuns
  <2>. QED BY <1>4, <2>1, <2>2, RoomStop
<1>6. CASE fresh /\ fa = << >>
  BY <1>2, <1>5, <1>6
<1>7. CASE ~(fresh /\ fa = << >>)
  <2>1. s \in 1 .. Len(FixedRanges(building)) /\ s \in Int
    <3>1. Len(FixedRanges(building)) \in Nat
      BY DEF FixedRanges, KernelRanges, DriverRanges
    <3>. QED BY <1>2, <1>3, <3>1
  <2>2. PICK R : R = Regions(memory_map, image, building)
    OBVIOUS
  <2>3. RangeIn(r, IF s = 1 THEN Levels ELSE 1, R[s]) /\ s < Len(R)
    BY <1>1, <1>3, <2>1, <2>2, FixedRegion, Zenon
  <2>4. PICK l \in 1 .. Levels : l = r.level /\ l = IF s = 1 THEN Levels ELSE 1
    BY <2>3, Zenon DEF RangeIn
  <2>5. /\ r.lo \in Nat /\ page \in Nat
        /\ \A j \in Nat : r.lo + j <= r.hi => EntryOf(l, r.lo + j) \subseteq R[s]
    <3>1. r.lo \in Nat /\ \A j \in Nat : r.lo + j <= r.hi => EntryOf(l, r.lo + j) \subseteq R[s]
      BY <2>3, <2>4, Zenon DEF RangeIn
    <3>. QED BY <1>1, <1>3, <3>1
  <2>6. /\ \A i \in 1 .. Len(R) : i > s => R[i] \cap Mapped(pt[building]) = {}
        /\ RestFree(building, r)
        /\ s = 1 => \A x \in DOMAIN pt[building].tables : x[1] = Levels
    BY <1>1, <1>2, <2>2, Zenon DEF Room, FixedRoom, Free
  <2>7. frame \in Nat /\ from \in Seq(UsableFrom(memory_map, 1))
    <3>1. \/ r.kind = "at" /\ page - r.base \in Nat
          \/ r.kind = "fresh"
      <4>1. /\ page \in Nat
            /\ \/ /\ r.kind = "at" /\ r.level = Levels /\ page - r.base \in Nat
                  /\ PAGE_TABLE_OFFSET <= page
               \/ r.kind = "fresh" /\ r.level = 1 /\ page \in StackLow .. StackHigh
               \/ /\ r.kind = "at" /\ r.level = 1 /\ page - r.base = page
                  /\ building = "kernel" => page \in Others(memory_map)
        BY <1>1, <1>2, <1>3, FixedRange
      <4>. QED BY <4>1
    <3>2. CASE fresh
      <4>1. Len(fa) \in Nat /\ Len(fa) >= 1
        BY <1>3, <1>7, <3>2, EmptySeq
      <4>2. fa[1] \in UsableFrom(memory_map, 1) /\ 1 \in 0 .. Len(fa)
        BY <1>3, <4>1
      <4>3. UsableFrom(memory_map, 1) \subseteq Nat
        BY <1>3, FramesAreNumbers
      <4>4. frame = fa[1] /\ from = Advance(fa, 1)
        BY <1>1, <3>2
      <4>. QED BY <1>3, <4>2, <4>3, <4>4, AdvanceKeeps
    <3>3. CASE ~fresh
      <4>1. frame = page - r.base /\ from = fa /\ r.kind # "fresh"
        BY <1>1, <3>3
      <4>. QED BY <1>3, <3>1, <4>1
    <3>. QED BY <3>2, <3>3
  <2>8. EntryOf(l, page) \cap Mapped(pt[building]) = {} /\ EntryOf(l, page) \subseteq R[s]
    <3>1. k >= k /\ r.lo + k <= r.hi
      BY <1>1, <1>2, <1>3
    <3>. QED BY <1>1, <1>3, <2>4, <2>5, <2>6, <3>1 DEF RestFree
  <2>9. l > 1 => l = Levels /\ \A x \in DOMAIN pt[building].tables : x[1] = Levels
    BY <2>4, <2>6
  <2>10. m = map_to_level(pt[building], from, l, page, frame)
    BY <1>1, <2>4
  <2>11. /\ m.res # "Ok" => m.fa = << >>
         /\ m.res = "Ok" => Mapped(m.pt) = Mapped(pt[building]) \cup EntryOf(l, page)
    <3>1. Types /\ building \in Processes /\ l \in 1 .. Levels /\ page \in Nat
      BY <1>3, <2>4, <2>5
    <3>2. EntryOf(l, page) \cap Mapped(pt[building]) = {}
      BY <2>8
    <3>3. FreeCall(building, from, l, page, frame, m)
      BY <2>7, <2>9, <2>10, <3>1, <3>2, Zenon DEF FreeCall
    <3>. QED BY <3>1, <3>3, RoomCall
  <2>12. CASE m.res # "Ok"
    BY <1>2, <1>5, <1>7, <2>11, <2>12
  <2>13. CASE m.res = "Ok"
    <3>1. /\ pt' = [pt EXCEPT ![building] = m.pt] /\ fa' = m.fa /\ k' = k + 1
          /\ memory_map' = memory_map /\ image' = image /\ building' = building
          /\ pc' = pc /\ s' = s /\ file_size' = file_size
      BY <1>2, <1>7, <2>13 DEF MapNext, const
    <3>2. pt'[building] = m.pt
      BY <1>3, <3>1
    <3>3. PICK w \in {"kernel", "driver"}, n \in Nat, c \in Nat :
            w = building /\ n = s /\ c = k /\ w = building' /\ n = s' /\ k' = c + 1
      BY <1>3, <3>1
    <3>4. /\ Regions(memory_map, image, w)' = R /\ FixedRanges(w)' = FixedRanges(w)
      BY <2>2, <3>1, <3>3 DEF FixedRanges, KernelRanges, DriverRanges, Window, LoaderCode
    <3>5. Mapped(pt'[w]) = Mapped(pt[w]) \cup EntryOf(l, page)
      BY <2>11, <2>13, <3>2, <3>3
    <3>6. ASSUME NEW i \in 1 .. Len(R), i > n PROVE R[i] \cap Mapped(pt'[w]) = {}
      <4>1. n \in 1 .. Len(R) /\ i # n
        BY <2>1, <2>3, <3>3, <3>6
      <4>2. R[i] \cap R[n] = {}
        BY <1>3, <2>2, <3>3, <3>6, <4>1, RegionFacts, Zenon
      <4>3. R[i] \cap Mapped(pt[w]) = {} /\ EntryOf(l, page) \subseteq R[n]
        BY <2>6, <2>8, <3>3, <3>6
      <4>. QED BY <3>5, <4>2, <4>3
    <3>7. ASSUME NEW j \in Nat, j >= c + 1, r.lo + j <= r.hi
          PROVE  EntryOf(r.level, r.lo + j) \cap Mapped(pt'[w]) = {}
      <4>1. r.lo + j \in Nat /\ r.lo + j # page /\ j >= k
        BY <1>1, <1>3, <2>5, <3>3, <3>7
      <4>2. EntryOf(l, r.lo + j) \cap EntryOf(l, page) = {}
        BY <2>5, <4>1, EntriesApart
      <4>3. EntryOf(l, r.lo + j) \cap Mapped(pt[w]) = {}
        BY <2>4, <2>6, <3>3, <3>7, <4>1 DEF RestFree
      <4>. QED BY <2>4, <3>5, <4>2, <4>3
    <3>8. n = 1 => \A x \in DOMAIN pt'[w].tables : x[1] = Levels
      <4>1. SUFFICES ASSUME n = 1, NEW x \in DOMAIN m.pt.tables PROVE x[1] = Levels
        BY <3>2, <3>3
      <4>2. CASE x \in DOMAIN pt[building].tables
        BY <2>6, <3>3, <4>1, <4>2
      <4>3. CASE x \notin DOMAIN pt[building].tables
        <5>1. memory_map \in MemoryMaps /\ Sound(pt[building], memory_map)
          BY <1>3 DEF Types
        <5>2. MapDone(pt[building], from, l, page, frame, m)
          BY <2>5, <2>7, <2>10, <5>1, LevelCall, Zenon
        <5>3. PICK i \in l .. Levels : x = TableOf(page * Covered(l), i)
          BY <4>1, <4>3, <5>2, Zenon DEF MapDone
        <5>4. i = Levels
          BY <2>4, <3>3, <4>1, <5>3, TableAssumption
        <5>. QED BY <5>3, <5>4 DEF TableOf
      <4>. QED BY <4>2, <4>3
    <3>9. FixedRoom'
      <4>1. \A i \in 1 .. Len(R) : i > n \/ (i = n /\ n > Len(FixedRanges(w))) =>
              R[i] \cap Mapped(pt'[w]) = {}
        <5>1. ~(n > Len(FixedRanges(w)))
          BY <1>2, <2>1, <3>3
        <5>. QED BY <3>6, <5>1
      <4>2. FixedRanges(w)[n] = r
        BY <1>1, <3>3
      <4>3. \A j \in Nat : j >= k' /\ r.lo + j <= r.hi =>
              EntryOf(r.level, r.lo + j) \cap Mapped(pt'[w]) = {}
        BY <3>3, <3>7
      <4>4. RestFree(w, r)'
        BY <4>3 DEF RestFree
      <4>5. \A i \in 1 .. Len(R) : i > n \/ (i = n /\ n > Len(FixedRanges(w))) => Free(w, i)'
        BY <3>4, <4>1, Zenon DEF Free
      <4>6. n <= Len(FixedRanges(w)) + 1
        BY <2>1, <3>3
      <4>. QED BY <3>3, <3>4, <3>8, <4>2, <4>4, <4>5, <4>6, Zenon DEF FixedRoom
    <3>10. HeapRoom' /\ SharedRoom'
      BY <1>2, <3>1 DEF HeapRoom, SharedRoom
    <3>11. SegmentsThere'
      <4>1. KernelRuns' => KernelRuns
        BY <1>2, <3>1 DEF KernelRuns
      <4>. QED BY <1>2, <1>4, <3>1, <4>1, SegmentsKept DEF SegmentsThere
    <3>. QED BY <1>2, <1>3, <3>1, <3>9, <3>10, <3>11 DEF Room
  <2>. QED BY <2>12, <2>13
<1>. QED BY <1>6, <1>7

(* The file sizes of the headers.                                          *)
LEMMA FileSizes ==
  ASSUME Types, NEW w \in {"kernel", "driver"}, NEW n \in Nat \ {0}
  PROVE  FileSize(w, n) \in Nat
<1>1. Headers(w) \in Seq(ProgramHeader)
  BY HeaderFacts
<1>2. CASE n <= Len(Headers(w))
  <2>1. n \in 1 .. Len(Headers(w))
    BY <1>1, <1>2
  <2>2. Headers(w)[n] \in ProgramHeader
    BY <1>1, <2>1
  <2>. QED BY <1>2, <2>2 DEF FileSize, ProgramHeader
<1>3. CASE ~(n <= Len(Headers(w)))
  BY <1>3 DEF FileSize
<1>. QED BY <1>2, <1>3

(* A page of a segment is among the pages of the segments.                 *)
LEMMA SegmentPageIs ==
  ASSUME NEW h \in 1 .. Len(Headers("kernel")), Headers("kernel")[h].load,
         NEW j \in 0 .. (SegPages(Headers("kernel")[h]) - 1)
  PROVE  SegPage(Headers("kernel")[h], j) \in SegmentPages("kernel")
BY DEF SegmentPages, SegmentsOf

(* From one range to the next, and on to the segments.                     *)
LEMMA RoomNextFixed ==
  ASSUME IInv, Room, next_fixed \/ fixed_done, Growth
  PROVE  Room'
<1>1. /\ pc = "fixed" /\ memory_map' = memory_map /\ image' = image /\ pt' = pt /\ fa' = fa
      /\ building' = building /\ file_size' = file_size
  BY DEF next_fixed, fixed_done, const
<1>2. /\ building \in {"kernel", "driver"} /\ Types /\ memory_map \in MemoryMaps
      /\ image \in Images /\ s \in Nat \ {0} /\ file_size \in Nat
  BY <1>1 DEF IInv, Stages, Types, Loading, Room
<1>3. PICK w, n, R, F :
        /\ w \in {"kernel", "driver"} /\ n \in Nat \ {0}
        /\ w = building /\ n = s /\ R = Regions(memory_map, image, w) /\ F = FixedRanges(w)
  BY <1>2
<1>4. Regions(memory_map, image, w)' = R /\ FixedRanges(w)' = F
  BY <1>1, <1>3 DEF FixedRanges, KernelRanges, DriverRanges, Window, LoaderCode
<1>5. /\ \A i \in 1 .. Len(R) : i > n \/ (i = n /\ n > Len(F)) => R[i] \cap Mapped(pt[w]) = {}
      /\ n <= Len(F) + 1
  BY <1>1, <1>3, Zenon DEF Room, FixedRoom, Free
<1>6. w = "kernel" => Len(F) = 5 /\ Len(R) = 7 /\ R[7] = heap_range
  <2>1. w = "kernel" => Len(F) = 5
    BY <1>3 DEF FixedRanges, KernelRanges
  <2>2. ASSUME w = "kernel" PROVE Len(R) = 7 /\ R[7] = heap_range
    <3>1. memory_map \in MemoryMaps /\ image \in Images /\ R = Regions(memory_map, image, w)
      BY <1>2, <1>3
    <3>. QED BY <2>2, <3>1, RegionFacts, Zenon
  <2>. QED BY <2>1, <2>2
<1>7. w = "driver" => Len(F) = 3 /\ Len(R) = 4 /\ R[4] = SegmentPages("kernel")
  <2>1. w = "driver" => Len(F) = 3
    BY <1>3 DEF FixedRanges, DriverRanges
  <2>2. ASSUME w = "driver" PROVE Len(R) = 4 /\ R[4] = SegmentsOf(image["kernel"].headers)
    <3>1. memory_map \in MemoryMaps /\ image \in Images /\ R = Regions(memory_map, image, w)
      BY <1>2, <1>3
    <3>. QED BY <2>2, <3>1, RegionFacts, Zenon
  <2>. QED BY <2>1, <2>2 DEF SegmentPages, Headers
<1>8. SegmentsThere'
  <2>1. pc' \in {"fixed", "headers", "kernel_pages"}
    BY <1>1 DEF next_fixed, fixed_done
  <2>2. KernelRuns' => KernelRuns
    BY <1>1, <2>1 DEF KernelRuns
  <2>. QED BY <1>1, <2>1, <2>2, SegmentsKept DEF SegmentsThere, Room
<1>9. CASE next_fixed
  <2>1. pc' = "fixed" /\ n <= Len(F) /\ s' = n + 1 /\ k' = 0
    BY <1>1, <1>3, <1>9 DEF next_fixed
  <2>2. n + 1 \in Nat /\ Len(F) \in Nat /\ Len(R) \in Nat
    BY <1>3, <1>6, <1>7
  <2>3. ASSUME NEW i \in 1 .. Len(R), i > n + 1 \/ (i = n + 1 /\ n + 1 > Len(F))
        PROVE  R[i] \cap Mapped(pt[w]) = {}
    <3>1. i > n
      BY <1>3, <2>2, <2>3
    <3>. QED BY <1>5, <3>1
  <2>4. n + 1 <= Len(F) => RestFree(w, F[n + 1])'
    <3>1. SUFFICES ASSUME n + 1 <= Len(F), NEW j \in Nat,
                          F[n + 1].lo + j <= F[n + 1].hi
                   PROVE  EntryOf(F[n + 1].level, F[n + 1].lo + j) \cap Mapped(pt[w]) = {}
      <4>1. pt'[w] = pt[w]
        BY <1>1
      <4>. QED BY <4>1, Zenon DEF RestFree
    <3>2. PICK c \in 1 .. Len(F) : c = n + 1
      BY <1>3, <2>2, <3>1
    <3>3. PICK l : l = IF c = 1 THEN Levels ELSE 1
      OBVIOUS
    <3>4. RangeIn(F[c], l, R[c]) /\ c < Len(R)
      BY <1>2, <1>3, <3>2, <3>3, FixedRegion, Zenon
    <3>5. EntryOf(F[c].level, F[c].lo + j) \subseteq R[c]
      BY <3>1, <3>2, <3>4, Zenon DEF RangeIn
    <3>6. R[c] \cap Mapped(pt[w]) = {}
      <4>1. c \in 1 .. Len(R) /\ c > n
        BY <1>3, <2>2, <3>2, <3>4
      <4>. QED BY <1>5, <4>1
    <3>. QED BY <3>2, <3>5, <3>6
  <2>5. s' # 1 /\ s' <= Len(F) + 1
    BY <1>3, <2>1, <2>2
  <2>6. FixedRoom'
    <3>1. \A i \in 1 .. Len(R) : i > n + 1 \/ (i = n + 1 /\ n + 1 > Len(F)) => Free(w, i)'
      BY <1>1, <1>4, <2>3, Zenon DEF Free
    <3>2. building' = w
      BY <1>1, <1>3
    <3>. QED BY <1>4, <2>1, <2>4, <2>5, <3>1, <3>2, Zenon DEF FixedRoom
  <2>. QED BY <1>2, <1>1, <1>8, <2>1, <2>6 DEF Room, HeapRoom, SharedRoom
<1>10. CASE fixed_done
  <2>1. /\ n > Len(F) /\ s' = 1 /\ k' = 0
        /\ pc' = IF building = "kernel" THEN "headers" ELSE "kernel_pages"
    BY <1>3, <1>10 DEF fixed_done
  <2>2. CASE w = "kernel"
    <3>0. n <= Len(F) + 1 /\ Len(F) = 5 /\ Len(R) = 7
      BY <1>5, <1>6, <2>2, Zenon
    <3>1. 7 \in 1 .. Len(R) /\ 7 > n
      BY <1>3, <3>0
    <3>2. heap_range \cap Mapped(pt["kernel"]) = {}
      BY <1>5, <1>6, <2>2, <3>1
    <3>. QED BY <1>1, <1>2, <1>3, <1>8, <2>1, <2>2, <3>2 DEF Room, FixedRoom, HeapRoom, SharedRoom
  <2>3. CASE w = "driver"
    <3>1. 4 \in 1 .. Len(R) /\ (4 > n \/ (4 = n /\ n > Len(F)))
      <4>1. n <= Len(F) + 1 /\ Len(F) = 3 /\ Len(R) = 4 /\ n > Len(F)
        BY <1>5, <1>7, <2>1, <2>3, Zenon
      <4>. QED BY <1>3, <4>1
    <3>2. SegmentPages("kernel") \cap Mapped(pt["driver"]) = {}
      BY <1>5, <1>7, <2>3, <3>1
    <3>3. Headers("kernel")' = Headers("kernel") /\ pt'["driver"] = pt["driver"]
      BY <1>1 DEF Headers
    <3>4. \A h \in 1 .. Len(Headers("kernel")) : Headers("kernel")[h].load =>
            \A j \in 0 .. (SegPages(Headers("kernel")[h]) - 1) :
              SegPage(Headers("kernel")[h], j) \notin Mapped(pt["driver"])
      BY <3>2, SegmentPageIs
    <3>5. SharedRoom'
      BY <3>3, <3>4, Zenon DEF SharedRoom
    <3>. QED BY <1>1, <1>2, <1>3, <1>8, <2>1, <2>3, <3>5 DEF Room, FixedRoom, HeapRoom
  <2>. QED BY <1>3, <2>2, <2>3
<1>. QED BY <1>9, <1>10

(* The steps between pages of segments.                                    *)
LEMMA RoomQuiet ==
  ASSUME IInv, Room, SoundElf(image), Growth,
         \/ next_kernel_segment \/ kernel_pages_done
         \/ progam_headers \/ segment \/ next_segment \/ from_elf_done
  PROVE  Room'
<1>1. /\ memory_map' = memory_map /\ image' = image /\ pt' = pt /\ fa' = fa
      /\ building' = building /\ pc \in {"kernel_pages", "headers", "segments"}
      /\ pc' \in {"kernel_pages", "headers", "segments", "bad_elf", "built"}
  BY DEF next_kernel_segment, kernel_pages_done, progam_headers, segment, next_segment,
         from_elf_done, const
<1>2. /\ building \in {"kernel", "driver"} /\ Types /\ s \in Nat \ {0} /\ k \in Nat
      /\ file_size \in Nat /\ Len(Headers("kernel")) \in Nat
      /\ pc = "kernel_pages" => building = "driver"
  BY <1>1, HeaderFacts DEF IInv, Stages, Types, Loading, Room
<1>3. file_size' \in Nat
  <2>1. s + 1 \in Nat \ {0} /\ 1 \in Nat \ {0}
    BY <1>2
  <2>2. FileSize(building, 1) \in Nat /\ FileSize(building, s + 1) \in Nat
    BY <1>2, <2>1, FileSizes
  <2>. QED BY <1>2, <2>2 DEF next_kernel_segment, kernel_pages_done, progam_headers, segment,
                             next_segment, from_elf_done
<1>4. pc' = "headers" => s' = 1 /\ k' = 0
  BY DEF next_kernel_segment, kernel_pages_done, progam_headers, segment, next_segment,
         from_elf_done
<1>5. FixedRoom' /\ (pc' \in {"panicked", "fault"} => fa' = << >>)
  BY <1>1 DEF FixedRoom
<1>6. HeapRoom'
  <2>1. building = "kernel" => pc \in {"headers", "segments"}
    BY <1>1, <1>2
  <2>. QED BY <1>1, <2>1 DEF Room, HeapRoom
<1>7. SharedRoom'
  <2>1. SUFFICES ASSUME pc' = "kernel_pages" PROVE SharedRoom'
    BY DEF SharedRoom
  <2>2. pc = "kernel_pages" /\ s' = s + 1 /\ k' = 0
    BY <2>1 DEF next_kernel_segment, kernel_pages_done, progam_headers, segment, next_segment,
                from_elf_done
  <2>3. \A h \in 1 .. Len(Headers("kernel")) : \A j : ~Passed(h, j)' => ~Passed(h, j)
    BY <1>2, <2>2 DEF Passed
  <2>4. Headers("kernel")' = Headers("kernel") /\ Mapped(pt["driver"])' = Mapped(pt["driver"])
    BY <1>1 DEF Headers
  <2>. QED BY <2>2, <2>3, <2>4, Zenon DEF Room, SharedRoom
<1>8. ASSUME building = "kernel", pc' = "segments" PROVE fa = << >> \/ SegmentsTo(s, k)'
  <2>1. SUFFICES ASSUME fa # << >>, NEW h \in 1 .. Len(Headers("kernel")),
                        Headers("kernel")[h].load,
                        NEW j \in 0 .. (SegPages(Headers("kernel")[h]) - 1),
                        h < s' \/ (h = s' /\ j < k')
                 PROVE  SegPage(Headers("kernel")[h], j) \in Mapped(pt["kernel"])
    <3>1. Headers("kernel")' = Headers("kernel") /\ Mapped(pt["kernel"])' = Mapped(pt["kernel"])
      BY <1>1 DEF Headers
    <3>. QED BY <3>1, Zenon DEF SegmentsTo
  <2>2. SegPages(Headers("kernel")[h]) \in Int
    BY <1>2, HeaderFacts
  <2>3. CASE progam_headers
    <3>1. s' = 1 /\ k' = 0
      BY <2>3 DEF Room, progam_headers
    <3>. QED BY <2>1, <2>2, <3>1
  <2>4. CASE next_segment
    <3>1. /\ pc = "segments" /\ s' = s + 1 /\ k' = 0 /\ s <= Len(Headers("kernel"))
          /\ LET g == Headers("kernel")[s] IN ~g.load \/ g.filesz = 0 \/ k >= SegPages(g)
      BY <1>8, <2>4 DEF next_segment
    <3>2. SegmentsTo(s, k)
      BY <1>8, <2>1, <3>1 DEF Room, SegmentsThere
    <3>3. h < s \/ h = s
      BY <1>2, <2>1, <2>2, <3>1
    <3>4. ASSUME h = s PROVE j < k
      <4>1. Headers("kernel")[h].filesz > 0
        <5>1. Headers("kernel") = image["kernel"].headers
          BY DEF Headers
        <5>. QED BY <2>1, <5>1, Zenon DEF SoundElf
      <4>2. PICK z : z = Headers("kernel")[h].filesz
        OBVIOUS
      <4>3. z # 0
        BY <4>1, <4>2
      <4>4. k >= SegPages(Headers("kernel")[h])
        BY <2>1, <3>1, <3>4, <4>2, <4>3
      <4>. QED BY <1>2, <2>1, <2>2, <4>4
    <3>. QED BY <2>1, <3>2, <3>3, <3>4 DEF SegmentsTo
  <2>. QED BY <1>1, <1>2, <1>8, <2>3, <2>4 DEF next_kernel_segment, kernel_pages_done, segment,
                                              from_elf_done
<1>9. ASSUME building = "kernel", pc' = "built"
      PROVE  fa = << >> \/ SegmentPages("kernel") \subseteq Mapped(pt["kernel"])
  <2>1. pc = "segments" /\ s > Len(Headers("kernel"))
    BY <1>1, <1>9 DEF next_kernel_segment, kernel_pages_done, progam_headers, segment,
                      next_segment, from_elf_done
  <2>2. fa = << >> \/ SegmentsTo(s, k)
    BY <1>9, <2>1 DEF Room, SegmentsThere
  <2>3. SUFFICES ASSUME SegmentsTo(s, k), NEW p \in SegmentPages("kernel")
                 PROVE  p \in Mapped(pt["kernel"])
    BY <2>2
  <2>4. PICK h \in 1 .. Len(Headers("kernel")) :
          /\ Headers("kernel")[h].load
          /\ \E j \in 0 .. (SegPages(Headers("kernel")[h]) - 1) :
               p = SegPage(Headers("kernel")[h], j)
    BY <2>3 DEF SegmentPages, SegmentsOf
  <2>5. h < s
    BY <1>2, <2>1
  <2>. QED BY <2>3, <2>4, <2>5 DEF SegmentsTo
<1>10. SegmentsThere'
  <2>1. KernelRuns' => KernelRuns
    BY <1>1 DEF KernelRuns
  <2>2. KernelRuns' => SegmentPages("kernel")' \subseteq Mapped(pt["kernel"])'
    BY <2>1, SegmentsKept DEF Room, SegmentsThere
  <2>3. building' = "kernel" /\ pc' = "segments" => fa' = << >> \/ SegmentsTo(s, k)'
    BY <1>1, <1>8
  <2>4. building' = "kernel" /\ pc' = "built" =>
          fa' = << >> \/ SegmentPages("kernel")' \subseteq Mapped(pt["kernel"])'
    BY <1>1, <1>9, SegmentsKept
  <2>. QED BY <1>1, <2>2, <2>3, <2>4 DEF SegmentsThere
<1>. QED BY <1>3, <1>4, <1>5, <1>6, <1>7, <1>10 DEF Room

(* Page a of the kernel's segment i and page b of a later one, j.          *)
PagePair(im, H, i, j, a, b) ==
  /\ H = im["kernel"].headers /\ i \in 1 .. Len(H) /\ j \in 1 .. Len(H) /\ i < j
  /\ H[i].load /\ H[j].load
  /\ a \in 0 .. (SegPages(H[i]) - 1) /\ b \in 0 .. (SegPages(H[j]) - 1)

(* Pages of two segments of a sound kernel file differ.                    *)
LEMMA SoundPages ==
  ASSUME NEW im, SoundElf(im), NEW H, NEW i, NEW j, NEW a, NEW b, PagePair(im, H, i, j, a, b)
  PROVE  SegPage(H[i], a) # SegPage(H[j], b)
<1>. /\ H = im["kernel"].headers /\ i \in 1 .. Len(H) /\ j \in 1 .. Len(H) /\ i < j
     /\ H[i].load /\ H[j].load
     /\ a \in 0 .. (SegPages(H[i]) - 1) /\ b \in 0 .. (SegPages(H[j]) - 1)
  BY Zenon DEF PagePair
<1>1. {SegPage(im["kernel"].headers[i], n) : n \in 0 .. (SegPages(im["kernel"].headers[i]) - 1)}
        \cap {SegPage(im["kernel"].headers[j], n) :
                n \in 0 .. (SegPages(im["kernel"].headers[j]) - 1)} = {}
  BY Zenon DEF SoundElf, PagesApart
<1>2. /\ SegPage(H[i], a) \in
           {SegPage(im["kernel"].headers[i], n) : n \in 0 .. (SegPages(im["kernel"].headers[i]) - 1)}
      /\ SegPage(H[j], b) \in
           {SegPage(im["kernel"].headers[j], n) : n \in 0 .. (SegPages(im["kernel"].headers[j]) - 1)}
  OBVIOUS
<1>. QED BY <1>1, <1>2

(* A page of the kernel in the driver's address space: it is there, and    *)
(* with sound files no other page of the kernel has its number.            *)
LEMMA RoomKernelPage ==
  ASSUME IInv, Room, SoundElf(image), Growth, map_kernel_page
  PROVE  Room'
<1>1. PICK h, page, frame, m :
        /\ h = Headers("kernel")[s] /\ page = SegPage(h, k)
        /\ frame = translate_page(pt["kernel"], page)
        /\ m = map_to(pt["driver"], fa, page, frame)
  OBVIOUS
<1>2. /\ pc = "kernel_pages" /\ s <= Len(Headers("kernel")) /\ h.load /\ k < SegPages(h)
      /\ IF page \notin Mapped(pt["kernel"]) THEN Panic(fa)
         ELSE IF m.res # "Ok" THEN Panic(m.fa) ELSE MapNext(m, fa)
  BY <1>1, Zenon DEF map_kernel_page
<1>3. /\ building = "driver" /\ Types /\ DOMAIN pt = Processes
      /\ Sound(pt["kernel"], memory_map) /\ Sound(pt["driver"], memory_map)
      /\ memory_map \in MemoryMaps /\ image \in Images /\ file_size \in Nat
      /\ fa \in Seq(UsableFrom(memory_map, 1)) /\ k \in Nat /\ s \in Nat \ {0}
  BY <1>2 DEF IInv, Stages, Types, Loading, Processes, Room
<1>4. /\ s \in 1 .. Len(Headers("kernel")) /\ SegPages(h) \in Int /\ Len(Headers("kernel")) \in Nat
      /\ k \in 0 .. (SegPages(h) - 1)
  <2>1. s \in 1 .. Len(Headers("kernel")) /\ Len(Headers("kernel")) \in Nat
    BY <1>2, <1>3, HeaderFacts
  <2>2. SegPages(h) \in Int
    BY <1>1, <1>3, <2>1, HeaderFacts
  <2>. QED BY <1>2, <1>3, <2>1, <2>2
<1>5. SegmentPages("kernel") \subseteq Mapped(pt["kernel"])
  BY <1>3 DEF Room, SegmentsThere, KernelRuns
<1>6. page \in SegmentPages("kernel") /\ page \in Mapped(pt["kernel"])
  BY <1>1, <1>2, <1>4, <1>5, SegmentPageIs
<1>7. page \in Nat /\ frame \in Nat
  BY <1>1, <1>3, <1>6 DEF Sound, PtOK, translate_page, Mapped
<1>8. page \notin Mapped(pt["driver"])
  <2>1. ~Passed(s, k)
    BY <1>3 DEF Passed
  <2>. QED BY <1>1, <1>2, <1>4, <2>1 DEF Room, SharedRoom
<1>9. PageDone(pt["driver"], fa, page, frame, m)
  BY <1>1, <1>3, <1>7, PageCall
<1>10. CASE m.res # "Ok"
  <2>1. m.fa = << >>
    BY <1>8, <1>9, <1>10 DEF PageDone
  <2>2. pc' = "panicked" /\ fa' = << >> /\ file_size' \in Nat
    BY <1>2, <1>3, <1>6, <1>10, <2>1 DEF Panic
  <2>. QED BY <1>5, <2>2, RoomStop
<1>11. CASE m.res = "Ok"
  <2>1. /\ pt' = [pt EXCEPT !["driver"] = m.pt] /\ k' = k + 1
        /\ memory_map' = memory_map /\ image' = image /\ building' = building
        /\ pc' = pc /\ s' = s /\ file_size' = file_size
    BY <1>2, <1>3, <1>6, <1>11 DEF MapNext, const
  <2>2. Mapped(pt["driver"])' = Mapped(pt["driver"]) \cup {page}
    <3>1. pt'["driver"] = m.pt
      BY <1>3, <2>1 DEF Processes
    <3>. QED BY <1>9, <1>11, <3>1 DEF PageDone
  <2>3. SharedRoom'
    <3>1. SUFFICES ASSUME NEW g \in 1 .. Len(Headers("kernel")), Headers("kernel")[g].load,
                          NEW j \in 0 .. (SegPages(Headers("kernel")[g]) - 1), ~Passed(g, j)'
                   PROVE  SegPage(Headers("kernel")[g], j) \notin Mapped(pt["driver"])'
      <4>1. Headers("kernel")' = Headers("kernel")
        BY <2>1 DEF Headers
      <4>. QED BY <4>1, Zenon DEF SharedRoom
    <3>2. g \in Nat /\ j \in Int /\ SegPages(Headers("kernel")[g]) \in Int
      BY <1>3, HeaderFacts
    <3>3. ~(g < s) /\ ~(g = s /\ j < k + 1)
      BY <2>1, <3>1 DEF Passed
    <3>4. ~Passed(g, j)
      BY <1>3, <3>2, <3>3 DEF Passed
    <3>5. SegPage(Headers("kernel")[g], j) \notin Mapped(pt["driver"])
      BY <1>2, <3>1, <3>4 DEF Room, SharedRoom
    <3>6. SegPage(Headers("kernel")[g], j) # page
      <4>1. CASE g = s
        <5>1. PICK c \in Nat : c = Containing(h.va)
          <6>1. h \in ProgramHeader /\ PageSize \in Nat \ {0}
            BY <1>1, <1>3, <1>4, HeaderFacts, BuildAssumption
          <6>2. h.va \in Nat
            BY <6>1 DEF ProgramHeader
          <6>. QED BY <6>1, <6>2, Division DEF Containing
        <5>2. SegPage(Headers("kernel")[g], j) = c + j /\ page = c + k
          BY <1>1, <4>1, <5>1 DEF SegPage
        <5>3. j # k
          BY <1>3, <3>2, <3>3, <4>1
        <5>. QED BY <1>3, <3>2, <5>2, <5>3
      <4>2. CASE g # s
        <5>1. s < g
          BY <1>3, <3>2, <3>3, <4>2
        <5>2. PICK H : H = Headers("kernel") /\ H = image["kernel"].headers
          BY DEF Headers
        <5>3. /\ s \in 1 .. Len(H) /\ g \in 1 .. Len(H) /\ H[s].load /\ H[g].load
              /\ k \in 0 .. (SegPages(H[s]) - 1) /\ j \in 0 .. (SegPages(H[g]) - 1)
          BY <1>1, <1>2, <1>4, <3>1, <5>2
        <5>4. SegPage(H[s], k) # SegPage(H[g], j)
          <6>1. PagePair(image, H, s, g, k, j)
            BY <5>1, <5>2, <5>3, Zenon DEF PagePair
          <6>. QED BY <6>1, SoundPages, Zenon
        <5>. QED BY <1>1, <5>2, <5>4
      <4>. QED BY <4>1, <4>2
    <3>. QED BY <2>2, <3>5, <3>6
  <2>4. FixedRoom' /\ HeapRoom'
    BY <1>2, <1>3, <2>1 DEF FixedRoom, HeapRoom
  <2>5. SegmentsThere'
    BY <1>2, <1>3, <1>5, <2>1, SegmentsKept DEF SegmentsThere
  <2>. QED BY <1>2, <1>3, <2>1, <2>3, <2>4, <2>5 DEF Room
<1>. QED BY <1>10, <1>11

(* The copy into a driver's page touches its own frame only: an aligned    *)
(* segment, and at most a page of bytes.                                   *)
LEMMA AlignedCopy ==
  ASSUME SoundElf(image), Types, file_size \in Nat, NEW h, NEW n, NEW off, NEW frame \in Nat, NEW t,
         s \in 1 .. Len(Headers("driver")), h = Headers("driver")[s], h.load,
         n = Min({file_size, PageSize}), off = h.va % PageSize, CopyFaults(t, frame, off, n)
  PROVE  frame \notin Mapped(t)
<1>1. off = 0
  BY DEF SoundElf, OnPageBorders, Headers
<1>2. PICK z \in Nat \ {0} : z = PageSize
  BY BuildAssumption
<1>3. n \in Nat /\ n <= z
  <2>1. file_size \in Int /\ PageSize \in Int
    BY <1>2
  <2>2. n = IF file_size <= PageSize THEN file_size ELSE PageSize
    BY <2>1, PairBounds, Zenon
  <2>. QED BY <1>2, <2>2
<1>4. n > 0 /\ \E f \in frame .. (frame + Containing(off + n - 1)) : f \notin Mapped(t)
  BY Zenon DEF CopyFaults
<1>5. Containing(off + n - 1) = 0
  <2>1. PICK x \in Nat : x = off + n - 1 /\ x \in 0 .. (z - 1)
    BY <1>1, <1>3, <1>4
  <2>2. x = z * 0 + x /\ 0 \in Nat
    BY <1>2, <2>1
  <2>3. x \div z = 0
    BY <1>2, <2>1, <2>2, DivUnique
  <2>. QED BY <1>2, <2>1, <2>3 DEF Containing
<1>6. frame .. (frame + Containing(off + n - 1)) = {frame}
  BY <1>5
<1>. QED BY <1>4, <1>6

(* The driver's address space has no large pages but those of the window.  *)
SmallPages ==
  \A p \in Mapped(pt["driver"]) :
    p \in WindowPages(memory_map) \/ TableOf(p, 1) \in DOMAIN pt["driver"].tables

(* A call for a small page, or for a page of the window, adds no other.    *)
LEMMA SmallCall ==
  ASSUME Types, SmallPages, NEW q \in Seq(UsableFrom(memory_map, 1)), NEW l \in 1 .. Levels,
         NEW page \in Nat, NEW frame \in Nat,
         NEW m, m = map_to_level(pt["driver"], q, l, page, frame),
         l = 1 \/ EntryOf(l, page) \subseteq WindowPages(memory_map),
         memory_map' = memory_map, pt'["driver"] = m.pt
  PROVE  SmallPages'
<1>1. MapDone(pt["driver"], q, l, page, frame, m)
  <2>1. memory_map \in MemoryMaps /\ Sound(pt["driver"], memory_map)
    BY DEF Types, Processes
  <2>. QED BY <2>1, LevelCall
<1>2. DOMAIN pt["driver"].tables \subseteq DOMAIN m.pt.tables
  BY <1>1, Zenon DEF MapDone, Grows
<1>3. m.res = "Ok" => TableOf(page * Covered(l), l) \in DOMAIN m.pt.tables
  <2>1. l \in l .. Levels
    BY TableAssumption
  <2>. QED BY <1>1, <2>1, Zenon DEF MapDone
<1>4. SUFFICES ASSUME NEW p \in Mapped(m.pt)
               PROVE  p \in WindowPages(memory_map) \/ TableOf(p, 1) \in DOMAIN m.pt.tables
  BY DEF SmallPages
<1>5. CASE p \in Mapped(pt["driver"])
  BY <1>2, <1>5 DEF SmallPages
<1>6. CASE p \notin Mapped(pt["driver"])
  <2>1. m.res = "Ok" /\ p \in EntryOf(l, page)
    BY <1>1, <1>4, <1>6, Zenon DEF MapDone, Mapped
  <2>2. CASE l = 1
    <3>1. p = page /\ page * Covered(1) = page
      BY <2>1, <2>2, OnePage, CoveredFacts
    <3>. QED BY <1>3, <2>1, <2>2, <3>1
  <2>. QED BY <2>1, <2>2
<1>. QED BY <1>5, <1>6

(* The pages of the window.                                                *)
LEMMA FixedSmall ==
  ASSUME IInv, SmallPages, map_fixed, building = "driver"
  PROVE  SmallPages'
<1>1. PICK r, page, fresh, from, frame, m :
        /\ r = FixedRanges(building)[s] /\ page = r.lo + k /\ fresh = (r.kind = "fresh")
        /\ from = IF fresh THEN Advance(fa, 1) ELSE fa
        /\ frame = IF fresh THEN fa[1] ELSE page - r.base
        /\ m = map_to_level(pt[building], from, r.level, page, frame)
  OBVIOUS
<1>2. /\ pc = "fixed" /\ s <= Len(FixedRanges(building)) /\ page <= r.hi
      /\ IF fresh /\ fa = << >> THEN Panic(fa)
         ELSE IF m.res # "Ok" THEN Panic(m.fa) ELSE MapNext(m, from)
  BY <1>1, Zenon DEF map_fixed
<1>3. /\ Types /\ memory_map \in MemoryMaps /\ DOMAIN pt = Processes
      /\ fa \in Seq(UsableFrom(memory_map, 1)) /\ k \in Nat /\ s \in Nat \ {0}
  BY DEF IInv, Types
<1>4. ASSUME NEW left, Panic(left) PROVE SmallPages'
  <2>1. pt' = pt /\ memory_map' = memory_map
    BY <1>4 DEF Panic, const
  <2>. QED BY <2>1 DEF SmallPages
<1>5. CASE ~(fresh /\ fa = << >>) /\ m.res = "Ok"
  <2>1. memory_map' = memory_map /\ pt'["driver"] = m.pt
    BY <1>2, <1>3, <1>5 DEF MapNext, const, Processes
  <2>2. /\ page \in Nat
        /\ \/ /\ r.kind = "at" /\ r.level = Levels /\ page - r.base \in Nat
              /\ PAGE_TABLE_OFFSET <= page
           \/ r.kind = "fresh" /\ r.level = 1 /\ page \in StackLow .. StackHigh
           \/ r.kind = "at" /\ r.level = 1 /\ page - r.base = page
    BY <1>1, <1>2, <1>3, FixedRange
  <2>3. PICK l \in 1 .. Levels : l = r.level
    BY <2>2, TableAssumption
  <2>4. from \in Seq(UsableFrom(memory_map, 1)) /\ frame \in Nat
    <3>1. CASE fresh
      <4>1. UsableFrom(memory_map, 1) \subseteq Nat /\ Len(fa) \in Nat /\ Len(fa) >= 1
        BY <1>3, <1>5, <3>1, FramesAreNumbers, EmptySeq
      <4>. QED BY <1>1, <1>3, <3>1, <4>1, AdvanceKeeps
    <3>2. CASE ~fresh
      BY <1>1, <1>3, <2>2, <3>2
    <3>. QED BY <3>1, <3>2
  <2>5. l = 1 \/ EntryOf(l, page) \subseteq WindowPages(memory_map)
    <3>1. CASE r = Window
      <4>1. PICK o \in Nat, z \in Nat : /\ o = PAGE_TABLE_OFFSET
                                        /\ z = get_mem_size(memory_map) \div Covered(Levels)
        BY <1>3, LargePagesNat
      <4>2. r.level = Levels /\ r.lo = o /\ r.hi = o + z
        BY <3>1, <4>1 DEF Window, Span
      <4>3. k \in 0 .. z /\ page = PAGE_TABLE_OFFSET + k /\ l = Levels
        BY <1>1, <1>2, <1>3, <2>3, <4>1, <4>2
      <4>4. k \in 0 .. (get_mem_size(memory_map) \div Covered(Levels))
        BY <4>1, <4>3
      <4>5. EntryOf(Levels, PAGE_TABLE_OFFSET + k) \subseteq WindowPages(memory_map)
        BY <4>4, Zenon DEF EntryOf, WindowPages
      <4>. QED BY <4>3, <4>5
    <3>2. CASE r # Window
      <4>1. r = DriverRanges[s] /\ s \in 1 .. 3
        BY <1>1, <1>2, <1>3 DEF FixedRanges, DriverRanges
      <4>2. s = 1 \/ s = 2 \/ s = 3
        BY <4>1
      <4>3. r = Stack \/ r = Identity(0, 0)
        BY <3>2, <4>1, <4>2 DEF DriverRanges
      <4>. QED BY <2>3, <4>3 DEF Stack, Identity, Span
    <3>. QED BY <3>1, <3>2
  <2>6. m = map_to_level(pt["driver"], from, l, page, frame)
    BY <1>1, <2>3
  <2>. QED BY <1>3, <2>1, <2>2, <2>3, <2>4, <2>5, <2>6, SmallCall
<1>. QED BY <1>2, <1>4, <1>5

(* The pages of the segments.                                              *)
LEMMA SegmentsSmall ==
  ASSUME IInv, SmallPages, map_kernel_page \/ load_page, building = "driver"
  PROVE  SmallPages'
<1>1. /\ Types /\ memory_map \in MemoryMaps /\ DOMAIN pt = Processes /\ 1 \in 1 .. Levels
      /\ Sound(pt["kernel"], memory_map) /\ fa \in Seq(UsableFrom(memory_map, 1))
      /\ k \in Nat /\ s \in Nat \ {0}
  BY TableAssumption DEF IInv, Types, Processes
<1>2. ASSUME NEW left, Panic(left) PROVE SmallPages'
  <2>1. pt' = pt /\ memory_map' = memory_map
    BY <1>2 DEF Panic, const
  <2>. QED BY <2>1 DEF SmallPages
<1>3. CASE map_kernel_page
  <2>1. PICK h, page, frame, m :
          /\ h = Headers("kernel")[s] /\ page = SegPage(h, k)
          /\ frame = translate_page(pt["kernel"], page)
          /\ m = map_to(pt["driver"], fa, page, frame)
    OBVIOUS
  <2>2. IF page \notin Mapped(pt["kernel"]) THEN Panic(fa)
        ELSE IF m.res # "Ok" THEN Panic(m.fa) ELSE MapNext(m, fa)
    BY <1>3, <2>1, Zenon DEF map_kernel_page
  <2>3. CASE page \in Mapped(pt["kernel"]) /\ m.res = "Ok"
    <3>1. page \in Nat /\ frame \in Nat
      BY <1>1, <2>1, <2>3 DEF Sound, PtOK, translate_page, Mapped
    <3>2. memory_map' = memory_map /\ pt'["driver"] = m.pt
      BY <1>1, <2>2, <2>3 DEF MapNext, const, Processes
    <3>3. m = map_to_level(pt["driver"], fa, 1, page, frame)
      BY <2>1 DEF map_to
    <3>. QED BY <1>1, <3>1, <3>2, <3>3, SmallCall
  <2>. QED BY <1>2, <2>2, <2>3
<1>4. CASE load_page
  <2>1. CASE fa = << >>
    BY <1>2, <1>4, <2>1 DEF load_page
  <2>2. CASE fa # << >>
    <3>1. PICK h, frame, from, cur, page, m : LoadStep(h, frame, from, cur, page, m)
      BY <1>4, <2>2, LoadedPage
    <3>2. page \in Nat /\ frame = fa[1] /\ from = Advance(fa, 1) /\ memory_map' = memory_map
      <4>1. h = Headers(building)[s] /\ s <= Len(Headers(building)) /\ page = SegPage(h, k)
        BY <3>1, Zenon DEF LoadStep
      <4>2. s \in 1 .. Len(Headers(building))
        BY <1>1, <4>1, HeaderFacts
      <4>3. page \in Nat
        BY <1>1, <4>1, <4>2, HeaderFacts
      <4>. QED BY <3>1, <4>3, Zenon DEF LoadStep
    <3>3. /\ cur = map_to(pt["kernel"], from, frame, frame)
          /\ m = map_to_level(pt["driver"], cur.fa, 1, page, frame)
      BY <3>1 DEF LoadStep, CurrentMap, identity_map, map_to
    <3>4. Len(fa) \in Nat /\ Len(fa) >= 1 /\ UsableFrom(memory_map, 1) \subseteq Nat
      BY <1>1, <2>2, FramesAreNumbers, EmptySeq
    <3>5. from \in Seq(UsableFrom(memory_map, 1)) /\ frame \in Nat
      BY <1>1, <3>2, <3>4, AdvanceKeeps
    <3>6. cur.fa \in Seq(UsableFrom(memory_map, 1))
      BY <1>1, <3>3, <3>5, PageCall DEF LevelDone
    <3>7. pt'["driver"] = pt["driver"] \/ pt'["driver"] = m.pt
      BY <1>1, <3>1 DEF LoadStep, Processes
    <3>8. CASE pt'["driver"] = pt["driver"]
      BY <3>2, <3>8 DEF SmallPages
    <3>. QED BY <1>1, <3>2, <3>3, <3>5, <3>6, <3>7, <3>8, SmallCall
  <2>. QED BY <2>1, <2>2
<1>. QED BY <1>3, <1>4

(* Every step keeps it.                                                    *)
LEMMA SmallPagesNext ==
  ASSUME IInv, DriverLater, SmallPages, [Next]_vars
  PROVE  SmallPages'
<1>1. CASE building' # "driver"
  <2>1. pt'["driver"] = EmptyTable
    BY <1>1, DriverLaterNext DEF DriverLater
  <2>. QED BY <2>1, EmptyTableFacts DEF SmallPages
<1>2. CASE building # "driver" /\ building' = "driver"
  <2>1. pt["driver"] = EmptyTable /\ DOMAIN pt = Processes
    BY <1>2 DEF DriverLater, IInv, Types
  <2>2. building \in {"loader", "kernel"} /\ ioapic_init
    <3>1. building \in {"loader", "kernel"}
      BY <1>2 DEF IInv, Types, Stages
    <3>2. ~BuildNext
      <4>1. ASSUME load_page PROVE FALSE
        BY <1>2, <4>1 DEF load_page, Panic
      <4>2. ASSUME map_fixed \/ map_kernel_page PROVE FALSE
        BY <1>2, <4>2 DEF map_fixed, map_kernel_page, Panic, MapNext
      <4>. QED BY <1>2, <4>1, <4>2 DEF BuildNext, next_fixed, fixed_done, next_kernel_segment,
             kernel_pages_done, progam_headers, segment, next_segment, from_elf_done
    <3>3. ~(init_heap_page \/ map_runtime_page \/ copy_heap_page \/ identity_map_root)
      BY <1>2 DEF init_heap_page, map_runtime_page, copy_heap_page, identity_map_root, Panic, MapNext
    <3>4. ~(\/ get_memory_map \/ exit_boot_services \/ mem_init \/ init_heap_done \/ swap_map
            \/ set_virtual_address_map \/ jump_to_kernel \/ new_kernel_process)
      BY <1>2 DEF get_memory_map, exit_boot_services, mem_init, init_heap_done, swap_map, Panic,
                  set_virtual_address_map, jump_to_kernel, new_kernel_process, Goto
    <3>5. ~(finished \/ UNCHANGED vars)
      BY <1>2 DEF finished, vars
    <3>6. ~table_fault
      BY <1>2, FaultFacts
    <3>. QED BY <3>1, <3>2, <3>3, <3>4, <3>5, <3>6 DEF Next
  <2>3. pt'["driver"] = EmptyTable
    BY <2>1, <2>2 DEF ioapic_init, Processes
  <2>. QED BY <2>3, EmptyTableFacts DEF SmallPages
<1>3. CASE building = "driver" /\ building' = "driver"
  <2>1. CASE map_fixed \/ map_kernel_page \/ load_page
    BY <1>3, <2>1, FixedSmall, SegmentsSmall
  <2>2. CASE ~(map_fixed \/ map_kernel_page \/ load_page)
    <3>1. pc \in {"fixed", "kernel_pages", "headers", "segments", "built", "running",
                  "panicked", "bad_elf", "fault", "table_fault"}
      BY <1>3 DEF IInv, Stages
    <3>2. ~(init_heap_page \/ init_heap_done \/ swap_map \/ ioapic_init \/ copy_heap_page
            \/ map_runtime_page \/ mem_init \/ identity_map_root)
      BY <1>3, <3>1 DEF init_heap_page, init_heap_done, swap_map, ioapic_init, copy_heap_page,
                   map_runtime_page, mem_init, identity_map_root
    <3>3. pt' = pt /\ memory_map' = memory_map
      <4>1. CASE BuildNext
        BY <2>2, <4>1 DEF BuildNext, next_fixed, fixed_done, next_kernel_segment, const,
               kernel_pages_done, progam_headers, segment, next_segment, from_elf_done
      <4>2. CASE get_memory_map \/ exit_boot_services \/ set_virtual_address_map
                 \/ jump_to_kernel \/ new_kernel_process
        BY <1>3, <3>1, <4>2 DEF get_memory_map, exit_boot_services, set_virtual_address_map,
                          jump_to_kernel, new_kernel_process, Goto, const
      <4>3. CASE finished \/ UNCHANGED vars
        BY <4>3 DEF finished, vars
      <4>4. CASE table_fault
        BY <4>4, FaultFacts
      <4>. QED BY <3>2, <4>1, <4>2, <4>3, <4>4 DEF Next
    <3>. QED BY <3>3 DEF SmallPages
  <2>. QED BY <2>1, <2>2
<1>. QED BY <1>1, <1>2, <1>3

(* One page of a segment finds its place free, or is mapped already in the *)
(* driver's space, and no copy faults while frames are left.               *)
LEMMA RoomLoad ==
  ASSUME IInv, Room, SmallPages, SoundElf(image), Growth, load_page
  PROVE  Room'
<1>1. /\ building \in {"kernel", "driver"} /\ Types /\ pc = "segments" /\ DOMAIN pt = Processes
      /\ Sound(pt["kernel"], memory_map) /\ Sound(pt["driver"], memory_map)
      /\ memory_map \in MemoryMaps /\ image \in Images /\ file_size \in Nat
      /\ fa \in Seq(UsableFrom(memory_map, 1)) /\ k \in Nat /\ s \in Nat \ {0}
  <2>1. pc = "segments"
    BY DEF load_page
  <2>. QED BY <2>1 DEF IInv, Stages, Types, Loading, Processes, Room
<1>2. KernelRuns => SegmentPages("kernel") \subseteq Mapped(pt["kernel"])
  BY DEF Room, SegmentsThere
<1>3. CASE fa = << >>
  <2>1. Panic(fa)
    BY <1>3, Zenon DEF load_page
  <2>2. pc' = "panicked" /\ fa' = << >> /\ file_size' \in Nat /\ building' = building
    BY <1>1, <1>3, <2>1 DEF Panic
  <2>3. KernelRuns' => KernelRuns
    BY <2>2 DEF KernelRuns
  <2>. QED BY <1>2, <2>2, <2>3, RoomStop
<1>4. CASE fa # << >>
  <2>1. PICK h, frame, from, cur, n, off, page, m :
          /\ h = Headers(building)[s] /\ frame = fa[1] /\ from = Advance(fa, 1)
          /\ cur = CurrentMap(frame, from) /\ n = Min({file_size, PageSize})
          /\ off = h.va % PageSize /\ page = SegPage(h, k)
          /\ m = map_to(pt[building], cur.fa, page, frame)
    OBVIOUS
  <2>2. /\ s <= Len(Headers(building)) /\ h.load /\ k < SegPages(h)
        /\ IF CopyFaults(cur.pt, frame, off, n)
           THEN pc' = "fault" /\ fa' = cur.fa /\ pt' = [pt EXCEPT !["kernel"] = cur.pt]
           ELSE /\ pc' = IF MapFatal(m.res) THEN "panicked" ELSE pc
                /\ fa' = m.fa
                /\ pt' = IF building = "kernel" THEN [pt EXCEPT !["kernel"] = m.pt]
                         ELSE [pt EXCEPT !["kernel"] = cur.pt, !["driver"] = m.pt]
        /\ k' = k + 1 /\ const' = const /\ building' = building /\ s' = s
        /\ file_size' = NextChunk(file_size)
    BY <1>4, <2>1, Zenon DEF load_page
  <2>3. file_size' \in Nat
    BY <1>1, <2>2, BuildAssumption DEF NextChunk
  <2>4. s \in 1 .. Len(Headers(building)) /\ Len(Headers(building)) \in Nat
    BY <1>1, <2>2, HeaderFacts
  <2>5. SegPages(h) \in Int /\ page \in Nat /\ k \in 0 .. (SegPages(h) - 1)
    <3>1. SegPages(h) \in Int /\ page \in Nat
      BY <1>1, <2>1, <2>4, HeaderFacts
    <3>. QED BY <1>1, <2>2, <3>1
  <2>6. UsableFrom(memory_map, 1) \subseteq Nat /\ Len(fa) \in Nat /\ Len(fa) >= 1
    BY <1>1, <1>4, FramesAreNumbers, EmptySeq
  <2>7. from \in Seq(UsableFrom(memory_map, 1)) /\ frame \in Nat
    BY <1>1, <2>1, <2>6, AdvanceKeeps
  <2>9. CASE building = "kernel"
    <3>1. cur.fa = from
      BY <2>1, <2>9 DEF CurrentMap
    <3>2. ~CopyFaults(cur.pt, frame, off, n) /\ ~MapFatal(m.res)
      BY <2>9, Zenon DEF CopyFaults, MapFatal
    <3>3. pc' = "segments" /\ fa' = m.fa /\ pt' = [pt EXCEPT !["kernel"] = m.pt]
      BY <1>1, <2>2, <2>9, <3>2, Zenon
    <3>4. pt'["kernel"] = m.pt
      BY <1>1, <3>3 DEF Processes
    <3>5. m = map_to(pt["kernel"], from, page, frame)
      BY <2>1, <2>9, <3>1
    <3>6. PageDone(pt["kernel"], from, page, frame, m) /\ LevelDone(pt["kernel"], from, memory_map, 1, page, m)
      BY <1>1, <2>5, <2>7, <3>5, PageCall
    <3>7. page \in SegmentPages("kernel") /\ page \in SegmentsOf(image["kernel"].headers)
      <4>1. page \in SegmentPages("kernel")
        BY <2>1, <2>2, <2>4, <2>5, <2>9, SegmentPageIs
      <4>. QED BY <4>1 DEF SegmentPages, Headers
    <3>8. HeapRoom'
      <4>1. heap_range \cap Mapped(pt["kernel"]) = {}
        BY <1>1, <2>9 DEF Room, HeapRoom
      <4>2. page \notin heap_range
        BY <1>1, <3>7, RegionsApart
      <4>3. Mapped(m.pt) \subseteq Mapped(pt["kernel"]) \cup {page}
        BY <3>6 DEF PageDone, Mapped
      <4>4. heap_range \cap Mapped(pt["kernel"])' = {}
        BY <3>4, <4>1, <4>2, <4>3
      <4>. QED BY <3>3, <4>4 DEF HeapRoom
    <3>9. fa' = << >> \/ SegmentsTo(s, k)'
      <4>1. SUFFICES ASSUME m.fa # << >> PROVE SegmentsTo(s, k)'
        BY <3>3
      <4>2. page \in Mapped(m.pt)
        <5>1. CASE page \in Mapped(pt["kernel"])
          BY <3>6, <5>1 DEF LevelDone, Grows
        <5>2. CASE page \notin Mapped(pt["kernel"])
          <6>1. m.res = "Ok"
            BY <3>6, <4>1, <5>2 DEF PageDone
          <6>. QED BY <3>6, <6>1 DEF PageDone
        <5>. QED BY <5>1, <5>2
      <4>3. PICK a, b : a = s /\ b = k /\ s' = a /\ k' = b + 1
        BY <2>2
      <4>4. SegmentsTo(a, b)'
        BY <1>1, <1>4, <2>9, <4>3, SegmentsKept DEF Room, SegmentsThere
      <4>5. Headers("kernel")' = Headers("kernel")
        BY SegmentsKept
      <4>6. SUFFICES ASSUME NEW g \in 1 .. Len(Headers("kernel")), Headers("kernel")[g].load,
                            NEW j \in 0 .. (SegPages(Headers("kernel")[g]) - 1),
                            g < a \/ (g = a /\ j < b + 1)
                     PROVE  SegPage(Headers("kernel")[g], j) \in Mapped(m.pt)
        BY <3>4, <4>3, <4>5 DEF SegmentsTo
      <4>7. CASE g < a \/ (g = a /\ j < b)
        BY <3>4, <4>4, <4>5, <4>6, <4>7 DEF SegmentsTo
      <4>8. CASE g = a /\ j = b
        BY <2>1, <2>9, <4>2, <4>3, <4>8
      <4>9. SegPages(Headers("kernel")[g]) \in Int /\ b \in Nat
        BY <1>1, <4>3, HeaderFacts
      <4>. QED BY <4>6, <4>7, <4>8, <4>9
    <3>10. SegmentsThere'
      <4>1. ~KernelRuns'
        BY <2>2, <2>9, <3>3 DEF KernelRuns
      <4>. QED BY <3>3, <3>9, <4>1 DEF SegmentsThere
    <3>. QED BY <2>3, <3>3, <3>8, <3>10 DEF Room, FixedRoom, SharedRoom
  <2>10. CASE building = "driver"
    <3>1. cur = map_to(pt["kernel"], from, frame, frame)
      BY <2>1, <2>10 DEF CurrentMap, identity_map
    <3>2. /\ PageDone(pt["kernel"], from, frame, frame, cur)
          /\ LevelDone(pt["kernel"], from, memory_map, 1, frame, cur)
      BY <1>1, <2>7, <3>1, PageCall
    <3>3. cur.fa \in Seq(UsableFrom(memory_map, 1))
      BY <3>2 DEF LevelDone
    <3>4. PageDone(pt["driver"], cur.fa, page, frame, m)
      BY <1>1, <2>1, <2>5, <2>7, <2>10, <3>3, PageCall
    <3>5. KernelRuns
      BY <2>10 DEF KernelRuns
    <3>6. CASE CopyFaults(cur.pt, frame, off, n)
      <4>1. pc' = "fault" /\ fa' = cur.fa
        BY <2>2, <3>6, Zenon
      <4>2. frame \notin Mapped(cur.pt)
        <5>1. s \in 1 .. Len(Headers("driver")) /\ h = Headers("driver")[s] /\ h.load
          BY <2>1, <2>2, <2>4, <2>10
        <5>. QED BY <1>1, <2>1, <2>7, <3>6, <5>1, AlignedCopy
      <4>3. frame \notin Mapped(pt["kernel"])
        BY <3>2, <4>2 DEF LevelDone, Grows
      <4>4. cur.fa = << >>
        BY <3>2, <4>2, <4>3 DEF PageDone
      <4>. QED BY <1>2, <2>3, <3>5, <4>1, <4>4, RoomStop
    <3>7. CASE ~CopyFaults(cur.pt, frame, off, n) /\ MapFatal(m.res)
      <4>1. pc' = "panicked" /\ fa' = m.fa
        BY <2>2, <3>7, Zenon
      <4>2. page \notin WindowPages(memory_map)
        <5>1. page \in SegmentsOf(image["driver"].headers)
          BY <2>1, <2>2, <2>4, <2>5, <2>10 DEF SegmentsOf, Headers
        <5>2. ({0} \cup WindowPages(memory_map)) \cap SegmentsOf(image["driver"].headers) = {}
          BY <1>1, RegionsAssumption, Zenon
        <5>. QED BY <5>1, <5>2
      <4>3. page \in Mapped(pt["driver"]) => TableOf(page, 1) \in DOMAIN pt["driver"].tables
        BY <4>2 DEF SmallPages
      <4>4. m.res = "FrameAllocationFailed"
        BY <3>4, <3>7, <4>3 DEF PageDone, MapFatal, Results
      <4>5. m.fa = << >>
        BY <3>4, <4>4 DEF PageDone
      <4>. QED BY <1>2, <2>3, <3>5, <4>1, <4>5, RoomStop
    <3>8. CASE ~CopyFaults(cur.pt, frame, off, n) /\ ~MapFatal(m.res)
      <4>1. pc' = "segments" /\ building' = "driver"
        BY <1>1, <2>2, <2>10, <3>8, Zenon
      <4>2. SegmentsThere'
        BY <1>2, <3>5, <4>1, SegmentsKept DEF SegmentsThere
      <4>. QED BY <2>3, <4>1, <4>2 DEF Room, FixedRoom, SharedRoom, HeapRoom
    <3>. QED BY <3>6, <3>7, <3>8
  <2>. QED BY <1>1, <2>9, <2>10
<1>. QED BY <1>3, <1>4

(* An empty address space has room for everything.                         *)
LEMMA RoomStart ==
  ASSUME building' \in {"kernel", "driver"}, s' = 1, pt'[building'] = EmptyTable
  PROVE  FixedRoom'
<1>1. Mapped(pt'[building']) = {} /\ DOMAIN pt'[building'].tables = {}
  BY EmptyTableFacts
<1>2. \A i : Free(building, i)'
  BY <1>1 DEF Free
<1>3. \A r : RestFree(building, r)'
  BY <1>1 DEF RestFree
<1>4. s' <= Len(FixedRanges(building))' + 1
  <2>1. Len(FixedRanges(building))' \in Nat
    BY DEF FixedRanges, KernelRanges, DriverRanges
  <2>. QED BY <2>1
<1>. QED BY <1>1, <1>2, <1>3, <1>4, Zenon DEF FixedRoom

(* The loader, up to the construction of the kernel's address space.       *)
LEMMA RoomLoader ==
  ASSUME IInv, Room,
         \/ get_memory_map \/ exit_boot_services \/ mem_init \/ init_heap_page \/ init_heap_done
  PROVE  Room'
<1>1. building = "loader" /\ pc \in Loading \cup {"init_heap_new"} /\ file_size \in Nat
  BY DEF IInv, Stages, Loading, Room, get_memory_map, exit_boot_services, mem_init,
         init_heap_page, init_heap_done, Goto
<1>2. pt["kernel"] = EmptyTable
  BY <1>1 DEF IInv, NoHeapTable
<1>3. CASE init_heap_done
  <2>1. /\ building' = "kernel" /\ pc' = "fixed" /\ s' = 1 /\ pt' = pt /\ file_size' = file_size
    BY <1>3 DEF init_heap_done
  <2>2. FixedRoom'
    BY <1>2, <2>1, RoomStart
  <2>. QED BY <1>1, <2>1, <2>2 DEF Room, HeapRoom, SharedRoom, SegmentsThere, KernelRuns
<1>4. CASE get_memory_map \/ exit_boot_services \/ mem_init \/ init_heap_page
  <2>1. /\ building' = "loader" /\ pc' \in Loading \cup {"init_heap_new", "efi_panic", "panicked"}
        /\ file_size' = file_size
    BY <1>1, <1>4 DEF get_memory_map, exit_boot_services, mem_init, init_heap_page, Goto, Panic,
                 MapNext, Loading
  <2>2. pc' = "panicked" => fa' = << >>
    BY <1>1, <1>4 DEF get_memory_map, exit_boot_services, mem_init, init_heap_page, Goto, Panic,
                 MapNext, Loading
  <2>. QED BY <1>1, <2>1, <2>2 DEF Room, FixedRoom, HeapRoom, SharedRoom, SegmentsThere,
                                   KernelRuns, Loading
<1>. QED BY <1>3, <1>4

(* The root table and the pages of the runtime services.                   *)
LEMMA RoomIdentity ==
  ASSUME IInv, Room, Growth, identity_map_root \/ map_runtime_page
  PROVE  Room'
<1>1. /\ building = "kernel" /\ pc \in {"built", "runtime"} /\ file_size \in Nat /\ Types
      /\ memory_map \in MemoryMaps /\ image \in Images /\ Sound(pt["kernel"], memory_map)
      /\ fa \in Seq(UsableFrom(memory_map, 1)) /\ k \in Nat /\ DOMAIN pt = Processes
  BY DEF IInv, Stages, Types, Loading, Processes, Room, identity_map_root, map_runtime_page
<1>2. PICK f, m :
        /\ f \in Physical(memory_map) /\ m = identity_map(pt["kernel"], fa, f) /\ fa' = m.fa
        /\ pt' = [pt EXCEPT !["kernel"] = m.pt]
        /\ pc' = "runtime" /\ building' = "kernel" /\ file_size' = file_size
  <2>1. CASE identity_map_root
    <3>1. PICK p, m, f :
            /\ p \in heap_range /\ f = translate_page(pt["loader"], p) /\ m = identity_map(pt["kernel"], fa, f)
            /\ pt' = [pt EXCEPT !["kernel"] = m.pt] /\ fa' = m.fa
      BY <2>1 DEF identity_map_root
    <3>2. f \in UsableFrom(memory_map, 1)
      BY <1>1, <3>1 DEF translate_page, IInv, LoaderHeap
    <3>3. pc' = "runtime" /\ building' = "kernel" /\ file_size' = file_size
      BY <1>1, <2>1 DEF identity_map_root
    <3>. QED BY <3>1, <3>2, <3>3 DEF Physical
  <2>2. CASE map_runtime_page
    <3>1. k + 1 \in 1 .. Len(RuntimePages)
      BY <1>1, <2>2, RuntimeFacts DEF map_runtime_page
    <3>2. PICK f, m : f = RuntimePages[k + 1] /\ m = identity_map(pt["kernel"], fa, f)
      OBVIOUS
    <3>3. f \in Physical(memory_map)
      BY <1>1, <3>1, <3>2, RuntimeFacts DEF Physical
    <3>4. /\ pt' = [pt EXCEPT !["kernel"] = m.pt] /\ fa' = m.fa
          /\ pc' = "runtime" /\ building' = "kernel" /\ file_size' = file_size
      BY <1>1, <2>2, <3>2 DEF map_runtime_page, MapNext
    <3>. QED BY <3>2, <3>3, <3>4
  <2>. QED BY <2>1, <2>2
<1>3. pt'["kernel"] = m.pt
  BY <1>1, <1>2 DEF Processes
<1>4. f \in Nat /\ f \notin heap_range
  BY <1>1, <1>2, LayoutFacts
<1>5. /\ PageDone(pt["kernel"], fa, f, f, m)
      /\ LevelDone(pt["kernel"], fa, memory_map, 1, f, m)
  BY <1>1, <1>2, <1>4, PageCall DEF identity_map
<1>6. Mapped(m.pt) \subseteq Mapped(pt["kernel"]) \cup {f}
  BY <1>5 DEF PageDone, Mapped
<1>7. HeapRoom'
  <2>1. heap_range \cap Mapped(pt["kernel"]) = {}
    BY <1>1 DEF Room, HeapRoom
  <2>2. heap_range \cap Mapped(pt["kernel"])' = {}
    BY <1>3, <1>4, <1>6, <2>1
  <2>. QED BY <1>2, <2>2 DEF HeapRoom
<1>8. fa' = << >> \/ SegmentPages("kernel")' \subseteq Mapped(pt["kernel"])'
  <2>1. fa = << >> \/ SegmentPages("kernel") \subseteq Mapped(pt["kernel"])
    BY <1>1 DEF Room, SegmentsThere
  <2>2. fa = << >> => fa' = << >>
    BY <1>2, <1>5 DEF LevelDone
  <2>. QED BY <2>1, <2>2, SegmentsKept
<1>9. SegmentsThere'
  BY <1>2, <1>8 DEF SegmentsThere, KernelRuns
<1>. QED BY <1>1, <1>2, <1>7, <1>9 DEF Room, FixedRoom, SharedRoom

(* One page of the heap's copy.                                            *)
LEMMA RoomCopy ==
  ASSUME IInv, Room, Growth, copy_heap_page
  PROVE  Room'
<1>1. /\ pc = "copy" /\ building = "kernel" /\ k \in Nat /\ k < HeapPages /\ file_size \in Nat
      /\ memory_map \in MemoryMaps /\ Sound(pt["kernel"], memory_map)
      /\ Sound(pt["loader"], memory_map) /\ DOMAIN pt = Processes
      /\ fa \in Seq(UsableFrom(memory_map, 1)) /\ HeapPages \in Nat /\ HeapStartPage \in Nat
  BY HeapNumbers DEF copy_heap_page, IInv, Stages, Types, Loading, Processes, Room
<1>2. PICK page, frame, m :
        /\ page = HeapStartPage + k /\ frame = translate_page(pt["loader"], page)
        /\ m = map_to(pt["kernel"], fa, page, frame)
  OBVIOUS
<1>3. page \in heap_range /\ page \in Nat
  BY <1>1, <1>2 DEF heap_range
<1>4. page \in Mapped(pt["loader"])
  BY <1>1, <1>3 DEF IInv, LoaderHeap
<1>5. frame \in Nat
  BY <1>1, <1>2, <1>4 DEF translate_page, Sound, PtOK, Mapped
<1>6. IF m.res # "Ok" THEN Panic(m.fa) ELSE MapNext(m, fa)
  BY <1>1, <1>2, <1>4, Zenon DEF copy_heap_page, HeapPage
<1>7. PageDone(pt["kernel"], fa, page, frame, m)
  BY <1>1, <1>2, <1>3, <1>5, PageCall
<1>8. \A j \in k .. (HeapPages - 1) : HeapStartPage + j \notin Mapped(pt["kernel"])
  BY <1>1 DEF Room, HeapRoom
<1>9. page \notin Mapped(pt["kernel"])
  BY <1>1, <1>2, <1>8
<1>10. CASE m.res # "Ok"
  <2>1. m.fa = << >>
    BY <1>7, <1>9, <1>10 DEF PageDone
  <2>2. pc' = "panicked" /\ fa' = << >> /\ file_size' \in Nat /\ building' = "kernel"
    BY <1>1, <1>6, <1>10, <2>1 DEF Panic
  <2>3. ~KernelRuns'
    BY <2>2 DEF KernelRuns
  <2>. QED BY <2>2, <2>3, RoomStop
<1>11. CASE m.res = "Ok"
  <2>1. /\ pt' = [pt EXCEPT !["kernel"] = m.pt] /\ fa' = m.fa /\ k' = k + 1
        /\ building' = "kernel" /\ pc' = "copy" /\ file_size' = file_size
    BY <1>1, <1>6, <1>11 DEF MapNext
  <2>2. pt'["kernel"] = m.pt
    BY <1>1, <2>1 DEF Processes
  <2>3. Mapped(pt["kernel"])' = Mapped(pt["kernel"]) \cup {page}
    BY <1>7, <1>11, <2>2 DEF PageDone
  <2>4. HeapRoom'
    <3>1. ASSUME NEW j \in (k + 1) .. (HeapPages - 1)
          PROVE  HeapStartPage + j \notin Mapped(pt["kernel"])'
      <4>1. j \in k .. (HeapPages - 1) /\ HeapStartPage + j # page
        BY <1>1, <1>2, <3>1
      <4>. QED BY <1>8, <2>3, <4>1
    <3>. QED BY <2>1, <3>1 DEF HeapRoom
  <2>5. SegmentPages("kernel") \subseteq Mapped(pt["kernel"])
    <3>1. SUFFICES ASSUME fa = << >>, k = 0 PROVE FALSE
      BY <1>1 DEF Room, SegmentsThere
    <3>2. TableOf(page, 1) \in DOMAIN pt["kernel"].tables
      BY <1>7, <1>11, <3>1 DEF PageDone
    <3>3. page = HeapStartPage
      BY <1>1, <1>2, <3>1
    <3>. QED BY <1>1, <3>1, <3>2, <3>3 DEF IInv, NoHeapTable
  <2>6. SegmentsThere'
    BY <2>1, <2>5, SegmentsKept DEF SegmentsThere, KernelRuns
  <2>. QED BY <1>1, <2>1, <2>4, <2>6 DEF Room, FixedRoom, SharedRoom
<1>. QED BY <1>10, <1>11

(* From one loop to the next, and the kernel's allocator.                  *)
LEMMA RoomJump ==
  ASSUME IInv, Room, Growth,
         set_virtual_address_map \/ jump_to_kernel \/ new_kernel_process \/ swap_map
  PROVE  Room'
<1>1. file_size \in Nat /\ HeapPages \in Nat \ {0} /\ HeapStartPage \in Nat
  BY HeapNumbers DEF Room
<1>2. CASE set_virtual_address_map
  <2>1. /\ pc = "runtime" /\ pc' = "copy" /\ building = "kernel" /\ building' = "kernel"
        /\ k' = 0 /\ pt' = pt /\ fa' = fa /\ file_size' = file_size
    BY <1>2 DEF set_virtual_address_map, Goto, IInv, Stages, Loading
  <2>2. HeapRoom'
    <3>1. heap_range \cap Mapped(pt["kernel"]) = {}
      BY <2>1 DEF Room, HeapRoom
    <3>2. \A j \in 0 .. (HeapPages - 1) : HeapStartPage + j \in heap_range
      BY <1>1 DEF heap_range
    <3>3. \A j \in 0 .. (HeapPages - 1) : HeapStartPage + j \notin Mapped(pt["kernel"])
      BY <3>1, <3>2
    <3>. QED BY <2>1, <3>3 DEF HeapRoom
  <2>3. fa = << >> \/ SegmentPages("kernel") \subseteq Mapped(pt["kernel"])
    BY <2>1 DEF Room, SegmentsThere
  <2>4. SegmentsThere'
    BY <2>1, <2>3, SegmentsKept DEF SegmentsThere, KernelRuns
  <2>. QED BY <1>1, <2>1, <2>2, <2>4 DEF Room, FixedRoom, SharedRoom
<1>3. CASE jump_to_kernel
  <2>1. /\ pc = "copy" /\ pc' = "swap_map" /\ k = HeapPages /\ file_size' = file_size
    BY <1>3 DEF jump_to_kernel, Goto
  <2>2. SegmentPages("kernel") \subseteq Mapped(pt["kernel"])
    BY <1>1, <2>1 DEF Room, SegmentsThere
  <2>. QED BY <1>1, <2>1, <2>2, SegmentsKept DEF Room, FixedRoom, HeapRoom, SharedRoom, SegmentsThere
<1>4. CASE new_kernel_process
  <2>1. building = "driver" /\ building' = "driver" /\ pc' = "running" /\ file_size' = file_size
    BY <1>4 DEF new_kernel_process, Goto
  <2>2. SegmentPages("kernel") \subseteq Mapped(pt["kernel"])
    BY <2>1 DEF Room, SegmentsThere, KernelRuns
  <2>. QED BY <1>1, <2>1, <2>2, SegmentsKept DEF Room, FixedRoom, HeapRoom, SharedRoom, SegmentsThere
<1>5. CASE swap_map
  <2>1. /\ pc = "swap_map" /\ building' = building /\ file_size' = file_size
        /\ pc' \in {"panicked", "swap_panic", "ioapic"} /\ (pc' = "panicked" => fa' = << >>)
    BY <1>5 DEF swap_map, Panic
  <2>2. SegmentPages("kernel") \subseteq Mapped(pt["kernel"])
    BY <2>1 DEF Room, SegmentsThere, KernelRuns
  <2>. QED BY <1>1, <2>1, <2>2, SegmentsKept DEF Room, FixedRoom, HeapRoom, SharedRoom, SegmentsThere
<1>. QED BY <1>2, <1>3, <1>4, <1>5

(* The I/O APIC's registers are there unless the frames have run out.      *)
LEMMA RoomIoApic ==
  ASSUME IInv, Room, DriverLater, Growth, ioapic_init
  PROVE  Room'
<1>1. /\ pc = "ioapic" /\ building = "kernel" /\ building' = "driver" /\ s' = 1
      /\ file_size' = file_size /\ file_size \in Nat /\ DOMAIN pt = Processes
      /\ memory_map \in MemoryMaps /\ Sound(pt["kernel"], memory_map) /\ IoApicPage \in Nat
      /\ fa \in Seq(UsableFrom(memory_map, 1)) /\ Low(pt["kernel"], memory_map)
  BY HeapNumbers DEF ioapic_init, IInv, Stages, Types, Loading, Processes, Room, LowIdentity, Low
<1>2. PICK m1, m2 :
        /\ m1 = identity_map(pt["kernel"], fa, IoApicPage)
        /\ m2 = IF m1.res = "Ok" THEN identity_map(m1.pt, m1.fa, IoApicPage + 1) ELSE m1
        /\ pt' = [pt EXCEPT !["kernel"] = m2.pt] /\ fa' = m2.fa
        /\ pc' = IF IoApicPage \in Mapped(m2.pt) THEN "fixed" ELSE "fault"
  BY DEF ioapic_init
<1>3. SegmentPages("kernel") \subseteq Mapped(pt["kernel"])
  BY <1>1 DEF Room, SegmentsThere, KernelRuns
<1>4. PageDone(pt["kernel"], fa, IoApicPage, IoApicPage, m1)
  BY <1>1, <1>2, PageCall DEF identity_map
<1>5. /\ Sound(m1.pt, memory_map) /\ Grows(pt["kernel"], m1.pt)
      /\ m1.fa \in Seq(UsableFrom(memory_map, 1)) /\ Low(m1.pt, memory_map)
  BY <1>1, <1>2, IdentityKept
<1>6. Grows(m1.pt, m2.pt)
  <2>1. CASE m1.res = "Ok"
    <3>1. m2 = identity_map(m1.pt, m1.fa, IoApicPage + 1) /\ IoApicPage + 1 \in Nat
      BY <1>1, <1>2, <2>1
    <3>. QED BY <1>1, <1>5, <3>1, IdentityKept
  <2>2. CASE m1.res # "Ok"
    BY <1>2, <2>2, GrowsSame
  <2>. QED BY <2>1, <2>2
<1>7. CASE IoApicPage \in Mapped(m2.pt)
  <2>1. pc' = "fixed"
    BY <1>2, <1>7
  <2>2. pt'["driver"] = EmptyTable
    BY <1>1, <1>2 DEF DriverLater, Processes
  <2>3. FixedRoom'
    BY <1>1, <2>2, RoomStart
  <2>. QED BY <1>1, <1>3, <2>1, <2>3, SegmentsKept DEF Room, HeapRoom, SharedRoom, SegmentsThere
<1>8. CASE IoApicPage \notin Mapped(m2.pt)
  <2>1. IoApicPage \notin Mapped(m1.pt) /\ IoApicPage \notin Mapped(pt["kernel"])
    BY <1>5, <1>6, <1>8 DEF Grows
  <2>2. m1.res # "Ok" /\ m1.fa = << >>
    BY <1>4, <2>1 DEF PageDone
  <2>3. pc' = "fault" /\ fa' = << >> /\ file_size' \in Nat
    BY <1>1, <1>2, <1>8, <2>2
  <2>. QED BY <1>3, <2>3, RoomStop
<1>. QED BY <1>7, <1>8

(* The steps behind the loader's heap come after the loader's table.       *)
LEMMA PastLoader ==
  ASSUME IInv,
         \/ BuildNext
         \/ identity_map_root \/ map_runtime_page \/ copy_heap_page
         \/ set_virtual_address_map \/ jump_to_kernel \/ new_kernel_process
         \/ swap_map \/ ioapic_init
  PROVE  building # "loader"
<1>1. ASSUME BuildNext PROVE pc \in {"fixed", "kernel_pages", "headers", "segments"}
  <2>1. CASE map_fixed
    BY <2>1, Zenon DEF map_fixed
  <2>2. CASE map_kernel_page
    BY <2>2, Zenon DEF map_kernel_page
  <2>3. CASE load_page
    BY <2>3, Zenon DEF load_page
  <2>4. CASE next_fixed \/ fixed_done \/ next_kernel_segment \/ kernel_pages_done
             \/ progam_headers \/ segment \/ next_segment \/ from_elf_done
    BY <2>4 DEF next_fixed, fixed_done, next_kernel_segment, kernel_pages_done,
                progam_headers, segment, next_segment, from_elf_done
  <2>. QED BY <1>1, <2>1, <2>2, <2>3, <2>4 DEF BuildNext
<1>2. ASSUME identity_map_root \/ map_runtime_page \/ copy_heap_page
      PROVE  pc \in {"built", "runtime", "copy"}
  BY <1>2, Zenon DEF identity_map_root, map_runtime_page, copy_heap_page
<1>3. ASSUME \/ set_virtual_address_map \/ jump_to_kernel \/ new_kernel_process
             \/ swap_map \/ ioapic_init
      PROVE  pc \in {"runtime", "built", "copy", "swap_map", "ioapic"}
  BY <1>3 DEF set_virtual_address_map, jump_to_kernel, new_kernel_process, swap_map,
              ioapic_init, Goto
<1>. QED BY <1>1, <1>2, <1>3 DEF IInv, Stages, Loading

(* Every step leaves the room that the later ones need.                    *)
LEMMA RoomNext ==
  IInv /\ DriverLater /\ SmallPages /\ (SoundElf(image) => Room) /\ [Next]_vars
    => (SoundElf(image) => Room)'
<1>. SUFFICES ASSUME IInv, DriverLater, SmallPages, SoundElf(image) => Room, [Next]_vars,
                     SoundElf(image')
              PROVE  Room'
  OBVIOUS
<1>0. building = "loader" \/ Growth
  BY IInvNext
<1>1. CASE get_memory_map \/ exit_boot_services \/ mem_init \/ init_heap_page \/ init_heap_done
  <2>1. image' = image
    BY <1>1 DEF get_memory_map, exit_boot_services, mem_init, init_heap_page, init_heap_done,
                Goto, Panic, MapNext, const
  <2>2. SoundElf(image)
    BY <2>1
  <2>. QED BY <1>1, <2>2, RoomLoader
<1>2. CASE finished \/ UNCHANGED vars
  <2>1. UNCHANGED <<memory_map, image, pt, fa, building, pc, s, k, file_size>>
    BY <1>2 DEF finished, vars
  <2>2. SoundElf(image)
    BY <2>1
  <2>3. Room
    BY <2>2
  <2>4. /\ FixedRoom' <=> FixedRoom
        /\ HeapRoom' <=> HeapRoom
        /\ SharedRoom' <=> SharedRoom
        /\ SegmentsThere' <=> SegmentsThere
    BY <2>1 DEF FixedRoom, HeapRoom, SharedRoom, SegmentsThere, SegmentsTo, Free, RestFree,
                FixedRanges, KernelRanges, DriverRanges, Window, LoaderCode, Passed,
                SegmentPages, Headers, KernelRuns
  <2>. QED BY <2>1, <2>3, <2>4 DEF Room
<1>3. CASE \/ BuildNext
           \/ identity_map_root \/ map_runtime_page \/ copy_heap_page
           \/ set_virtual_address_map \/ jump_to_kernel \/ new_kernel_process
           \/ swap_map \/ ioapic_init
  <2>1. building # "loader"
    BY <1>3, PastLoader
  <2>2. Growth
    BY <1>0, <2>1
  <2>3. SoundElf(image)
    BY <2>2 DEF Growth
  <2>4. Room
    BY <2>3
  <2>5. CASE BuildNext
    BY <2>2, <2>3, <2>4, <2>5, RoomFixed, RoomNextFixed, RoomQuiet, RoomKernelPage, RoomLoad
       DEF BuildNext
  <2>. QED BY <1>3, <2>2, <2>4, <2>5, RoomIdentity, RoomCopy, RoomJump, RoomIoApic
<1>4. CASE table_fault
  <2>1. /\ pc' = "table_fault" /\ (building = "kernel" => pc = "ioapic")
        /\ UNCHANGED <<memory_map, image, pt, building, file_size>>
        /\ building \in {"kernel", "driver"}
    BY <1>4, FaultFacts
  <2>2. SoundElf(image)
    BY <2>1
  <2>3. Room
    BY <2>2
  <2>4. FixedRoom' /\ HeapRoom' /\ SharedRoom'
    BY <2>1 DEF FixedRoom, HeapRoom, SharedRoom
  <2>5. KernelRuns' => KernelRuns
    BY <2>1 DEF KernelRuns
  <2>6. SegmentsThere'
    BY <2>1, <2>3, <2>5 DEF Room, SegmentsThere, SegmentPages, Headers
  <2>. QED BY <2>1, <2>3, <2>4, <2>6 DEF Room
<1>. QED BY <1>1, <1>2, <1>3, <1>4 DEF Next

(* The pages that the boot has yet to map are free in every reachable      *)
(* state, when the ELF files are sound.                                    *)
LEMMA RoomInvariance ==
  Spec => [](IInv /\ DriverLater /\ SmallPages /\ (SoundElf(image) => Room))
<1>1. Init => DriverLater /\ SmallPages /\ (SoundElf(image) => Room)
  <2>1. ASSUME Init PROVE DriverLater /\ SmallPages /\ Room
    <3>1. \A w \in Processes : pt[w] = EmptyTable
      BY <2>1 DEF Init, Processes
    <3>2. /\ pc = "get_memory_map" /\ building = "loader" /\ file_size = 0
      BY <2>1 DEF Init
    <3>3. SmallPages
      <4>1. Mapped(pt["driver"]) = {}
        BY <3>1, EmptyTableFacts DEF Processes
      <4>. QED BY <4>1 DEF SmallPages
    <3>. QED BY <3>1, <3>2, <3>3 DEF DriverLater, Processes, Room, FixedRoom, HeapRoom, SharedRoom,
                                     SegmentsThere, KernelRuns
  <2>. QED BY <2>1
<1>2. IInv /\ DriverLater /\ [Next]_vars => DriverLater'
  BY DriverLaterNext
<1>3. IInv /\ [Next]_vars => IInv'
  BY IInvNext
<1>4. IInv /\ DriverLater /\ SmallPages /\ (SoundElf(image) => Room) /\ [Next]_vars
        => (SoundElf(image) => Room)'
  BY RoomNext
<1>5. IInv /\ DriverLater /\ SmallPages /\ [Next]_vars => SmallPages'
  BY SmallPagesNext
<1>. QED BY <1>1, <1>2, <1>3, <1>4, <1>5, IInvInit, PTL DEF Spec

(* A boot with sound ELF files stops early for one reason only: the        *)
(* allocator is empty.  None of the unwraps on map_to's result in          *)
(* ElfProcess::new, map_kernel_page, from_elf and run() (process.rs        *)
(* 61-280, the loader's main.rs) meets a page that is mapped already, and  *)
(* no page of the kernel that a process is shown is missing: the ranges of *)
(* the layout stay apart, whatever the sizes of the files, the memory map  *)
(* and the device pages within RegionsAssumption.                          *)
THEOREM StopsForMemory == Spec => []StopsOnlyWithoutMemory
<1>1. (SoundElf(image) => Room) => StopsOnlyWithoutMemory
  BY DEF Room, StopsOnlyWithoutMemory
<1>. QED BY <1>1, RoomInvariance, PTL
-------------------------------------------------------------------------------
(* The bytes of the files.  Page j of segment n of a process w, with h its *)
(* header; what its frame holds once it is mapped; and what the pages that *)
(* are still to be loaded must be like.                                    *)
SegmentPage(im, w, n, h, j) ==
  /\ n \in 1 .. Len(im[w].headers) /\ h = im[w].headers[n] /\ h.load
  /\ j \in 0 .. (SegPages(h) - 1)

HoldsBytes(w, h, j, f) ==
  \A c \in 0 .. (PageSize - 1) : PageSize * j + c < h.filesz =>
    /\ PageSize * f + c \in DOMAIN mem
    /\ mem[PageSize * f + c] = <<w, h.offset + (PageSize * j + c)>>

InMemory ==
  \A w \in {"kernel", "driver"} : \A n, h, j :
    SegmentPage(image, w, n, h, j) /\ SegPage(h, j) \in Mapped(pt[w]) =>
      HoldsBytes(w, h, j, pt[w].map[SegPage(h, j)])

Unloaded ==
  pc \in Constructing =>
    \A n, h, j : SegmentPage(image, building, n, h, j) /\ (pc = "segments" => ~Passed(n, j)) =>
      SegPage(h, j) \notin Mapped(pt[building])

DriverThere ==
  building = "driver" /\ pc \in {"segments", "built", "running"} =>
    \A n, h, j : /\ SegmentPage(image, "driver", n, h, j) /\ h.filesz > 0
                 /\ pc = "segments" => Passed(n, j)
                 => SegPage(h, j) \in Mapped(pt["driver"])

ChunkLeft ==
  pc = "segments" =>
    \A h : s <= Len(Headers(building)) /\ h = Headers(building)[s] /\ PageSize * k < h.filesz =>
      file_size = h.filesz - PageSize * k

Arriving == InMemory /\ Unloaded /\ DriverThere /\ ChunkLeft

(* The numbers of a page of a segment.                                     *)
LEMMA SegmentPageFacts ==
  ASSUME Types, NEW w \in {"kernel", "driver"}, NEW n, NEW h, NEW j,
         SegmentPage(image, w, n, h, j)
  PROVE  /\ h = Headers(w)[n] /\ n \in 1 .. Len(Headers(w)) /\ n \in Nat \ {0}
         /\ h \in ProgramHeader /\ SegPages(h) \in Int /\ j \in Nat /\ SegPage(h, j) \in Nat
         /\ SegPage(h, j) \in SegmentsOf(image[w].headers)
<1>1. /\ h = Headers(w)[n] /\ n \in 1 .. Len(Headers(w)) /\ h.load
      /\ j \in 0 .. (SegPages(h) - 1)
  BY DEF SegmentPage, Headers
<1>2. h \in ProgramHeader /\ SegPages(h) \in Int
  BY <1>1, HeaderFacts
<1>3. n \in Nat \ {0} /\ j \in Nat
  BY <1>1, <1>2, HeaderFacts
<1>4. SegPage(h, j) \in Nat
  BY <1>1, <1>3, HeaderFacts
<1>5. SegPage(h, j) \in SegmentsOf(image[w].headers)
  BY <1>1 DEF SegmentsOf, Headers
<1>. QED BY <1>1, <1>2, <1>3, <1>4, <1>5

(* With loadable files a process's segments stand on frames of their own.  *)
LEMMA LoadableOwn ==
  ASSUME NEW im, LoadableElf(im), NEW w \in {"kernel", "driver"}
  PROVE  SegmentsOf(im[w].headers) \subseteq Own(im, w)
<1>1. SegmentsOf(im["driver"].headers) \cap SegmentsOf(im["kernel"].headers) = {}
  BY DEF LoadableElf
<1>2. /\ Own(im, "kernel") = (StackLow .. StackHigh) \cup SegmentsOf(im["kernel"].headers)
      /\ Own(im, "driver") = (StackLow .. StackHigh) \cup
           (SegmentsOf(im["driver"].headers) \ SegmentsOf(im["kernel"].headers))
  BY DEF Own
<1>. QED BY <1>1, <1>2

(* In loadable files a page belongs to one segment.                        *)
LEMMA LoadablePages ==
  ASSUME Types, LoadableElf(image), NEW w \in {"kernel", "driver"},
         NEW n, NEW h, NEW j, SegmentPage(image, w, n, h, j),
         NEW o, NEW g, NEW i, SegmentPage(image, w, o, g, i),
         SegPage(h, j) = SegPage(g, i)
  PROVE  n = o /\ h = g /\ j = i
<1>1. /\ n \in Nat /\ o \in Nat /\ j \in Nat /\ i \in Nat /\ h \in ProgramHeader
  BY SegmentPageFacts
<1>2. PagesApart(image[w].headers)
  BY Zenon DEF LoadableElf, SoundElf
<1>3. ASSUME NEW a, NEW b, NEW c, NEW d, NEW x, NEW y, a < b,
             SegmentPage(image, w, a, c, x), SegmentPage(image, w, b, d, y)
      PROVE  SegPage(c, x) # SegPage(d, y)
  <2>1. PICK H : H = image[w].headers
    OBVIOUS
  <2>2. /\ a \in 1 .. Len(H) /\ b \in 1 .. Len(H) /\ c = H[a] /\ d = H[b] /\ H[a].load /\ H[b].load
        /\ x \in 0 .. (SegPages(H[a]) - 1) /\ y \in 0 .. (SegPages(H[b]) - 1)
    BY <1>3, <2>1 DEF SegmentPage
  <2>3. {SegPage(H[a], e) : e \in 0 .. (SegPages(H[a]) - 1)}
          \cap {SegPage(H[b], e) : e \in 0 .. (SegPages(H[b]) - 1)} = {}
    <3>1. PagesApart(H)
      BY <1>2, <2>1
    <3>. QED BY <1>3, <2>2, <3>1, Zenon DEF PagesApart
  <2>. QED BY <2>2, <2>3
<1>4. n = o
  BY <1>1, <1>3
<1>5. h = g
  BY <1>4 DEF SegmentPage
<1>6. j = i
  <2>1. PICK c \in Nat : c = Containing(h.va)
    <3>1. h.va \in Nat /\ PageSize \in Nat \ {0}
      BY <1>1, BuildAssumption DEF ProgramHeader
    <3>. QED BY <3>1, Division DEF Containing
  <2>2. c + j = c + i
    BY <1>5, <2>1 DEF SegPage
  <2>. QED BY <1>1, <2>1, <2>2
<1>. QED BY <1>4, <1>5, <1>6

(* Frames are apart, cell by cell.                                         *)
FrameCells(f) == (PageSize * f) .. (PageSize * f + PageSize - 1)

(* Cells of two frames differ.                                             *)
LEMMA CellsApart ==
  ASSUME NEW f \in Nat, NEW g \in Nat, f # g, NEW c \in 0 .. (PageSize - 1)
  PROVE  PageSize * f + c \notin FrameCells(g)
<1>1. PICK z \in Nat \ {0} : z = PageSize
  BY BuildAssumption
<1>2. PICK x \in Nat, y \in Nat : x = z * f /\ y = z * g
  BY <1>1
<1>3. x + z <= y \/ y + z <= x
  <2>1. CASE f < g
    BY <1>2, <2>1, NextMultiple
  <2>2. CASE g < f
    BY <1>2, <2>2, NextMultiple
  <2>. QED BY <2>1, <2>2
<1>4. x + c \notin y .. (y + z - 1)
  BY <1>1, <1>3
<1>. QED BY <1>1, <1>2, <1>4 DEF FrameCells

(* The frames of r are frames of q.                                        *)
Draws(q, r) == \A i \in 1 .. Len(r) : \E j \in 1 .. Len(q) : r[i] = q[j]

(* What is left of a sequence is drawn from it.                            *)
LEMMA AdvanceDraws ==
  ASSUME NEW S, NEW q \in Seq(S), NEW n \in 0 .. Len(q)
  PROVE  Draws(q, Advance(q, n)) /\ Len(Advance(q, n)) = Len(q) - n
<1>1. Len(Advance(q, n)) = Len(q) - n
  BY DEF Advance
<1>2. \A i \in 1 .. (Len(q) - n) : Advance(q, n)[i] = q[i + n] /\ i + n \in 1 .. Len(q)
  BY DEF Advance
<1>. QED BY <1>1, <1>2 DEF Draws

(* Drawing twice is drawing.                                               *)
LEMMA DrawsOn ==
  ASSUME NEW p, NEW q, NEW r, Draws(p, q), Draws(q, r)
  PROVE  Draws(p, r)
BY Zenon DEF Draws

(* Creating tables leaves the cells of every other frame alone.            *)
LEMMA ZeroedKeeps ==
  ASSUME NEW S, NEW q \in Seq(S), NEW T, NEW r \in Seq(T), NEW y, NEW c \in DOMAIN y,
         \A i \in 1 .. Len(q) : c \notin FrameCells(q[i])
  PROVE  c \in DOMAIN Zeroed(y, NewTables(q, r)) /\ Zeroed(y, NewTables(q, r))[c] = y[c]
<1>1. c \notin Cells(NewTables(q, r))
  <2>1. SUFFICES ASSUME c \in Cells(NewTables(q, r)) PROVE FALSE
    OBVIOUS
  <2>2. PICK f \in NewTables(q, r) : c \in (PageSize * f) .. (PageSize * f + PageSize - 1)
    BY <2>1, Zenon DEF Cells
  <2>3. PICK i \in 1 .. (Len(q) - Len(r)) : f = q[i]
    BY <2>2, Zenon DEF NewTables
  <2>4. i \in 1 .. Len(q)
    BY <2>3
  <2>. QED BY <2>2, <2>3, <2>4 DEF FrameCells
<1>. QED BY <1>1, Zenon DEF Zeroed

(* What a step may do to memory: change cells of frames that the allocator *)
(* has still to issue.                                                     *)
MemKept ==
  \A c \in DOMAIN mem : (\A i \in 1 .. Len(fa) : c \notin FrameCells(fa[i])) =>
    c \in DOMAIN mem' /\ mem'[c] = mem[c]

(* New tables clear frames of the allocator only.                          *)
LEMMA TablesKept ==
  ASSUME Types, NEW q \in Seq(UsableFrom(memory_map, 1)), Draws(fa, q),
         NEW r \in Seq(UsableFrom(memory_map, 1)), mem' = Zeroed(mem, NewTables(q, r))
  PROVE  MemKept
<1>1. ASSUME NEW c \in DOMAIN mem, \A i \in 1 .. Len(fa) : c \notin FrameCells(fa[i])
      PROVE  c \in DOMAIN mem' /\ mem'[c] = mem[c]
  <2>1. \A i \in 1 .. Len(q) : c \notin FrameCells(q[i])
    BY <1>1, Zenon DEF Draws
  <2>2. PICK y : y = mem
    OBVIOUS
  <2>3. /\ c \in DOMAIN Zeroed(y, NewTables(q, r)) /\ Zeroed(y, NewTables(q, r))[c] = y[c]
    BY <1>1, <2>1, <2>2, ZeroedKeeps
  <2>. QED BY <2>2, <2>3
<1>. QED BY <1>1 DEF MemKept

(* No page of a segment of w appears in the step.                          *)
NoSegment(w) ==
  \A p \in Mapped(pt[w])' : p \in Mapped(pt[w]) \/ p \notin SegmentsOf(image[w].headers)

(* A page that holds its bytes keeps them: its frame is its own, and the   *)
(* allocator does not have it.                                             *)
LEMMA HeldKeeps ==
  ASSUME Types, Exclusive, LoadableElf(image), MemKept, NEW w \in {"kernel", "driver"},
         NEW n, NEW h, NEW j, SegmentPage(image, w, n, h, j),
         SegPage(h, j) \in Mapped(pt[w]), HoldsBytes(w, h, j, pt[w].map[SegPage(h, j)])
  PROVE  HoldsBytes(w, h, j, pt[w].map[SegPage(h, j)])'
           \/ pt'[w].map[SegPage(h, j)] # pt[w].map[SegPage(h, j)]
<1>1. PICK page, f : page = SegPage(h, j) /\ f = pt[w].map[page] /\ page \in Mapped(pt[w])
  OBVIOUS
<1>2. page \in Own(image, w)
  <2>1. page \in SegmentsOf(image[w].headers)
    BY <1>1, SegmentPageFacts
  <2>. QED BY <2>1, LoadableOwn
<1>3. f \in Nat /\ \A i \in 1 .. Len(fa) : f < fa[i]
  <2>1. w \in Processes
    BY DEF Processes
  <2>2. <<w, "page", page>> \in Holders(image, pt) /\ FrameOf(pt, <<w, "page", page>>) = f
    <3>1. HolderForms(image, pt)
      BY HoldersAre
    <3>2. page \in Mapped(pt[w]) \cap Own(image, w)
      BY <1>1, <1>2
    <3>3. <<w, "page", page>> \in Holders(image, pt)
      BY <2>1, <3>1, <3>2, Zenon DEF HolderForms
    <3>4. FrameOf(pt, <<w, "page", page>>) = pt[w].map[page]
      BY <3>1, Zenon DEF HolderForms
    <3>. QED BY <1>1, <3>3, <3>4
  <2>. QED BY <2>2, Zenon DEF Exclusive, Apart
<1>4. \A i \in 1 .. Len(fa) : fa[i] \in Nat /\ fa[i] # f
  <2>1. fa \in Seq(UsableFrom(memory_map, 1)) /\ memory_map \in MemoryMaps
    BY DEF Types
  <2>2. \A i \in 1 .. Len(fa) : fa[i] \in Nat
    BY <2>1, FramesAreNumbers
  <2>. QED BY <1>3, <2>2
<1>5. ASSUME NEW c \in 0 .. (PageSize - 1), PageSize * j + c < h.filesz
      PROVE  /\ PageSize * f + c \in DOMAIN mem'
             /\ mem'[PageSize * f + c] = <<w, h.offset + (PageSize * j + c)>>
  <2>1. PICK x : x = PageSize * f + c
    OBVIOUS
  <2>2. x \in DOMAIN mem /\ mem[x] = <<w, h.offset + (PageSize * j + c)>>
    BY <1>1, <1>5, <2>1, Zenon DEF HoldsBytes
  <2>3. \A i \in 1 .. Len(fa) : x \notin FrameCells(fa[i])
    BY <1>3, <1>4, <2>1, CellsApart
  <2>4. x \in DOMAIN mem' /\ mem'[x] = mem[x]
    BY <2>2, <2>3, Zenon DEF MemKept
  <2>. QED BY <2>1, <2>2, <2>4
<1>6. pt'[w].map[page] = f => HoldsBytes(w, h, j, pt[w].map[SegPage(h, j)])'
  BY <1>1, <1>5, Zenon DEF HoldsBytes
<1>. QED BY <1>1, <1>6

(* A step that shows w no page of its segments.                            *)
LEMMA BytesKept ==
  ASSUME Types, Exclusive, LoadableElf(image), InMemory, Growth, MemKept,
         NEW w \in {"kernel", "driver"}, NoSegment(w)
  PROVE  \A n, h, j : SegmentPage(image', w, n, h, j) /\ SegPage(h, j) \in Mapped(pt'[w]) =>
           HoldsBytes(w, h, j, pt[w].map[SegPage(h, j)])'
<1>1. SUFFICES ASSUME NEW n, NEW h, NEW j, SegmentPage(image, w, n, h, j),
                      SegPage(h, j) \in Mapped(pt'[w])
               PROVE  HoldsBytes(w, h, j, pt[w].map[SegPage(h, j)])'
  <2>1. image' = image
    BY DEF Growth
  <2>. QED BY <2>1, Zenon
<1>2. SegPage(h, j) \in SegmentsOf(image[w].headers)
  BY <1>1, SegmentPageFacts
<1>3. SegPage(h, j) \in Mapped(pt[w])
  BY <1>1, <1>2, Zenon DEF NoSegment
<1>4. Grows(pt[w], pt'[w])
  BY DEF Growth
<1>5. pt'[w].map[SegPage(h, j)] = pt[w].map[SegPage(h, j)]
  BY <1>3, <1>4, Zenon DEF Grows
<1>6. HoldsBytes(w, h, j, pt[w].map[SegPage(h, j)])
  BY <1>1, <1>3, Zenon DEF InMemory
<1>. QED BY <1>1, <1>3, <1>5, <1>6, HeldKeeps

(* Bytes in memory stay when no new page of a segment is entered.          *)
LEMMA MemoryKept ==
  ASSUME Types, Exclusive, LoadableElf(image), InMemory, Growth, MemKept,
         NoSegment("kernel"), NoSegment("driver")
  PROVE  InMemory'
BY BytesKept, Zenon DEF InMemory

(* A call of map_to for pages that are not of a segment of w.              *)
OtherCall(w, q, l, page, frame, m) ==
  /\ w \in {"kernel", "driver"} /\ q \in Seq(UsableFrom(memory_map, 1)) /\ Draws(fa, q)
  /\ l \in 1 .. Levels /\ page \in Nat /\ frame \in Nat
  /\ m = map_to_level(pt[w], q, l, page, frame)
  /\ EntryOf(l, page) \cap SegmentsOf(image[w].headers) = {}

(* Such a call leaves the bytes in memory.                                 *)
LEMMA OtherCallKeeps ==
  ASSUME Types, NEW w, NEW q, NEW l, NEW page, NEW frame, NEW m,
         OtherCall(w, q, l, page, frame, m),
         pt' = [pt EXCEPT ![w] = m.pt], mem' = Zeroed(mem, NewTables(q, m.fa))
  PROVE  MemKept /\ NoSegment("kernel") /\ NoSegment("driver")
<1>. /\ w \in {"kernel", "driver"} /\ q \in Seq(UsableFrom(memory_map, 1)) /\ Draws(fa, q)
     /\ l \in 1 .. Levels /\ page \in Nat /\ frame \in Nat
     /\ m = map_to_level(pt[w], q, l, page, frame)
     /\ EntryOf(l, page) \cap SegmentsOf(image[w].headers) = {}
  BY Zenon DEF OtherCall
<1>1. memory_map \in MemoryMaps /\ Sound(pt[w], memory_map) /\ DOMAIN pt = Processes
  BY DEF Types, Processes
<1>2. MapDone(pt[w], q, l, page, frame, m) /\ LevelDone(pt[w], q, memory_map, l, page, m)
  BY <1>1, LevelCall, Zenon
<1>3. m.fa \in Seq(UsableFrom(memory_map, 1))
  BY <1>2, Zenon DEF LevelDone
<1>4. MemKept
  <2>1. PICK r : r = m.fa
    OBVIOUS
  <2>. QED BY <1>3, <2>1, TablesKept
<1>5. \A p \in Mapped(m.pt) : p \in Mapped(pt[w]) \/ p \notin SegmentsOf(image[w].headers)
  <2>1. CASE m.res = "Ok"
    <3>1. Mapped(m.pt) = Mapped(pt[w]) \cup EntryOf(l, page)
      BY <1>2, <2>1, Zenon DEF MapDone, Mapped
    <3>. QED BY <3>1
  <2>2. CASE m.res # "Ok"
    <3>1. m.pt.map = pt[w].map
      BY <1>2, <2>2, Zenon DEF MapDone
    <3>. QED BY <3>1 DEF Mapped
  <2>. QED BY <2>1, <2>2
<1>6. pt'[w] = m.pt /\ \A v \in {"kernel", "driver"} : v # w => pt'[v] = pt[v]
  BY <1>1 DEF Processes
<1>7. \A v \in {"kernel", "driver"} : NoSegment(v)
  <2>1. NoSegment(w)
    BY <1>5, <1>6, Zenon DEF NoSegment
  <2>2. \A v \in {"kernel", "driver"} : v # w => NoSegment(v)
    BY <1>6, Zenon DEF NoSegment
  <2>. QED BY <2>1, <2>2
<1>. QED BY <1>4, <1>7

(* So does a step that touches neither tables nor memory.                  *)
LEMMA SameKeeps ==
  ASSUME pt' = pt, mem' = mem
  PROVE  MemKept /\ NoSegment("kernel") /\ NoSegment("driver")
BY Zenon DEF MemKept, NoSegment

(* A sequence is drawn from itself.                                        *)
LEMMA DrawsSame == ASSUME NEW q PROVE Draws(q, q)
BY DEF Draws

(* The fixed ranges lie away from the segments of their process.           *)
LEMMA FixedClear ==
  ASSUME Types, LoadableElf(image), NEW w \in {"kernel", "driver"},
         NEW n \in 1 .. Len(FixedRanges(w))
  PROVE  Regions(memory_map, image, w)[n] \cap SegmentsOf(image[w].headers) = {}
<1>1. memory_map \in MemoryMaps /\ image \in Images
  BY DEF Types
<1>2. PICK R : R = Regions(memory_map, image, w)
  OBVIOUS
<1>3. CASE w = "kernel"
  <2>1. /\ Len(R) = 7 /\ R[6] = SegmentsOf(image["kernel"].headers)
        /\ \A i, j \in 1 .. Len(R) : i # j => R[i] \cap R[j] = {}
    BY <1>1, <1>2, <1>3, RegionFacts, Zenon
  <2>2. n \in 1 .. 5
    BY <1>3 DEF FixedRanges, KernelRanges
  <2>3. n \in 1 .. Len(R) /\ 6 \in 1 .. Len(R) /\ n # 6
    BY <2>1, <2>2
  <2>4. R[n] \cap R[6] = {}
    BY <2>1, <2>3, Zenon
  <2>. QED BY <1>2, <1>3, <2>1, <2>4
<1>4. CASE w = "driver"
  <2>1. /\ R[1] = WindowPages(memory_map) /\ R[2] = StackLow .. StackHigh /\ R[3] = {0}
    BY <1>1, <1>2, <1>4, RegionFacts, Zenon
  <2>2. n \in 1 .. 3
    BY <1>4 DEF FixedRanges, DriverRanges
  <2>3. ({0} \cup WindowPages(memory_map)) \cap SegmentsOf(image["driver"].headers) = {}
    BY <1>1, RegionsAssumption, Zenon
  <2>4. SegmentsOf(image["driver"].headers)
          \cap ((StackLow .. StackHigh) \cup SegmentsOf(image["kernel"].headers)) = {}
    BY Zenon DEF LoadableElf
  <2>5. CASE n = 1
    BY <1>2, <1>4, <2>1, <2>3, <2>5
  <2>6. CASE n = 2
    BY <1>2, <1>4, <2>1, <2>4, <2>6
  <2>7. CASE n = 3
    BY <1>2, <1>4, <2>1, <2>3, <2>7
  <2>. QED BY <2>2, <2>5, <2>6, <2>7
<1>. QED BY <1>3, <1>4

(* One page of a fixed range leaves the bytes in memory,                   *)
LEMMA FixedKept ==
  ASSUME IInv, LoadableElf(image), map_fixed
  PROVE  MemKept /\ NoSegment("kernel") /\ NoSegment("driver")
<1>1. PICK r, page, fresh, from, frame, m :
        /\ r = FixedRanges(building)[s] /\ page = r.lo + k /\ fresh = (r.kind = "fresh")
        /\ from = IF fresh THEN Advance(fa, 1) ELSE fa
        /\ frame = IF fresh THEN fa[1] ELSE page - r.base
        /\ m = map_to_level(pt[building], from, r.level, page, frame)
  OBVIOUS
<1>2. /\ pc = "fixed" /\ s <= Len(FixedRanges(building)) /\ page <= r.hi
      /\ IF fresh /\ fa = << >> THEN Panic(fa)
         ELSE IF m.res # "Ok" THEN Panic(m.fa) ELSE MapNext(m, from)
  BY <1>1, Zenon DEF map_fixed
<1>3. /\ building \in {"kernel", "driver"} /\ Types
      /\ memory_map \in MemoryMaps /\ image \in Images
      /\ fa \in Seq(UsableFrom(memory_map, 1)) /\ k \in Nat /\ s \in Nat \ {0}
  BY <1>2 DEF IInv, Stages, Types, Loading
<1>4. CASE (fresh /\ fa = << >>) \/ m.res # "Ok"
  <2>1. pt' = pt /\ mem' = mem
    BY <1>2, <1>4 DEF Panic
  <2>. QED BY <2>1, SameKeeps
<1>5. CASE ~(fresh /\ fa = << >>) /\ m.res = "Ok"
  <2>1. pt' = [pt EXCEPT ![building] = m.pt] /\ mem' = Zeroed(mem, NewTables(from, m.fa))
    BY <1>2, <1>5 DEF MapNext
  <2>2. s \in 1 .. Len(FixedRanges(building))
    <3>1. Len(FixedRanges(building)) \in Nat
      BY DEF FixedRanges, KernelRanges, DriverRanges
    <3>. QED BY <1>2, <1>3, <3>1
  <2>3. PICK S : S = Regions(memory_map, image, building)[s]
    OBVIOUS
  <2>4. RangeIn(r, IF s = 1 THEN Levels ELSE 1, S)
    BY <1>1, <1>3, <2>2, <2>3, FixedRegion, Zenon
  <2>5. PICK l \in 1 .. Levels : l = r.level
    BY <2>4, Zenon DEF RangeIn
  <2>6. r.lo \in Nat /\ \A j \in Nat : r.lo + j <= r.hi => EntryOf(l, r.lo + j) \subseteq S
    BY <2>4, <2>5, Zenon DEF RangeIn
  <2>7. page \in Nat /\ EntryOf(l, page) \subseteq S
    BY <1>1, <1>2, <1>3, <2>6
  <2>8. EntryOf(l, page) \cap SegmentsOf(image[building].headers) = {}
    BY <1>3, <2>2, <2>3, <2>7, FixedClear
  <2>9. frame \in Nat /\ from \in Seq(UsableFrom(memory_map, 1)) /\ Draws(fa, from)
    <3>1. CASE fresh
      <4>1. Len(fa) \in Nat /\ Len(fa) >= 1
        BY <1>3, <1>5, <3>1, EmptySeq
      <4>2. fa[1] \in UsableFrom(memory_map, 1) /\ 1 \in 0 .. Len(fa)
        BY <1>3, <4>1
      <4>3. UsableFrom(memory_map, 1) \subseteq Nat
        BY <1>3, FramesAreNumbers
      <4>4. frame = fa[1] /\ from = Advance(fa, 1)
        BY <1>1, <3>1
      <4>5. Draws(fa, Advance(fa, 1))
        BY <1>3, <4>2, AdvanceDraws
      <4>. QED BY <1>3, <4>2, <4>3, <4>4, <4>5, AdvanceKeeps
    <3>2. CASE ~fresh
      <4>1. frame = page - r.base /\ from = fa /\ r.kind # "fresh"
        BY <1>1, <3>2
      <4>2. /\ page \in Nat
            /\ \/ /\ r.kind = "at" /\ r.level = Levels /\ page - r.base \in Nat
                  /\ PAGE_TABLE_OFFSET <= page
               \/ r.kind = "fresh" /\ r.level = 1 /\ page \in StackLow .. StackHigh
               \/ /\ r.kind = "at" /\ r.level = 1 /\ page - r.base = page
                  /\ building = "kernel" => page \in Others(memory_map)
        BY <1>1, <1>2, <1>3, FixedRange
      <4>. QED BY <1>3, <4>1, <4>2, DrawsSame
    <3>. QED BY <3>1, <3>2
  <2>10. OtherCall(building, from, l, page, frame, m)
    <3>1. m = map_to_level(pt[building], from, l, page, frame)
      BY <1>1, <2>5
    <3>. QED BY <1>3, <2>5, <2>7, <2>8, <2>9, <3>1, Zenon DEF OtherCall
  <2>. QED BY <1>3, <2>1, <2>10, OtherCallKeeps
<1>. QED BY <1>4, <1>5

(* and so do a page of the kernel shown to the driver,                     *)
LEMMA KernelPageKept ==
  ASSUME IInv, LoadableElf(image), map_kernel_page
  PROVE  MemKept /\ NoSegment("kernel") /\ NoSegment("driver")
<1>1. PICK h, page, frame, m :
        /\ h = Headers("kernel")[s] /\ page = SegPage(h, k)
        /\ frame = translate_page(pt["kernel"], page)
        /\ m = map_to(pt["driver"], fa, page, frame)
  OBVIOUS
<1>2. /\ pc = "kernel_pages" /\ s <= Len(Headers("kernel")) /\ h.load /\ k < SegPages(h)
      /\ IF page \notin Mapped(pt["kernel"]) THEN Panic(fa)
         ELSE IF m.res # "Ok" THEN Panic(m.fa) ELSE MapNext(m, fa)
  BY <1>1, Zenon DEF map_kernel_page
<1>3. /\ building = "driver" /\ Types /\ Sound(pt["kernel"], memory_map)
      /\ fa \in Seq(UsableFrom(memory_map, 1)) /\ k \in Nat /\ s \in Nat \ {0}
  BY <1>2 DEF IInv, Stages, Types, Loading, Processes
<1>4. CASE page \notin Mapped(pt["kernel"]) \/ m.res # "Ok"
  <2>1. pt' = pt /\ mem' = mem
    BY <1>2, <1>4 DEF Panic
  <2>. QED BY <2>1, SameKeeps
<1>5. CASE page \in Mapped(pt["kernel"]) /\ m.res = "Ok"
  <2>1. pt' = [pt EXCEPT !["driver"] = m.pt] /\ mem' = Zeroed(mem, NewTables(fa, m.fa))
    BY <1>2, <1>3, <1>5 DEF MapNext
  <2>2. page \in Nat /\ frame \in Nat
    BY <1>1, <1>3, <1>5 DEF Sound, PtOK, translate_page, Mapped
  <2>3. page \in SegmentsOf(image["kernel"].headers)
    <3>1. s \in 1 .. Len(Headers("kernel")) /\ Len(Headers("kernel")) \in Nat
      BY <1>2, <1>3, HeaderFacts
    <3>2. SegPages(h) \in Int
      BY <1>1, <1>3, <3>1, HeaderFacts
    <3>3. k \in 0 .. (SegPages(h) - 1)
      BY <1>2, <1>3, <3>2
    <3>4. page \in SegmentPages("kernel")
      BY <1>1, <1>2, <3>1, <3>3, SegmentPageIs
    <3>. QED BY <3>4 DEF SegmentPages, Headers
  <2>4. EntryOf(1, page) \cap SegmentsOf(image["driver"].headers) = {} /\ 1 \in 1 .. Levels
    BY <2>2, <2>3, OnePage DEF LoadableElf
  <2>5. m = map_to_level(pt["driver"], fa, 1, page, frame)
    BY <1>1 DEF map_to
  <2>6. OtherCall("driver", fa, 1, page, frame, m)
    BY <1>3, <2>2, <2>4, <2>5, DrawsSame DEF OtherCall
  <2>. QED BY <1>3, <2>1, <2>6, OtherCallKeeps
<1>. QED BY <1>4, <1>5

(* A page that the kernel gets and that is none of its own.                *)
LEMMA OtherPageKept ==
  ASSUME Types, LoadableElf(image), NEW page \in Nat, page \notin Own(image, "kernel"),
         NEW frame \in Nat, NEW m, m = map_to(pt["kernel"], fa, page, frame),
         pt' = [pt EXCEPT !["kernel"] = m.pt], mem' = Zeroed(mem, NewTables(fa, m.fa))
  PROVE  MemKept /\ NoSegment("kernel") /\ NoSegment("driver")
<1>1. fa \in Seq(UsableFrom(memory_map, 1))
  BY DEF Types
<1>2. page \notin SegmentsOf(image["kernel"].headers)
  BY LoadableOwn
<1>3. EntryOf(1, page) \cap SegmentsOf(image["kernel"].headers) = {} /\ 1 \in 1 .. Levels
  BY <1>2, OnePage
<1>4. m = map_to_level(pt["kernel"], fa, 1, page, frame)
  BY DEF map_to
<1>5. OtherCall("kernel", fa, 1, page, frame, m)
  BY <1>1, <1>3, <1>4, DrawsSame DEF OtherCall
<1>. QED BY <1>5, OtherCallKeeps

(* the pages run() maps for the kernel,                                    *)
LEMMA KernelStepsKept ==
  ASSUME IInv, LoadableElf(image), identity_map_root \/ map_runtime_page \/ copy_heap_page
  PROVE  MemKept /\ NoSegment("kernel") /\ NoSegment("driver")
<1>1. /\ building = "kernel" /\ Types /\ memory_map \in MemoryMaps /\ image \in Images
      /\ Sound(pt["loader"], memory_map) /\ k \in Nat
  BY DEF IInv, Stages, Types, Loading, Processes, identity_map_root, map_runtime_page,
         copy_heap_page
<1>2. \A p \in Physical(memory_map) \cup heap_range : p \notin Own(image, "kernel") /\ p \in Nat
  <2>1. \A p \in Physical(memory_map) \cup heap_range : p \notin Own(image, "kernel")
    BY <1>1, OwnFacts
  <2>2. \A p \in Physical(memory_map) : p \in Nat
    BY <1>1, LayoutFacts
  <2>3. \A p \in heap_range : p \in Nat
    BY HeapNumbers DEF heap_range
  <2>. QED BY <2>1, <2>2, <2>3
<1>3. CASE identity_map_root
  <2>1. PICK p, f, m :
          /\ p \in heap_range /\ f = translate_page(pt["loader"], p)
          /\ m = identity_map(pt["kernel"], fa, f)
          /\ pt' = [pt EXCEPT !["kernel"] = m.pt] /\ mem' = Zeroed(mem, NewTables(fa, m.fa))
    BY <1>3 DEF identity_map_root
  <2>2. f \in Physical(memory_map)
    BY <1>1, <2>1 DEF translate_page, IInv, LoaderHeap, Physical
  <2>3. f \in Nat /\ f \notin Own(image, "kernel") /\ m = map_to(pt["kernel"], fa, f, f)
    BY <1>2, <2>1, <2>2 DEF identity_map
  <2>. QED BY <1>1, <2>1, <2>3, OtherPageKept
<1>4. CASE map_runtime_page
  <2>1. k + 1 \in 1 .. Len(RuntimePages)
    BY <1>1, <1>4, RuntimeFacts DEF map_runtime_page
  <2>2. PICK f, m : f = RuntimePages[k + 1] /\ m = identity_map(pt["kernel"], fa, f)
    OBVIOUS
  <2>3. f \in Physical(memory_map)
    BY <1>1, <2>1, <2>2, RuntimeFacts DEF Physical
  <2>4. pt' = [pt EXCEPT !["kernel"] = m.pt] /\ mem' = Zeroed(mem, NewTables(fa, m.fa))
    BY <1>1, <1>4, <2>2 DEF map_runtime_page, MapNext
  <2>5. f \in Nat /\ f \notin Own(image, "kernel") /\ m = map_to(pt["kernel"], fa, f, f)
    BY <1>2, <2>2, <2>3 DEF identity_map
  <2>. QED BY <1>1, <2>4, <2>5, OtherPageKept
<1>5. CASE copy_heap_page
  <2>1. PICK page, frame, m :
          /\ page = HeapStartPage + k /\ frame = translate_page(pt["loader"], page)
          /\ m = map_to(pt["kernel"], fa, page, frame)
    OBVIOUS
  <2>2. page \in heap_range /\ page \in Nat /\ page \notin Own(image, "kernel")
    <3>1. page \in heap_range
      BY <1>1, <1>5, <2>1, HeapNumbers DEF heap_range, copy_heap_page
    <3>. QED BY <1>2, <3>1
  <2>3. page \in Mapped(pt["loader"])
    BY <1>1, <2>2 DEF IInv, LoaderHeap
  <2>4. frame \in Nat
    BY <1>1, <2>1, <2>3 DEF translate_page, Sound, PtOK, Mapped
  <2>5. IF m.res # "Ok" THEN Panic(m.fa) ELSE MapNext(m, fa)
    BY <1>5, <2>1, <2>3, Zenon DEF copy_heap_page, HeapPage
  <2>6. CASE m.res # "Ok"
    <3>1. pt' = pt /\ mem' = mem
      BY <2>5, <2>6 DEF Panic
    <3>. QED BY <3>1, SameKeeps
  <2>7. CASE m.res = "Ok"
    <3>1. pt' = [pt EXCEPT !["kernel"] = m.pt] /\ mem' = Zeroed(mem, NewTables(fa, m.fa))
      BY <1>1, <2>5, <2>7 DEF MapNext
    <3>. QED BY <1>1, <2>1, <2>2, <2>4, <3>1, OtherPageKept
  <2>. QED BY <2>6, <2>7
<1>. QED BY <1>3, <1>4, <1>5

(* and those of the I/O APIC.                                              *)
LEMMA IoApicKept ==
  ASSUME IInv, LoadableElf(image), ioapic_init
  PROVE  MemKept /\ NoSegment("kernel") /\ NoSegment("driver")
<1>1. /\ Types /\ memory_map \in MemoryMaps /\ image \in Images /\ IoApicPage \in Nat
      /\ Sound(pt["kernel"], memory_map) /\ DOMAIN pt = Processes
      /\ fa \in Seq(UsableFrom(memory_map, 1))
  BY HeapNumbers DEF IInv, Types, Processes
<1>2. PICK m1, m2 :
        /\ m1 = identity_map(pt["kernel"], fa, IoApicPage)
        /\ m2 = IF m1.res = "Ok" THEN identity_map(m1.pt, m1.fa, IoApicPage + 1) ELSE m1
        /\ pt' = [pt EXCEPT !["kernel"] = m2.pt] /\ mem' = Zeroed(mem, NewTables(fa, m2.fa))
  BY DEF ioapic_init
<1>3. /\ PageDone(pt["kernel"], fa, IoApicPage, IoApicPage, m1)
      /\ LevelDone(pt["kernel"], fa, memory_map, 1, IoApicPage, m1)
  BY <1>1, <1>2, PageCall DEF identity_map
<1>4. /\ Mapped(m1.pt) \subseteq Mapped(pt["kernel"]) \cup {IoApicPage}
      /\ Sound(m1.pt, memory_map) /\ m1.fa \in Seq(UsableFrom(memory_map, 1))
  BY <1>3 DEF PageDone, LevelDone, Mapped
<1>5. /\ Mapped(m2.pt) \subseteq Mapped(m1.pt) \cup {IoApicPage + 1}
      /\ m2.fa \in Seq(UsableFrom(memory_map, 1))
  <2>1. CASE m1.res = "Ok"
    <3>1. m2 = map_to(m1.pt, m1.fa, IoApicPage + 1, IoApicPage + 1) /\ IoApicPage + 1 \in Nat
      BY <1>1, <1>2, <2>1 DEF identity_map
    <3>2. /\ PageDone(m1.pt, m1.fa, IoApicPage + 1, IoApicPage + 1, m2)
          /\ LevelDone(m1.pt, m1.fa, memory_map, 1, IoApicPage + 1, m2)
      BY <1>1, <1>4, <3>1, PageCall
    <3>. QED BY <3>2 DEF PageDone, LevelDone, Mapped
  <2>2. CASE m1.res # "Ok"
    BY <1>2, <1>4, <2>2
  <2>. QED BY <2>1, <2>2
<1>6. MemKept
  <2>1. PICK r : r = m2.fa
    OBVIOUS
  <2>. QED BY <1>1, <1>2, <1>5, <2>1, DrawsSame, TablesKept
<1>7. pt'["kernel"] = m2.pt /\ pt'["driver"] = pt["driver"]
  BY <1>1, <1>2 DEF Processes
<1>8. \A p \in {IoApicPage, IoApicPage + 1} : p \notin SegmentsOf(image["kernel"].headers)
  <2>1. \A p \in {IoApicPage, IoApicPage + 1} : p \notin Own(image, "kernel")
    BY <1>1, OwnFacts
  <2>. QED BY <2>1, LoadableOwn
<1>9. NoSegment("kernel")
  BY <1>4, <1>5, <1>7, <1>8 DEF NoSegment
<1>10. NoSegment("driver")
  BY <1>7 DEF NoSegment
<1>. QED BY <1>6, <1>9, <1>10

(* The copy of a chunk cp to a frame, between the tables that make the     *)
(* frame addressable and those that map it.                                *)
ChunkCopied(frame, from, q, cp, r) ==
  /\ fa # << >> /\ frame = fa[1] /\ from = Advance(fa, 1)
  /\ q \in Seq(UsableFrom(memory_map, 1)) /\ Draws(from, q)
  /\ r \in Seq(UsableFrom(memory_map, 1)) /\ DOMAIN cp \subseteq FrameCells(frame)
  /\ mem' = Zeroed(Entered(cp, Zeroed(mem, NewTables(from, q))), NewTables(q, r))

(* The copied bytes are in memory after the step, and the others stay: the *)
(* frame is new, and the tables made before and after the copy stand on    *)
(* other frames.                                                           *)
LEMMA CopyArrives ==
  ASSUME Types, Exclusive, NEW frame, NEW from, NEW q, NEW cp, NEW r,
         ChunkCopied(frame, from, q, cp, r)
  PROVE  MemKept /\ \A x \in DOMAIN cp : x \in DOMAIN mem' /\ mem'[x] = cp[x]
<1>. /\ fa # << >> /\ frame = fa[1] /\ from = Advance(fa, 1)
     /\ q \in Seq(UsableFrom(memory_map, 1)) /\ Draws(from, q)
     /\ r \in Seq(UsableFrom(memory_map, 1)) /\ DOMAIN cp \subseteq FrameCells(frame)
     /\ mem' = Zeroed(Entered(cp, Zeroed(mem, NewTables(from, q))), NewTables(q, r))
  BY Zenon DEF ChunkCopied
<1>1. /\ fa \in Seq(UsableFrom(memory_map, 1)) /\ UsableFrom(memory_map, 1) \subseteq Nat
      /\ Len(fa) \in Nat /\ Len(fa) >= 1 /\ 1 \in 0 .. Len(fa) /\ 1 \in 1 .. Len(fa)
  <2>1. fa \in Seq(UsableFrom(memory_map, 1)) /\ memory_map \in MemoryMaps
    BY DEF Types
  <2>2. Len(fa) \in Nat /\ Len(fa) >= 1
    BY <2>1, EmptySeq
  <2>. QED BY <2>1, <2>2, FramesAreNumbers
<1>2. from \in Seq(UsableFrom(memory_map, 1)) /\ Draws(fa, from)
  BY <1>1, AdvanceKeeps, AdvanceDraws
<1>3. Draws(fa, q)
  BY <1>2, DrawsOn
<1>4. frame \in Nat /\ \A i \in 1 .. Len(q) : q[i] \in Nat /\ q[i] # frame
  <2>1. \A i \in 1 .. Len(from) : from[i] # fa[1]
    <3>1. \A i \in 1 .. (Len(fa) - 1) : from[i] = fa[i + 1] /\ i + 1 \in 1 .. Len(fa) /\ 1 < i + 1
      BY <1>1 DEF Advance
    <3>2. Len(from) = Len(fa) - 1
      BY <1>1, AdvanceDraws
    <3>3. \A i \in 1 .. Len(fa) : 1 < i => fa[1] < fa[i]
      BY <1>1, Zenon DEF Exclusive, Apart, Rising
    <3>4. \A i \in 1 .. Len(fa) : fa[i] \in Nat
      BY <1>1
    <3>5. SUFFICES ASSUME NEW i \in 1 .. Len(from) PROVE from[i] # fa[1]
      OBVIOUS
    <3>6. PICK j \in 1 .. Len(fa) : from[i] = fa[j] /\ 1 < j
      BY <3>1, <3>2
    <3>7. fa[1] < fa[j] /\ fa[1] \in Nat /\ fa[j] \in Nat
      BY <1>1, <3>3, <3>4, <3>6
    <3>. QED BY <3>6, <3>7
  <2>2. \A i \in 1 .. Len(q) : q[i] # frame
    BY <2>1, Zenon DEF Draws
  <2>. QED BY <1>1, <2>2
<1>5. PICK y, z, u : /\ y = mem /\ z = Zeroed(y, NewTables(from, q)) /\ u = Entered(cp, z)
                     /\ mem' = Zeroed(u, NewTables(q, r))
  OBVIOUS
<1>6. DOMAIN u = DOMAIN cp \cup DOMAIN z /\ \A x \in DOMAIN u :
        u[x] = IF x \in DOMAIN cp THEN cp[x] ELSE z[x]
  BY <1>5, Zenon DEF Entered
<1>7. ASSUME NEW x \in DOMAIN cp PROVE x \in DOMAIN mem' /\ mem'[x] = cp[x]
  <2>1. \A i \in 1 .. Len(q) : x \notin FrameCells(q[i])
    <3>1. x \in FrameCells(frame)
      BY <1>7
    <3>2. PICK c \in 0 .. (PageSize - 1) : x = PageSize * frame + c
      <4>1. PICK b \in Nat : b = PageSize * frame
        BY <1>4, BuildAssumption
      <4>2. x \in b .. (b + PageSize - 1) /\ PageSize \in Nat
        BY <3>1, <4>1, BuildAssumption DEF FrameCells
      <4>3. x - b \in 0 .. (PageSize - 1) /\ x = b + (x - b)
        BY <4>1, <4>2
      <4>. QED BY <4>1, <4>3
    <3>. QED BY <1>4, <3>2, CellsApart
  <2>2. x \in DOMAIN u /\ u[x] = cp[x]
    BY <1>6, <1>7
  <2>3. x \in DOMAIN Zeroed(u, NewTables(q, r)) /\ Zeroed(u, NewTables(q, r))[x] = u[x]
    BY <2>1, <2>2, ZeroedKeeps
  <2>. QED BY <1>5, <2>2, <2>3
<1>8. ASSUME NEW x \in DOMAIN mem, \A i \in 1 .. Len(fa) : x \notin FrameCells(fa[i])
      PROVE  x \in DOMAIN mem' /\ mem'[x] = mem[x]
  <2>1. \A i \in 1 .. Len(from) : x \notin FrameCells(from[i])
    BY <1>2, <1>8, Zenon DEF Draws
  <2>2. \A i \in 1 .. Len(q) : x \notin FrameCells(q[i])
    BY <1>3, <1>8, Zenon DEF Draws
  <2>3. x \notin DOMAIN cp
    BY <1>1, <1>8
  <2>4. x \in DOMAIN z /\ z[x] = y[x]
    BY <1>2, <1>5, <1>8, <2>1, ZeroedKeeps
  <2>5. x \in DOMAIN u /\ u[x] = y[x]
    BY <1>6, <2>3, <2>4
  <2>6. x \in DOMAIN Zeroed(u, NewTables(q, r)) /\ Zeroed(u, NewTables(q, r))[x] = u[x]
    BY <2>2, <2>5, ZeroedKeeps
  <2>. QED BY <1>5, <2>5, <2>6
<1>9. MemKept
  BY <1>8 DEF MemKept
<1>. QED BY <1>7, <1>9

(* Page k of an aligned segment, and the chunk of the file that belongs to *)
(* it: all of the file's bytes that the page has.                          *)
ChunkTaken(w, h, frame, n, off, cp) ==
  /\ w \in {"kernel", "driver"} /\ w = building /\ SegmentPage(image, w, s, h, k)
  /\ pc = "segments" /\ ChunkLeft /\ file_size \in Nat /\ frame \in Nat
  /\ n = Min({file_size, PageSize}) /\ off = h.va % PageSize
  /\ cp = Copied(h, frame, off, h.filesz - file_size, n)

ChunkRight(w, h, i, frame, cp, next) ==
  /\ DOMAIN cp \subseteq FrameCells(frame)
  /\ \A c \in 0 .. (PageSize - 1) : PageSize * i + c < h.filesz =>
       /\ PageSize * frame + c \in DOMAIN cp
       /\ cp[PageSize * frame + c] = <<w, h.offset + (PageSize * i + c)>>
  /\ PageSize * (i + 1) < h.filesz => next = h.filesz - PageSize * (i + 1)

(* The chunk is what the page needs, and file_size is right for the next   *)
(* page.                                                                   *)
LEMMA ChunkFacts ==
  ASSUME Types, LoadableElf(image), NEW w, NEW h, NEW frame, NEW n, NEW off, NEW cp,
         ChunkTaken(w, h, frame, n, off, cp)
  PROVE  ChunkRight(w, h, k, frame, cp, NextChunk(file_size))
<1>. /\ w \in {"kernel", "driver"} /\ w = building /\ SegmentPage(image, w, s, h, k)
     /\ pc = "segments" /\ ChunkLeft /\ file_size \in Nat /\ frame \in Nat
     /\ n = Min({file_size, PageSize}) /\ off = h.va % PageSize
     /\ cp = Copied(h, frame, off, h.filesz - file_size, n)
  BY Zenon DEF ChunkTaken
<1>1. /\ h = Headers(w)[s] /\ s \in 1 .. Len(Headers(w)) /\ h \in ProgramHeader /\ k \in Nat
  BY SegmentPageFacts
<1>2. h.filesz \in Nat /\ h.offset \in Nat /\ h.va \in Nat
  BY <1>1 DEF ProgramHeader
<1>3. PICK z \in Nat \ {0} : z = PageSize
  BY BuildAssumption
<1>4. off = 0
  <2>1. OnPageBorders(image[w].headers)
    BY Zenon DEF LoadableElf, SoundElf
  <2>2. h.load /\ s \in 1 .. Len(image[w].headers) /\ h = image[w].headers[s]
    BY DEF SegmentPage
  <2>. QED BY <2>1, <2>2 DEF OnPageBorders
<1>5. n \in Nat /\ n <= z /\ n = IF file_size <= z THEN file_size ELSE z
  <2>1. file_size \in Int /\ PageSize \in Int
    BY <1>3
  <2>2. n = IF file_size <= PageSize THEN file_size ELSE PageSize
    BY <2>1, PairBounds, Zenon
  <2>. QED BY <1>3, <2>2
<1>6. PICK at \in Nat, b \in Nat : at = z * frame /\ b = z * k
  BY <1>1, <1>3
<1>7. b < h.filesz => file_size = h.filesz - b
  <2>1. s <= Len(Headers(building)) /\ h = Headers(building)[s]
    BY <1>1, HeaderFacts
  <2>. QED BY <1>3, <1>6, <2>1 DEF ChunkLeft
<1>8. cp = [c \in at .. (at + n - 1) |->
              <<w, h.offset + (h.filesz - file_size) + (c - at)>>]
  <2>1. PageSize * frame + off = at
    BY <1>3, <1>4, <1>6
  <2>. QED BY <2>1 DEF Copied
<1>9. DOMAIN cp \subseteq FrameCells(frame)
  BY <1>3, <1>5, <1>6, <1>8 DEF FrameCells
<1>10. ASSUME NEW c \in 0 .. (PageSize - 1), PageSize * k + c < h.filesz
       PROVE  /\ PageSize * frame + c \in DOMAIN cp
              /\ cp[PageSize * frame + c] = <<w, h.offset + (PageSize * k + c)>>
  <2>1. c \in 0 .. (z - 1) /\ b + c < h.filesz
    BY <1>3, <1>6, <1>10
  <2>2. file_size = h.filesz - b
    BY <1>2, <1>7, <2>1
  <2>3. at + c \in at .. (at + n - 1)
    BY <1>2, <1>5, <2>1, <2>2
  <2>4. h.offset + (h.filesz - file_size) + ((at + c) - at) = h.offset + (b + c)
    BY <1>2, <2>1, <2>2
  <2>5. at + c \in DOMAIN cp /\ cp[at + c] = <<w, h.offset + (b + c)>>
    BY <1>8, <2>3, <2>4
  <2>. QED BY <1>3, <1>6, <2>5
<1>11. ASSUME PageSize * (k + 1) < h.filesz
       PROVE  NextChunk(file_size) = h.filesz - PageSize * (k + 1)
  <2>1. z * (k + 1) = b + z
    BY <1>1, <1>6
  <2>2. b + z < h.filesz
    BY <1>3, <1>11, <2>1
  <2>3. file_size = h.filesz - b
    BY <1>2, <1>7, <2>2
  <2>4. file_size > z
    BY <1>2, <2>2, <2>3
  <2>5. NextChunk(file_size) = file_size - z
    BY <1>3, <2>4 DEF NextChunk
  <2>. QED BY <1>2, <1>3, <2>1, <2>3, <2>5
<1>. QED BY <1>9, <1>10, <1>11 DEF ChunkRight

(* What is entered in the tables when a page of a segment is loaded: the   *)
(* page itself, and the frame's own page in the current address space.     *)
PageShown(v, page, frame) ==
  /\ Mapped(pt'[v]) \subseteq Mapped(pt[v]) \cup {page}
  /\ page \in Mapped(pt'[v]) => pt'[v].map[page] = frame
  /\ \A w \in {"kernel", "driver"} : w # v => NoSegment(w)

(* A page shown on a frame with its bytes joins those in memory.           *)
LEMMA LoadedBytes ==
  ASSUME Types, Exclusive, LoadableElf(image), InMemory, Growth, MemKept,
         NEW v \in {"kernel", "driver"}, NEW i, NEW h, NEW frame,
         SegmentPage(image, v, s, h, i), SegPage(h, i) \notin Mapped(pt[v]),
         PageShown(v, SegPage(h, i), frame), HoldsBytes(v, h, i, frame)'
  PROVE  InMemory'
<1>1. SUFFICES ASSUME NEW w \in {"kernel", "driver"}, NEW o, NEW g, NEW j,
                      SegmentPage(image, w, o, g, j), SegPage(g, j) \in Mapped(pt'[w])
               PROVE  HoldsBytes(w, g, j, pt[w].map[SegPage(g, j)])'
  <2>1. image' = image
    BY DEF Growth
  <2>. QED BY <2>1, Zenon DEF InMemory
<1>2. CASE SegPage(g, j) \in Mapped(pt[w])
  <2>1. Grows(pt[w], pt'[w])
    BY DEF Growth
  <2>2. pt'[w].map[SegPage(g, j)] = pt[w].map[SegPage(g, j)]
    BY <1>2, <2>1, Zenon DEF Grows
  <2>3. HoldsBytes(w, g, j, pt[w].map[SegPage(g, j)])
    BY <1>1, <1>2, Zenon DEF InMemory
  <2>. QED BY <1>1, <1>2, <2>2, <2>3, HeldKeeps
<1>3. CASE SegPage(g, j) \notin Mapped(pt[w])
  <2>1. w = v
    <3>1. SegPage(g, j) \in SegmentsOf(image[w].headers)
      BY <1>1, SegmentPageFacts
    <3>2. ~NoSegment(w)
      BY <1>1, <1>3, <3>1, Zenon DEF NoSegment
    <3>. QED BY <3>2 DEF PageShown
  <2>2. SegPage(g, j) = SegPage(h, i)
    BY <1>1, <1>3, <2>1 DEF PageShown
  <2>3. g = h /\ j = i
    BY <1>1, <2>1, <2>2, LoadablePages
  <2>4. pt'[w].map[SegPage(g, j)] = frame
    BY <1>1, <2>1, <2>2 DEF PageShown
  <2>5. HoldsBytes(w, g, j, frame)'
    BY <2>1, <2>3
  <2>. QED BY <2>4, <2>5, Zenon DEF HoldsBytes
<1>. QED BY <1>2, <1>3

(* The construction goes on only while no step stops it.                   *)
LEMMA ArrivingStop ==
  ASSUME InMemory', pc' \notin Constructing \cup {"built", "running"}
  PROVE  Arriving'
BY DEF Arriving, Unloaded, DriverThere, ChunkLeft, Constructing

(* One page of a segment: its bytes arrive.                                *)
LEMMA LoadArrives ==
  ASSUME IInv, Exclusive, LoadableElf(image), Arriving, file_size \in Nat, Growth, load_page
  PROVE  Arriving'
<1>1. /\ building \in {"kernel", "driver"} /\ Types /\ pc = "segments" /\ DOMAIN pt = Processes
      /\ Sound(pt["kernel"], memory_map) /\ Sound(pt["driver"], memory_map)
      /\ memory_map \in MemoryMaps /\ image \in Images /\ InMemory
      /\ fa \in Seq(UsableFrom(memory_map, 1)) /\ k \in Nat /\ s \in Nat \ {0}
  <2>1. pc = "segments"
    BY DEF load_page
  <2>. QED BY <2>1 DEF IInv, Stages, Types, Loading, Processes, Arriving
<1>2. CASE fa = << >>
  <2>1. Panic(fa)
    BY <1>2, Zenon DEF load_page
  <2>2. pt' = pt /\ mem' = mem /\ pc' = "panicked"
    BY <2>1 DEF Panic
  <2>3. InMemory'
    BY <1>1, <2>2, SameKeeps, MemoryKept
  <2>. QED BY <2>2, <2>3, ArrivingStop DEF Constructing
<1>3. CASE fa # << >>
  <2>1. PICK h, frame, from, cur, n, off, page, m, v, i, r, cp :
          /\ h = Headers(building)[s] /\ frame = fa[1] /\ from = Advance(fa, 1)
          /\ cur = CurrentMap(frame, from) /\ n = Min({file_size, PageSize})
          /\ off = h.va % PageSize /\ page = SegPage(h, k)
          /\ m = map_to(pt[building], cur.fa, page, frame)
          /\ v = building /\ i = k /\ r = s
          /\ cp = Copied(h, frame, off, h.filesz - file_size, n)
    OBVIOUS
  <2>2. /\ s <= Len(Headers(building)) /\ h.load /\ k < SegPages(h)
        /\ IF CopyFaults(cur.pt, frame, off, n)
           THEN pc' = "fault" /\ pt' = [pt EXCEPT !["kernel"] = cur.pt] /\ mem' = mem
           ELSE /\ pc' = IF MapFatal(m.res) THEN "panicked" ELSE pc
                /\ pt' = IF building = "kernel" THEN [pt EXCEPT !["kernel"] = m.pt]
                         ELSE [pt EXCEPT !["kernel"] = cur.pt, !["driver"] = m.pt]
                /\ mem' = Zeroed(Entered(cp, Zeroed(mem, NewTables(from, cur.fa))),
                                 NewTables(cur.fa, m.fa))
        /\ k' = k + 1 /\ const' = const /\ building' = building /\ s' = s
        /\ file_size' = NextChunk(file_size)
    BY <1>3, <2>1, Zenon DEF load_page
  <2>3. s \in 1 .. Len(Headers(building)) /\ Len(Headers(building)) \in Nat
    BY <1>1, <2>2, HeaderFacts
  <2>4. SegPages(h) \in Int /\ page \in Nat /\ k \in 0 .. (SegPages(h) - 1)
    <3>1. SegPages(h) \in Int /\ page \in Nat
      BY <1>1, <2>1, <2>3, HeaderFacts
    <3>. QED BY <1>1, <2>2, <3>1
  <2>5. SegmentPage(image, v, s, h, i) /\ v \in {"kernel", "driver"} /\ i \in Nat /\ r \in Nat
    BY <1>1, <2>1, <2>2, <2>3, <2>4 DEF SegmentPage, Headers
  <2>6. UsableFrom(memory_map, 1) \subseteq Nat /\ Len(fa) \in Nat /\ Len(fa) >= 1
    BY <1>1, <1>3, FramesAreNumbers, EmptySeq
  <2>7. /\ from \in Seq(UsableFrom(memory_map, 1)) /\ frame \in Nat
        /\ frame \in UsableFrom(memory_map, 1)
    BY <1>1, <2>1, <2>6, AdvanceKeeps
  <2>8. page \notin Mapped(pt[v])
    <3>1. ~Passed(s, k)
      BY <1>1 DEF Passed
    <3>. QED BY <1>1, <2>1, <2>5, <3>1, Zenon DEF Arriving, Unloaded, Constructing
  <2>9. /\ cur.fa \in Seq(UsableFrom(memory_map, 1)) /\ Draws(from, cur.fa)
        /\ Sound(cur.pt, memory_map)
        /\ Mapped(cur.pt) \subseteq Mapped(pt["kernel"]) \cup {frame}
    <3>1. CASE building = "kernel"
      BY <1>1, <2>1, <2>7, <3>1, DrawsSame DEF CurrentMap
    <3>2. CASE building = "driver"
      <4>1. cur = map_to(pt["kernel"], from, frame, frame)
        BY <2>1, <3>2 DEF CurrentMap, identity_map
      <4>2. /\ PageDone(pt["kernel"], from, frame, frame, cur)
            /\ LevelDone(pt["kernel"], from, memory_map, 1, frame, cur)
        BY <1>1, <2>7, <4>1, PageCall
      <4>3. MapDone(pt["kernel"], from, 1, frame, frame, cur)
        <5>1. cur = map_to_level(pt["kernel"], from, 1, frame, frame) /\ 1 \in 1 .. Levels
          BY <2>7, <4>1, OnePage DEF map_to
        <5>. QED BY <1>1, <2>7, <5>1, LevelCall, Zenon
      <4>4. PICK c \in 0 .. Len(from) : cur.fa = Advance(from, c)
        BY <4>3, Zenon DEF MapDone
      <4>5. Draws(from, cur.fa)
        BY <2>7, <4>4, AdvanceDraws
      <4>6. cur.fa \in Seq(UsableFrom(memory_map, 1)) /\ Sound(cur.pt, memory_map)
        BY <4>2 DEF LevelDone
      <4>7. Mapped(cur.pt) \subseteq Mapped(pt["kernel"]) \cup {frame}
        BY <4>2 DEF PageDone, Mapped
      <4>. QED BY <4>5, <4>6, <4>7
    <3>. QED BY <1>1, <3>1, <3>2
  <2>10. /\ PageDone(pt[v], cur.fa, page, frame, m)
         /\ m.fa \in Seq(UsableFrom(memory_map, 1))
    <3>1. m = map_to(pt[v], cur.fa, page, frame) /\ Sound(pt[v], memory_map)
      BY <1>1, <2>1
    <3>2. /\ PageDone(pt[v], cur.fa, page, frame, m)
          /\ LevelDone(pt[v], cur.fa, memory_map, 1, page, m)
      BY <1>1, <2>4, <2>7, <2>9, <3>1, PageCall
    <3>. QED BY <3>2 DEF LevelDone
  <2>11. frame \notin SegmentsOf(image["kernel"].headers)
    <3>1. frame \notin Own(image, "kernel")
      BY <1>1, <2>7, OwnFacts DEF Physical
    <3>. QED BY <3>1, LoadableOwn
  <2>12. CASE CopyFaults(cur.pt, frame, off, n)
    <3>1. pc' = "fault" /\ pt' = [pt EXCEPT !["kernel"] = cur.pt] /\ mem' = mem
      BY <2>2, <2>12, Zenon
    <3>2. pt'["kernel"] = cur.pt /\ pt'["driver"] = pt["driver"]
      BY <1>1, <3>1 DEF Processes
    <3>3. NoSegment("kernel") /\ NoSegment("driver")
      BY <2>9, <2>11, <3>2 DEF NoSegment
    <3>4. MemKept
      BY <3>1 DEF MemKept
    <3>5. InMemory'
      BY <1>1, <3>3, <3>4, MemoryKept
    <3>. QED BY <3>1, <3>5, ArrivingStop DEF Constructing
  <2>13. CASE ~CopyFaults(cur.pt, frame, off, n)
    <3>1. /\ pc' = IF MapFatal(m.res) THEN "panicked" ELSE "segments"
          /\ mem' = Zeroed(Entered(cp, Zeroed(mem, NewTables(from, cur.fa))),
                           NewTables(cur.fa, m.fa))
      BY <1>1, <2>2, <2>13, Zenon
    <3>2. /\ pt'[v] = m.pt
          /\ v = "driver" => pt'["kernel"] = cur.pt
          /\ v = "kernel" => pt'["driver"] = pt["driver"]
      <4>1. CASE v = "kernel"
        <5>1. pt' = [pt EXCEPT !["kernel"] = m.pt]
          BY <2>1, <2>2, <2>13, <4>1, Zenon
        <5>. QED BY <1>1, <4>1, <5>1 DEF Processes
      <4>2. CASE v = "driver"
        <5>0. building # "kernel"
          BY <2>1, <4>2
        <5>1. pt' = [pt EXCEPT !["kernel"] = cur.pt, !["driver"] = m.pt]
          BY <2>2, <2>13, <5>0, Zenon
        <5>. QED BY <1>1, <4>2, <5>1 DEF Processes
      <4>. QED BY <2>5, <4>1, <4>2
    <3>3. PageShown(v, page, frame)
      <4>1. /\ Mapped(m.pt) \subseteq Mapped(pt[v]) \cup {page}
            /\ page \in Mapped(m.pt) => m.pt.map[page] = frame
        BY <2>8, <2>10 DEF PageDone, Mapped
      <4>2. v = "driver" => NoSegment("kernel")
        BY <2>9, <2>11, <3>2 DEF NoSegment
      <4>3. v = "kernel" => NoSegment("driver")
        BY <3>2 DEF NoSegment
      <4>. QED BY <2>5, <3>2, <4>1, <4>2, <4>3 DEF PageShown
    <3>4. ChunkRight(v, h, i, frame, cp, NextChunk(file_size))
      <4>1. SegmentPage(image, v, s, h, k) /\ v = building /\ ChunkLeft
        BY <2>1, <2>5 DEF Arriving
      <4>2. ChunkTaken(v, h, frame, n, off, cp)
        BY <1>1, <2>1, <2>5, <2>7, <4>1, Zenon DEF ChunkTaken
      <4>3. ChunkRight(v, h, k, frame, cp, NextChunk(file_size))
        BY <1>1, <4>2, ChunkFacts
      <4>. QED BY <2>1, <4>3
    <3>5. MemKept /\ \A x \in DOMAIN cp : x \in DOMAIN mem' /\ mem'[x] = cp[x]
      <4>1. ChunkCopied(frame, from, cur.fa, cp, m.fa)
        BY <1>3, <2>1, <2>9, <2>10, <3>1, <3>4, Zenon DEF ChunkCopied, ChunkRight
      <4>. QED BY <1>1, <4>1, CopyArrives, Zenon
    <3>6. HoldsBytes(v, h, i, frame)'
      BY <3>4, <3>5, Zenon DEF HoldsBytes, ChunkRight
    <3>7. InMemory'
      <4>1. SegPage(h, i) = page
        BY <2>1
      <4>. QED BY <1>1, <2>5, <2>8, <3>3, <3>5, <3>6, <4>1, LoadedBytes
    <3>8. CASE MapFatal(m.res)
      <4>1. pc' = "panicked"
        BY <3>1, <3>8
      <4>. QED BY <3>7, <4>1, ArrivingStop DEF Constructing
    <3>9. CASE ~MapFatal(m.res)
      <4>1. /\ pc' = "segments" /\ image' = image /\ building' = v /\ building = v
            /\ s = r /\ s' = r /\ k = i /\ k' = i + 1
        BY <2>1, <2>2, <3>1, <3>9 DEF Growth
      <4>2. \A a : \A b \in Nat : Passed(a, b)' <=> Passed(a, b) \/ (a = r /\ b < i + 1)
        BY <2>5, <4>1 DEF Passed
      <4>3. Unloaded'
        <5>1. SUFFICES ASSUME NEW o, NEW g, NEW j, SegmentPage(image, v, o, g, j), ~Passed(o, j)'
                       PROVE  SegPage(g, j) \notin Mapped(pt'[v])
          BY <4>1, Zenon DEF Unloaded
        <5>2. ~Passed(o, j) /\ ~(o = r /\ j < i + 1)
          <6>1. j \in Nat
            BY <1>1, <2>5, <5>1, SegmentPageFacts
          <6>. QED BY <4>2, <5>1, <6>1
        <5>3. SegPage(g, j) \notin Mapped(pt[v])
          <6>1. SegmentPage(image, building, o, g, j) /\ pc \in Constructing
            BY <1>1, <4>1, <5>1 DEF Constructing
          <6>2. SegPage(g, j) \notin Mapped(pt[building])
            BY <5>2, <6>1, Zenon DEF Arriving, Unloaded
          <6>. QED BY <4>1, <6>2
        <5>4. SegPage(g, j) # page
          <6>1. SUFFICES ASSUME SegPage(g, j) = SegPage(h, i) PROVE FALSE
            BY <2>1
          <6>2. SegmentPage(image, v, r, h, i)
            BY <2>1, <2>5
          <6>3. o = r /\ j = i
            BY <1>1, <2>5, <5>1, <6>1, <6>2, LoadablePages
          <6>. QED BY <2>5, <5>2, <6>3
        <5>. QED BY <3>3, <5>3, <5>4 DEF PageShown
      <4>4. DriverThere'
        <5>1. SUFFICES ASSUME v = "driver", NEW o, NEW g, NEW j, SegmentPage(image, v, o, g, j),
                              g.filesz > 0, Passed(o, j)'
                       PROVE  SegPage(g, j) \in Mapped(pt'[v])
          BY <4>1, Zenon DEF DriverThere
        <5>2. CASE Passed(o, j)
          <6>1. SegPage(g, j) \in Mapped(pt[v])
            BY <1>1, <4>1, <5>1, <5>2, Zenon DEF Arriving, DriverThere
          <6>2. Grows(pt[v], pt'[v])
            BY <5>1 DEF Growth
          <6>. QED BY <6>1, <6>2, Zenon DEF Grows
        <5>3. CASE ~Passed(o, j)
          <6>1. j \in Nat
            BY <1>1, <2>5, <5>1, SegmentPageFacts
          <6>2. o = r /\ j = i
            BY <2>5, <4>1, <4>2, <5>1, <5>3, <6>1 DEF Passed
          <6>3. g = h
            BY <2>1, <2>5, <5>1, <6>2 DEF SegmentPage
          <6>4. SegPage(g, j) = page
            BY <2>1, <6>2, <6>3
          <6>5. m.res = "Ok"
            BY <2>8, <2>10, <3>9, <4>1, <5>1 DEF PageDone, MapFatal
          <6>. QED BY <2>10, <3>2, <6>4, <6>5 DEF PageDone
        <5>. QED BY <5>2, <5>3
      <4>5. ChunkLeft'
        <5>1. Headers(building)' = Headers(building) /\ file_size' = NextChunk(file_size)
          BY <2>2, <4>1 DEF Headers
        <5>2. Headers(building)'[r] = h
          BY <2>1, <5>1
        <5>. QED BY <3>4, <4>1, <5>1, <5>2 DEF ChunkLeft, ChunkRight
      <4>. QED BY <3>7, <4>3, <4>4, <4>5 DEF Arriving
    <3>. QED BY <3>8, <3>9
  <2>. QED BY <2>12, <2>13
<1>. QED BY <1>2, <1>3

(* The loader's steps: there is no process with segments yet.              *)
LEMMA ArrivingLoader ==
  ASSUME IInv, DriverLater,
         \/ get_memory_map \/ exit_boot_services \/ mem_init \/ init_heap_page \/ init_heap_done
  PROVE  Arriving'
<1>1. building = "loader" /\ DOMAIN pt = Processes
  BY DEF IInv, Types, Stages, Loading, get_memory_map, exit_boot_services, mem_init,
         init_heap_page, init_heap_done, Goto
<1>2. pt["kernel"] = EmptyTable /\ pt["driver"] = EmptyTable
  BY <1>1 DEF IInv, NoHeapTable, DriverLater
<1>3. pt'["kernel"] = EmptyTable /\ pt'["driver"] = EmptyTable
  <2>1. CASE init_heap_page
    <3>1. PICK m : Panic(fa) \/ MapNext(m, Advance(fa, 1))
      BY <2>1, Zenon DEF init_heap_page
    <3>2. pt' = pt \/ pt' = [pt EXCEPT !["loader"] = m.pt]
      BY <1>1, <3>1 DEF Panic, MapNext
    <3>. QED BY <1>1, <1>2, <3>2 DEF Processes
  <2>2. CASE get_memory_map \/ exit_boot_services \/ mem_init \/ init_heap_done
    BY <1>2, <2>2 DEF get_memory_map, exit_boot_services, mem_init, init_heap_done, Goto
  <2>. QED BY <2>1, <2>2
<1>4. \A w \in {"kernel", "driver"} : Mapped(pt'[w]) = {}
  BY <1>3, EmptyTableFacts
<1>5. InMemory'
  BY <1>4 DEF InMemory
<1>6. CASE init_heap_done
  <2>1. pc' = "fixed" /\ building' = "kernel"
    BY <1>6 DEF init_heap_done
  <2>2. Unloaded'
    BY <1>4, <2>1 DEF Unloaded
  <2>. QED BY <1>5, <2>1, <2>2 DEF Arriving, DriverThere, ChunkLeft
<1>7. CASE get_memory_map \/ exit_boot_services \/ mem_init \/ init_heap_page
  <2>1. pc' \in Loading \cup {"init_heap_new", "efi_panic", "panicked"}
    BY <1>7 DEF get_memory_map, exit_boot_services, mem_init, init_heap_page, Goto, Panic,
                MapNext, Loading
  <2>. QED BY <1>5, <2>1, ArrivingStop DEF Loading, Constructing
<1>. QED BY <1>6, <1>7

(* The pages in front of the segments.                                     *)
LEMMA ArrivingFixed ==
  ASSUME IInv, Arriving, InMemory', Growth, NoSegment("kernel"), NoSegment("driver"),
         building' = building, pc \in {"fixed", "kernel_pages"}, pc' \in {pc, "panicked"}
  PROVE  Arriving'
<1>1. CASE pc' = "panicked"
  BY <1>1, ArrivingStop DEF Constructing
<1>2. CASE pc' = pc
  <2>1. PICK w \in {"kernel", "driver"} : w = building
    BY DEF IInv, Stages, Loading
  <2>2. image' = image /\ pc # "segments" /\ pc' # "segments" /\ pc \in Constructing /\ Types
    BY <1>2 DEF Growth, Constructing, IInv
  <2>3. SUFFICES ASSUME NEW n, NEW h, NEW j, SegmentPage(image, w, n, h, j)
                 PROVE  SegPage(h, j) \notin Mapped(pt'[w])
    <3>1. Unloaded'
      BY <2>1, <2>2, Zenon DEF Unloaded
    <3>. QED BY <1>2, <2>2, <3>1 DEF Arriving, DriverThere, ChunkLeft
  <2>4. SegPage(h, j) \notin Mapped(pt[w])
    <3>1. SegmentPage(image, building, n, h, j)
      BY <2>1, <2>3
    <3>2. SegPage(h, j) \notin Mapped(pt[building])
      BY <2>2, <3>1, Zenon DEF Arriving, Unloaded
    <3>. QED BY <2>1, <3>2
  <2>5. SegPage(h, j) \in SegmentsOf(image[w].headers)
    BY <2>2, <2>3, SegmentPageFacts
  <2>6. NoSegment(w)
    BY <2>1
  <2>. QED BY <2>4, <2>5, <2>6, Zenon DEF NoSegment
<1>. QED BY <1>1, <1>2

(* The steps between the pages.                                            *)
LEMMA ArrivingQuiet ==
  ASSUME IInv, Room, Arriving, InMemory', Growth,
         \/ next_fixed \/ fixed_done \/ next_kernel_segment \/ kernel_pages_done
         \/ progam_headers \/ next_segment \/ from_elf_done
  PROVE  Arriving'
<1>1. /\ image' = image /\ pt' = pt /\ building' = building /\ pc \in Constructing
  BY DEF next_fixed, fixed_done, next_kernel_segment, kernel_pages_done, progam_headers,
         next_segment, from_elf_done, const, Constructing
<1>2. /\ Types /\ s \in Nat \ {0} /\ k \in Nat
  BY DEF IInv, Types
<1>3. PICK w \in {"kernel", "driver"} : w = building
  BY <1>1 DEF IInv, Stages, Loading, Constructing
<1>4. ASSUME NEW n, NEW h, NEW j, SegmentPage(image, w, n, h, j), pc = "segments" => ~Passed(n, j)
      PROVE  SegPage(h, j) \notin Mapped(pt'[w])
  <2>1. SegmentPage(image, building, n, h, j)
    BY <1>3, <1>4
  <2>2. SegPage(h, j) \notin Mapped(pt[building])
    BY <1>1, <1>4, <2>1, Zenon DEF Arriving, Unloaded
  <2>. QED BY <1>1, <1>3, <2>2
<1>5. CASE next_fixed \/ fixed_done \/ next_kernel_segment \/ kernel_pages_done
  <2>1. pc # "segments" /\ pc' \in {"fixed", "kernel_pages", "headers"}
    BY <1>5 DEF next_fixed, fixed_done, next_kernel_segment, kernel_pages_done
  <2>2. Unloaded'
    BY <1>1, <1>3, <1>4, <2>1, Zenon DEF Unloaded
  <2>. QED BY <2>1, <2>2 DEF Arriving, DriverThere, ChunkLeft
<1>6. CASE progam_headers
  <2>1. /\ pc = "headers" /\ pc' \in {"segments", "bad_elf"} /\ s' = 1 /\ k' = 0
        /\ file_size' = FileSize(building, 1)
    BY <1>6 DEF progam_headers, Room
  <2>2. Unloaded'
    BY <1>1, <1>3, <1>4, <2>1, Zenon DEF Unloaded
  <2>3. DriverThere'
    <3>1. \A n \in Nat \ {0}, j \in Nat : ~Passed(n, j)'
      BY <2>1 DEF Passed
    <3>2. \A n, h, j : SegmentPage(image, "driver", n, h, j) => n \in Nat \ {0} /\ j \in Nat
      BY <1>2, SegmentPageFacts
    <3>3. \A n, h, j : SegmentPage(image', "driver", n, h, j) => ~Passed(n, j)'
      BY <1>1, <3>1, <3>2, Zenon
    <3>4. pc' \notin {"built", "running"}
      BY <2>1
    <3>. QED BY <3>3, <3>4 DEF DriverThere
  <2>4. ChunkLeft'
    <3>1. Headers(building)' = Headers(building)
      BY <1>1 DEF Headers
    <3>2. 1 <= Len(Headers(building)) => file_size' = Headers(building)[1].filesz
      BY <2>1 DEF FileSize
    <3>3. PageSize * 0 = 0 /\ PageSize \in Nat
      BY BuildAssumption
    <3>4. ASSUME 1 <= Len(Headers(building)) PROVE Headers(building)[1].filesz \in Nat
      <4>1. Headers(w) \in Seq(ProgramHeader) /\ 1 \in 1 .. Len(Headers(w))
        BY <1>2, <1>3, <3>4, HeaderFacts
      <4>2. Headers(w)[1] \in ProgramHeader
        BY <4>1
      <4>. QED BY <1>3, <4>2 DEF ProgramHeader
    <3>. QED BY <1>1, <2>1, <3>1, <3>2, <3>3, <3>4 DEF ChunkLeft
  <2>. QED BY <2>2, <2>3, <2>4 DEF Arriving
<1>7. CASE next_segment
  <2>1. /\ pc = "segments" /\ pc' = "segments" /\ s <= Len(Headers(w)) /\ s' = s + 1 /\ k' = 0
        /\ LET h == Headers(w)[s] IN ~h.load \/ h.filesz = 0 \/ k >= SegPages(h)
        /\ file_size' = FileSize(w, s + 1)
    BY <1>3, <1>7 DEF next_segment
  <2>2. \A n, h, j : SegmentPage(image, w, n, h, j) => n \in Nat \ {0} /\ j \in Nat
    BY <1>2, SegmentPageFacts
  <2>3. Unloaded'
    <3>1. \A n \in Nat \ {0}, j \in Nat : ~Passed(n, j)' => ~Passed(n, j)
      BY <1>2, <2>1 DEF Passed
    <3>2. \A n, h, j : SegmentPage(image, w, n, h, j) /\ ~Passed(n, j)' => ~Passed(n, j)
      BY <2>2, <3>1, Zenon
    <3>. QED BY <1>1, <1>3, <1>4, <2>1, <3>2, Zenon DEF Unloaded
  <2>4. DriverThere'
    <3>1. SUFFICES ASSUME w = "driver", NEW n, NEW h, NEW j, SegmentPage(image, w, n, h, j),
                          h.filesz > 0, Passed(n, j)'
                   PROVE  SegPage(h, j) \in Mapped(pt[w])
      BY <1>1, <1>3, <2>1, Zenon DEF DriverThere
    <3>2. /\ h = Headers(w)[n] /\ h.load /\ j \in 0 .. (SegPages(h) - 1) /\ SegPages(h) \in Int
          /\ n \in Nat \ {0} /\ h.filesz \in Nat
      <4>1. h = Headers(w)[n] /\ SegPages(h) \in Int /\ n \in Nat \ {0} /\ h \in ProgramHeader
        BY <1>2, <3>1, SegmentPageFacts
      <4>. QED BY <3>1, <4>1 DEF SegmentPage, ProgramHeader
    <3>3. n < s \/ n = s
      BY <1>2, <2>1, <3>1, <3>2 DEF Passed
    <3>4. ASSUME n = s PROVE j < k
      <4>1. k >= SegPages(h)
        BY <2>1, <3>1, <3>2, <3>4
      <4>. QED BY <1>2, <3>2, <4>1
    <3>5. Passed(n, j)
      BY <3>3, <3>4 DEF Passed
    <3>6. SegmentPage(image, "driver", n, h, j) /\ building = "driver"
      BY <1>3, <3>1
    <3>7. SegPage(h, j) \in Mapped(pt["driver"])
      BY <2>1, <3>1, <3>5, <3>6, Zenon DEF Arriving, DriverThere
    <3>. QED BY <3>1, <3>7
  <2>5. ChunkLeft'
    <3>1. Headers(building)' = Headers(w)
      BY <1>1, <1>3 DEF Headers
    <3>2. s + 1 <= Len(Headers(w)) => file_size' = Headers(w)[s + 1].filesz
      BY <2>1 DEF FileSize
    <3>3. PageSize * 0 = 0 /\ PageSize \in Nat
      BY BuildAssumption
    <3>4. ASSUME s + 1 <= Len(Headers(w)) PROVE Headers(w)[s + 1].filesz \in Nat
      <4>1. Headers(w) \in Seq(ProgramHeader) /\ s + 1 \in 1 .. Len(Headers(w))
        BY <1>2, <3>4, HeaderFacts
      <4>2. Headers(w)[s + 1] \in ProgramHeader
        BY <4>1
      <4>. QED BY <4>2 DEF ProgramHeader
    <3>. QED BY <2>1, <3>1, <3>2, <3>3, <3>4 DEF ChunkLeft
  <2>. QED BY <2>3, <2>4, <2>5 DEF Arriving
<1>8. CASE from_elf_done
  <2>1. pc = "segments" /\ pc' = "built" /\ s > Len(Headers(w))
    BY <1>3, <1>8 DEF from_elf_done
  <2>2. DriverThere'
    <3>1. SUFFICES ASSUME w = "driver", NEW n, NEW h, NEW j, SegmentPage(image, w, n, h, j),
                          h.filesz > 0
                   PROVE  SegPage(h, j) \in Mapped(pt[w])
      BY <1>1, <1>3, <2>1, Zenon DEF DriverThere
    <3>2. n \in 1 .. Len(Headers(w)) /\ Len(Headers(w)) \in Nat
      BY <1>2, <3>1, SegmentPageFacts, HeaderFacts
    <3>3. Passed(n, j)
      BY <1>2, <2>1, <3>2 DEF Passed
    <3>4. SegmentPage(image, "driver", n, h, j) /\ building = "driver"
      BY <1>3, <3>1
    <3>5. SegPage(h, j) \in Mapped(pt["driver"])
      BY <2>1, <3>1, <3>3, <3>4, Zenon DEF Arriving, DriverThere
    <3>. QED BY <3>1, <3>5
  <2>. QED BY <2>1, <2>2 DEF Arriving, Unloaded, ChunkLeft, Constructing
<1>. QED BY <1>5, <1>6, <1>7, <1>8

(* The steps that map a page in front of the segments, and those of run()  *)
(* and _start around the construction of the processes.                    *)
LEMMA ArrivingMaps ==
  ASSUME IInv, Exclusive, LoadableElf(image), Arriving, Growth, map_fixed \/ map_kernel_page
  PROVE  Arriving'
<1>1. MemKept /\ NoSegment("kernel") /\ NoSegment("driver")
  BY FixedKept, KernelPageKept
<1>2. InMemory'
  BY <1>1, MemoryKept DEF IInv, Arriving
<1>3. /\ pc \in {"fixed", "kernel_pages"} /\ building' = building
      /\ pc' \in {pc, "panicked"}
  <2>1. CASE map_fixed
    <3>1. PICK r, m : pc = "fixed" /\ (Panic(fa) \/ Panic(m.fa) \/ MapNext(m, r))
      BY <2>1, Zenon DEF map_fixed
    <3>. QED BY <3>1 DEF Panic, MapNext
  <2>2. CASE map_kernel_page
    <3>1. PICK m : pc = "kernel_pages" /\ (Panic(fa) \/ Panic(m.fa) \/ MapNext(m, fa))
      BY <2>2, Zenon DEF map_kernel_page
    <3>. QED BY <3>1 DEF Panic, MapNext
  <2>. QED BY <2>1, <2>2
<1>. QED BY <1>1, <1>2, <1>3, ArrivingFixed

(* The steps of run() and _start outside the construction.                 *)
LEMMA ArrivingMain ==
  ASSUME IInv, Exclusive, LoadableElf(image), Arriving, Growth,
         \/ identity_map_root \/ map_runtime_page \/ copy_heap_page
         \/ set_virtual_address_map \/ jump_to_kernel \/ swap_map \/ segment
  PROVE  Arriving'
<1>1. CASE identity_map_root \/ map_runtime_page \/ copy_heap_page
  <2>1. MemKept /\ NoSegment("kernel") /\ NoSegment("driver")
    BY <1>1, KernelStepsKept
  <2>2. InMemory'
    BY <2>1, MemoryKept DEF IInv, Arriving
  <2>3. pc' \in {"runtime", "copy", "panicked"}
    <3>1. CASE identity_map_root
      BY <3>1, Zenon DEF identity_map_root
    <3>2. CASE map_runtime_page
      BY <3>2 DEF map_runtime_page, MapNext
    <3>3. CASE copy_heap_page
      <4>1. PICK m : pc = "copy" /\ (pc' = pc \/ Panic(m.fa) \/ MapNext(m, fa))
        BY <3>3 DEF copy_heap_page
      <4>. QED BY <4>1 DEF Panic, MapNext
    <3>. QED BY <1>1, <3>1, <3>2, <3>3
  <2>. QED BY <2>2, <2>3, ArrivingStop DEF Constructing
<1>2. CASE set_virtual_address_map \/ jump_to_kernel \/ swap_map \/ segment
  <2>1. /\ pt' = pt /\ mem' = mem
        /\ pc' \in {"copy", "swap_map", "panicked", "swap_panic", "ioapic", "bad_elf"}
    BY <1>2 DEF set_virtual_address_map, jump_to_kernel, swap_map, segment, Goto, Panic
  <2>2. MemKept /\ NoSegment("kernel") /\ NoSegment("driver")
    BY <2>1, SameKeeps
  <2>3. InMemory'
    BY <2>2, MemoryKept DEF IInv, Arriving
  <2>. QED BY <2>1, <2>3, ArrivingStop DEF Constructing
<1>. QED BY <1>1, <1>2

(* The driver's construction starts on an empty table and ends with its    *)
(* pages in place.                                                         *)
LEMMA ArrivingDriver ==
  ASSUME IInv, DriverLater, Exclusive, LoadableElf(image), Arriving, Growth,
         ioapic_init \/ new_kernel_process
  PROVE  Arriving'
<1>1. CASE ioapic_init
  <2>1. MemKept /\ NoSegment("kernel") /\ NoSegment("driver")
    BY <1>1, IoApicKept
  <2>2. InMemory'
    BY <2>1, MemoryKept DEF IInv, Arriving
  <2>3. /\ pc = "ioapic" /\ building' = "driver" /\ pc' \in {"fixed", "fault"}
        /\ \E m : pt' = [pt EXCEPT !["kernel"] = m]
    BY <1>1 DEF ioapic_init
  <2>4. building = "kernel" /\ DOMAIN pt = Processes
    BY <2>3 DEF IInv, Types, Stages, Loading
  <2>5. pt'["driver"] = EmptyTable
    BY <2>3, <2>4 DEF DriverLater, Processes
  <2>6. Mapped(pt'["driver"]) = {}
    BY <2>5, EmptyTableFacts
  <2>7. Unloaded'
    BY <2>3, <2>6 DEF Unloaded
  <2>. QED BY <2>2, <2>3, <2>7 DEF Arriving, DriverThere, ChunkLeft
<1>2. CASE new_kernel_process
  <2>1. /\ pt' = pt /\ mem' = mem /\ image' = image /\ building = "driver" /\ building' = building
        /\ pc = "built" /\ pc' = "running"
    BY <1>2 DEF new_kernel_process, Goto, const
  <2>2. MemKept /\ NoSegment("kernel") /\ NoSegment("driver")
    BY <2>1, SameKeeps
  <2>3. InMemory'
    BY <2>2, MemoryKept DEF IInv, Arriving
  <2>4. \A n, h, j : SegmentPage(image, "driver", n, h, j) /\ h.filesz > 0 =>
          SegPage(h, j) \in Mapped(pt["driver"])
    BY <2>1 DEF Arriving, DriverThere
  <2>5. DriverThere'
    BY <2>1, <2>4 DEF DriverThere
  <2>. QED BY <2>1, <2>3, <2>5 DEF Arriving, Unloaded, ChunkLeft, Constructing
<1>. QED BY <1>1, <1>2

(* Every step keeps the bytes that have arrived and the pages that the     *)
(* others are still to arrive on.                                          *)
LEMMA ArrivingNext ==
  /\ IInv /\ DriverLater /\ Exclusive /\ (SoundElf(image) => Room)
  /\ (LoadableElf(image) => Arriving) /\ [Next]_vars
  => (LoadableElf(image) => Arriving)'
<1>. SUFFICES ASSUME IInv, DriverLater, Exclusive, SoundElf(image) => Room,
                     LoadableElf(image) => Arriving, [Next]_vars, LoadableElf(image')
              PROVE  Arriving'
  OBVIOUS
<1>1. CASE get_memory_map \/ exit_boot_services \/ mem_init \/ init_heap_page \/ init_heap_done
  BY <1>1, ArrivingLoader
<1>2. CASE finished \/ UNCHANGED vars
  <2>1. UNCHANGED <<memory_map, image, pt, mem, building, pc, s, k, file_size>>
    BY <1>2 DEF finished, vars
  <2>2. Arriving
    BY <2>1
  <2>3. /\ InMemory' <=> InMemory
        /\ Unloaded' <=> Unloaded
        /\ DriverThere' <=> DriverThere
        /\ ChunkLeft' <=> ChunkLeft
    BY <2>1 DEF InMemory, Unloaded, DriverThere, ChunkLeft, HoldsBytes, Passed, Headers
  <2>. QED BY <2>2, <2>3 DEF Arriving
<1>3. CASE \/ BuildNext
           \/ identity_map_root \/ map_runtime_page \/ copy_heap_page
           \/ set_virtual_address_map \/ jump_to_kernel \/ new_kernel_process
           \/ swap_map \/ ioapic_init
  <2>1. building # "loader"
    BY <1>3, PastLoader
  <2>2. Growth
    BY <2>1, IInvNext
  <2>3. LoadableElf(image)
    BY <2>2 DEF Growth
  <2>4. Arriving
    BY <2>3
  <2>5. Room
    BY <2>3 DEF LoadableElf
  <2>6. file_size \in Nat
    BY <2>5 DEF Room
  <2>7. CASE next_fixed \/ fixed_done \/ next_kernel_segment \/ kernel_pages_done
             \/ progam_headers \/ next_segment \/ from_elf_done
    <3>1. pt' = pt /\ mem' = mem
      BY <2>7 DEF next_fixed, fixed_done, next_kernel_segment, kernel_pages_done,
                  progam_headers, next_segment, from_elf_done
    <3>2. MemKept /\ NoSegment("kernel") /\ NoSegment("driver")
      BY <3>1, SameKeeps
    <3>3. InMemory'
      BY <2>2, <2>3, <2>4, <3>2, MemoryKept DEF IInv, Arriving
    <3>. QED BY <2>2, <2>4, <2>5, <2>7, <3>3, ArrivingQuiet
  <2>8. CASE map_fixed \/ map_kernel_page \/ load_page \/ segment
    BY <2>2, <2>3, <2>4, <2>6, <2>8, ArrivingMaps, ArrivingMain, LoadArrives
  <2>9. CASE BuildNext
    BY <2>7, <2>8, <2>9 DEF BuildNext
  <2>. QED BY <1>3, <2>2, <2>3, <2>4, <2>9, ArrivingMain, ArrivingDriver
<1>4. CASE table_fault
  <2>1. pc' = "table_fault" /\ building # "loader" /\ pt' = pt /\ mem' = mem /\ image' = image
    BY <1>4, FaultFacts
  <2>2. LoadableElf(image)
    BY <2>1
  <2>3. Arriving /\ Growth
    BY <2>1, <2>2, IInvNext
  <2>4. MemKept /\ NoSegment("kernel") /\ NoSegment("driver")
    BY <2>1, SameKeeps
  <2>5. InMemory'
    BY <2>2, <2>3, <2>4, MemoryKept DEF IInv, Arriving
  <2>. QED BY <2>1, <2>5, ArrivingStop DEF Constructing
<1>. QED BY <1>1, <1>2, <1>3, <1>4 DEF Next

(* The bytes of loadable files stay in place in every reachable state.     *)
LEMMA ArrivingInvariance ==
  Spec => [](IInv /\ (SoundElf(image) => Room) /\ (LoadableElf(image) => Arriving))
<1>1. Init => (LoadableElf(image) => Arriving)
  <2>1. ASSUME Init PROVE Arriving
    <3>1. \A w \in {"kernel", "driver"} : Mapped(pt[w]) = {}
      <4>1. pt["kernel"] = EmptyTable /\ pt["driver"] = EmptyTable
        BY <2>1 DEF Init
      <4>. QED BY <4>1, EmptyTableFacts
    <3>2. pc = "get_memory_map"
      BY <2>1 DEF Init
    <3>. QED BY <3>1, <3>2 DEF Arriving, InMemory, Unloaded, DriverThere, ChunkLeft, Constructing
  <2>. QED BY <2>1
<1>. QED BY <1>1, ArrivingNext, RoomInvariance, ExclusiveInvariance, PTL DEF Spec

(* Byte b of what begins on the v-th border and has size bytes: byte c of  *)
(* its page j.                                                             *)
PlaceOf(d, v, size, b, j, c) ==
  /\ j \in Nat /\ c \in 0 .. (d - 1)
  /\ b = d * j + c /\ (d * v + b) \div d = v + j /\ (d * v + b) % d = c
  /\ v + j <= (d * v + size) \div d

(* Each byte has such a place.                                             *)
LEMMA OnBorder ==
  ASSUME NEW d \in Nat \ {0}, NEW v \in Nat, NEW size \in Nat, NEW b \in 0 .. size
  PROVE  \E j, c : PlaceOf(d, v, size, b, j, c)
<1>1. PICK j \in Nat, c \in 0 .. (d - 1) : b = d * j + c
  <2>1. b \in Nat
    OBVIOUS
  <2>. QED BY <2>1, Division
<1>2. PICK a \in Nat, e \in Nat : a = d * v + b /\ e = d * v + size
  <2>1. d * v \in Nat
    OBVIOUS
  <2>. QED BY <2>1
<1>3. PICK p \in Nat, r \in 0 .. (d - 1) : e = d * p + r /\ p = e \div d
  BY <1>2, Division
<1>4. PICK q \in Nat : q = v + j
  BY <1>1
<1>5. d * q = d * v + d * j /\ d * v \in Nat /\ d * j \in Nat /\ d * p \in Nat
  BY <1>1, <1>3, <1>4
<1>6. a = d * q + c
  BY <1>1, <1>2, <1>5
<1>7. a \div d = q /\ a % d = c
  BY <1>1, <1>2, <1>4, <1>6, DivUnique
<1>8. q <= p
  <2>1. ASSUME p < q PROVE FALSE
    <3>1. d * p + d <= d * q
      BY <1>3, <1>4, <2>1, NextMultiple
    <3>2. e = d * p + r /\ r \in 0 .. (d - 1) /\ c \in 0 .. (d - 1)
      BY <1>1, <1>3, Zenon
    <3>. QED BY <1>1, <1>2, <1>5, <3>1, <3>2
  <2>. QED BY <1>3, <1>4, <2>1
<1>. QED BY <1>1, <1>2, <1>3, <1>4, <1>7, <1>8 DEF PlaceOf

(* Where byte b of a segment on a page border belongs: page j of the       *)
(* segment, byte c of the page.                                            *)
BytePlace(w, n, h, b, j, c) ==
  /\ SegmentPage(image, w, n, h, j) /\ c \in 0 .. (PageSize - 1) /\ b = PageSize * j + c
  /\ Containing(h.va + b) = SegPage(h, j) /\ (h.va + b) % PageSize = c

(* Each byte of a segment on a page border has such a place.               *)
LEMMA ByteHasPlace ==
  ASSUME Types, NEW w \in {"kernel", "driver"}, NEW n \in 1 .. Len(Headers(w)),
         NEW h, h = Headers(w)[n], h.load, h.va % PageSize = 0, NEW b \in 0 .. (h.filesz - 1)
  PROVE  \E j, c : BytePlace(w, n, h, b, j, c)
<1>1. /\ image \in Images /\ h \in ProgramHeader
  BY HeaderFacts DEF Types
<1>2. /\ PageSize \in Nat \ {0} /\ h.va \in Nat /\ h.filesz \in Nat /\ h.memsz \in Nat /\ b \in Nat
      /\ h.filesz <= h.memsz
  <2>1. h.filesz <= h.memsz
    BY <1>1, ImageAssumption DEF Headers
  <2>. QED BY <1>1, <2>1, BuildAssumption DEF ProgramHeader
<1>3. PICK v \in Nat : v = h.va \div PageSize /\ h.va = PageSize * v
  <2>1. PICK v \in Nat, z \in 0 .. (PageSize - 1) :
          h.va = PageSize * v + z /\ v = h.va \div PageSize /\ z = h.va % PageSize
    BY <1>2, Division
  <2>2. PageSize * v \in Nat
    BY <1>2, <2>1
  <2>3. h.va = PageSize * v + 0
    BY <2>1
  <2>. QED BY <2>1, <2>2, <2>3
<1>4. b \in 0 .. h.memsz
  BY <1>2
<1>5. PICK j, c : PlaceOf(PageSize, v, h.memsz, b, j, c)
  BY <1>2, <1>3, <1>4, OnBorder, Zenon
<1>6. /\ (h.va + b) \div PageSize = v + j /\ (h.va + b) % PageSize = c
      /\ v + j <= (h.va + h.memsz) \div PageSize
      /\ j \in Nat /\ c \in 0 .. (PageSize - 1) /\ b = PageSize * j + c
  BY <1>3, <1>5, Zenon DEF PlaceOf
<1>7. j \in 0 .. (SegPages(h) - 1)
  <2>1. SegPages(h) = (h.va + h.memsz) \div PageSize - v + 1
    BY <1>3, Zenon DEF SegPages, Containing
  <2>2. PICK p \in Nat : p = (h.va + h.memsz) \div PageSize
    <3>1. PICK e \in Nat : e = h.va + h.memsz
      BY <1>2
    <3>2. \E q \in Nat, r \in 0 .. (PageSize - 1) :
            e = PageSize * q + r /\ q = e \div PageSize /\ r = e % PageSize
      BY <1>2, <3>1, Division
    <3>. QED BY <3>1, <3>2
  <2>3. SegPages(h) = p - v + 1 /\ v + j <= p /\ v \in Nat /\ j \in Nat
    BY <1>3, <1>6, <2>1, <2>2, Zenon
  <2>. QED BY <2>2, <2>3
<1>8. SegmentPage(image, w, n, h, j)
  BY <1>7 DEF SegmentPage, Headers
<1>9. Containing(h.va + b) = SegPage(h, j)
  BY <1>3, <1>6, Zenon DEF Containing, SegPage
<1>. QED BY <1>6, <1>8, <1>9, Zenon DEF BytePlace

(* When a process starts, every page of its segments that has file bytes   *)
(* is mapped.                                                              *)
LEMMA PagesThere ==
  ASSUME IInv, Room, Arriving, NEW w \in {"kernel", "driver"}, Loaded(w),
         NEW n, NEW h, NEW j, SegmentPage(image, w, n, h, j), h.filesz > 0
  PROVE  SegPage(h, j) \in Mapped(pt[w])
<1>1. CASE w = "kernel"
  <2>1. SegmentPages("kernel") \subseteq Mapped(pt["kernel"])
    BY <1>1 DEF Loaded, Room, SegmentsThere
  <2>2. SegPage(h, j) \in SegmentsOf(image[w].headers)
    BY SegmentPageFacts DEF IInv
  <2>. QED BY <1>1, <2>1, <2>2 DEF SegmentPages, Headers
<1>2. CASE w = "driver"
  <2>1. pc = "running" /\ building = "driver"
    BY <1>2 DEF Loaded, IInv, Stages, Loading
  <2>2. SegmentPage(image, "driver", n, h, j)
    BY <1>2
  <2>. QED BY <1>2, <2>1, <2>2 DEF Arriving, DriverThere
<1>. QED BY <1>1, <1>2

(* When the kernel or the driver starts, every byte of every segment of    *)
(* its file is in memory at the segment's virtual address, for files whose *)
(* segments are separate and start on page borders.  The loops of          *)
(* kernel_from_elf and from_elf (process.rs 164-229, 391-460) copy each    *)
(* page's chunk to a frame of its own; no later table, no page of the      *)
(* driver and no frame taken after swap_map overwrites one, and no page is *)
(* missing, although kernel_from_elf drops the result of map_to.           *)
THEOREM FilesArrive == Spec => [](LoadableElf(image) => FileBytesLoaded)
<1>1. ASSUME IInv, SoundElf(image) => Room, LoadableElf(image) => Arriving, LoadableElf(image)
      PROVE  FileBytesLoaded
  <2>1. Types /\ Room /\ Arriving
    BY <1>1 DEF IInv, LoadableElf
  <2>2. SUFFICES ASSUME NEW w \in {"kernel", "driver"}, Loaded(w),
                        NEW n \in 1 .. Len(Headers(w)), Headers(w)[n].load,
                        NEW b \in 0 .. (Headers(w)[n].filesz - 1)
                 PROVE  LET a == Headers(w)[n].va + b IN
                        /\ Containing(a) \in Mapped(pt[w])
                        /\ CellAt(w, a) \in DOMAIN mem
                        /\ mem[CellAt(w, a)] = <<w, Headers(w)[n].offset + b>>
    BY Zenon DEF FileBytesLoaded
  <2>3. PICK h : h = Headers(w)[n]
    OBVIOUS
  <2>4. h.load /\ b \in 0 .. (h.filesz - 1) /\ h \in ProgramHeader
    BY <2>1, <2>2, <2>3, HeaderFacts
  <2>5. h.va % PageSize = 0
    <3>1. OnPageBorders(image["kernel"].headers) /\ OnPageBorders(image["driver"].headers)
      BY <1>1, Zenon DEF LoadableElf, SoundElf
    <3>2. OnPageBorders(Headers(w))
      BY <2>2, <3>1 DEF Headers
    <3>. QED BY <2>2, <2>3, <3>2, Zenon DEF OnPageBorders
  <2>6. PICK j, c : BytePlace(w, n, h, b, j, c)
    BY <2>1, <2>2, <2>3, <2>4, <2>5, ByteHasPlace
  <2>7. /\ SegmentPage(image, w, n, h, j) /\ c \in 0 .. (PageSize - 1) /\ b = PageSize * j + c
        /\ Containing(h.va + b) = SegPage(h, j) /\ (h.va + b) % PageSize = c
    BY <2>6, Zenon DEF BytePlace
  <2>8. h.filesz > 0 /\ b < h.filesz
    BY <2>4 DEF ProgramHeader
  <2>9. SegPage(h, j) \in Mapped(pt[w])
    BY <1>1, <2>1, <2>2, <2>7, <2>8, PagesThere
  <2>10. HoldsBytes(w, h, j, pt[w].map[SegPage(h, j)])
    BY <2>1, <2>2, <2>7, <2>9, Zenon DEF Arriving, InMemory
  <2>11. CellAt(w, h.va + b) = PageSize * pt[w].map[SegPage(h, j)] + c
    BY <2>7, Zenon DEF CellAt
  <2>12. PageSize * j + c < h.filesz
    BY <2>7, <2>8
  <2>13. /\ CellAt(w, h.va + b) \in DOMAIN mem
         /\ mem[CellAt(w, h.va + b)] = <<w, h.offset + b>>
    BY <2>7, <2>10, <2>11, <2>12, Zenon DEF HoldsBytes
  <2>. QED BY <2>3, <2>7, <2>9, <2>13
<1>. QED BY <1>1, ArrivingInvariance, PTL
===============================================================================
