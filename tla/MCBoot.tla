-------------------------------- MODULE MCBoot --------------------------------
(* Bounded instances of Boot: two-byte pages, ten entries to a table, two   *)
(* levels of tables, images of up to two segments, every amount of memory.  *)
EXTENDS Boot

Seg(offset, va, filesz, memsz) ==
  [load |-> TRUE, offset |-> offset, va |-> va, filesz |-> filesz, memsz |-> memsz]

Note(offset, va, filesz) ==
  [load |-> FALSE, offset |-> offset, va |-> va, filesz |-> filesz, memsz |-> filesz]

Elf(headers) == [headers |-> headers, len |-> 10, entry_size_ok |-> TRUE]

(* Segments that start on a page border and leave a page free between them; *)
(* the addresses are in units of bytes, page 400 is byte 800.               *)
Separate ==
  {Elf(<< Seg(1, 800, 2, 2), Seg(3, 806, 3, 6) >>),
   Elf(<< Seg(2, 800, 5, 5), Note(0, 790, 1) >>)}

Drivers ==
  {Elf(<< Seg(1, 1000, 3, 3), Seg(4, 1008, 1, 5) >>), Elf(<< Seg(1, 1000, 0, 3) >>)}

Broken ==
  {[headers |-> << Seg(6, 1000, 5, 5) >>, len |-> 10, entry_size_ok |-> TRUE],
   [headers |-> << Seg(1, 1000, 1, 1) >>, len |-> 10, entry_size_ok |-> FALSE],
   [headers |-> << >>, len |-> 10, entry_size_ok |-> FALSE]}

MCImages == [kernel : Separate, driver : Drivers \cup Broken]

(* Segments that touch: the second starts on the page behind the first.     *)
MCAdjacent == [kernel : {Elf(<< Seg(1, 800, 2, 2), Seg(3, 802, 2, 2) >>)}, driver : {Elf(<< >>)}]

Desc(type, start, size) ==
  [type |-> type, start |-> start, size |-> size, runtime |-> type = "RuntimeServicesData"]

(* Loader code, in front of or behind some usable memory (a frames), the    *)
(* stack, runtime data, memory for the loader (b), a descriptor swap_map    *)
(* loses, a gap, and memory for the kernel (d) up to the last large page;   *)
(* what is not usable is filled with other types.                           *)
MCMap(codeFirst, a, b, d) ==
  LET code == << Desc("LoaderCode", IF codeFirst THEN 1 ELSE 7, 2) >>
      low  == IF codeFirst THEN 3 ELSE 1
      free == << Desc("Conventional", low, a), Desc("LoaderData", low + a, 6 - a) >>
  IN SelectSeq(
       (IF codeFirst THEN code \o free ELSE free \o code) \o
       << Desc("BootServicesData", 9, 3), Desc("RuntimeServicesData", 12, 2),
          Desc("Conventional", 14, b), Desc("LoaderData", 14 + b, 30 - b),
          Desc("RuntimeServicesData", 44, 1), Desc("Conventional", 45, 2),
          Desc("Reserved", 49, 15),
          Desc("BootServicesCode", 64, d), Desc("LoaderData", 64 + d, 25 - d) >>,
       LAMBDA x : x.size > 0)

(* The same with wide gaps: of the kernel's memory only d frames lie within *)
(* the window, and when b is small some of the loader's tables lie beyond.  *)
MCGaps(b, d) ==
  SelectSeq(MCMap(TRUE, 2, b, d),
            LAMBDA x : x.start < 49 \/ (x.start = 64 /\ x.type = "BootServicesCode")) \o
  << Desc("Conventional", 140, 12), Desc("Conventional", 155, 1),
     Desc("BootServicesCode", 160, 25) >>

MCMaps ==
  {MCMap(TRUE, 2, b, d) : b \in 0 .. 28, d \in {0, 25}} \cup
  {MCMap(FALSE, 6, 26, d) : d \in 0 .. 25} \cup
  {MCGaps(b, 0) : b \in 14 .. 20} \cup {MCGaps(26, d) : d \in 1 .. 15}
===============================================================================
