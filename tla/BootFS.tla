------------------------------- MODULE BootFS -------------------------------
(***************************************************************************)
(* The boot image: boot_image_generator/src/main.rs writes it, the boot_fs *)
(* library of the same crate reads it in the loader and in the kernel.     *)
(* The image is a number of headers, the headers, and then the files.  The *)
(* generator opens every input twice, once for the length it puts into the *)
(* header and once for the bytes, and the builds of the inputs run beside  *)
(* it.  A byte of the image is the pair of what it belongs to and its      *)
(* place in it; names are left out (nothing selects a file by its name).   *)
(***************************************************************************)
EXTENDS Integers, Sequences, FiniteSets

CONSTANTS
  KERNELS,      (* OTHER: the kernel's executable, a sequence of inputs    *)
  DRIVERS,      (* the drivers' executables                                *)
  Lengths,      (* possible lengths of an input in bytes                   *)
  HeaderSize,   (* size_of::<FileHeader>(), 26                             *)
  MAX_FILES,    (* headers there is room for, 64                           *)
  MaxRebuilds   (* bound: how often an input changes during a run          *)

CountSize == 2          (* the number of headers, a u16                    *)
ReservedForCount == 4   (* size_of::<u32>(), what the layout sets aside    *)

Inputs == {KERNELS[i] : i \in 1..Len(KERNELS)} \cup {DRIVERS[i] : i \in 1..Len(DRIVERS)}

(* Every input is listed once, OTHER holds one path, and MAX_FILES, which  *)
(* nothing tests, is kept to by the two lists in the source.               *)
ASSUME BootFSAssumption ==
  /\ KERNELS \in Seq(Inputs) /\ DRIVERS \in Seq(Inputs)
  /\ Cardinality(Inputs) = Len(KERNELS) + Len(DRIVERS)
  /\ Len(KERNELS) = 1 /\ Len(KERNELS) + Len(DRIVERS) <= MAX_FILES /\ MAX_FILES \in Nat
  /\ HeaderSize \in Nat \ {0} /\ Lengths \subseteq Nat /\ MaxRebuilds \in Nat

VARIABLES
  disk,       (* length of each input on disk now                          *)
  rebuilt,    (* how often each input changed since the run began          *)
  file_headers, offset,  (* of main                                        *)
  output,     (* boot_image.bin: a sequence of bytes                       *)
  cut,        (* the inputs of which not all bytes were written            *)
  pc, i,      (* the loop of main and its index                            *)
  loader, kernel  (* what the two readers took from the image              *)

vars == <<disk, rebuilt, file_headers, offset, output, cut, pc, i, loader, kernel>>

(* Mutant: the drivers come first.                                         *)
files_drivers_first == DRIVERS \o KERNELS

(* Make sure kernel is first.                                              *)
files == KERNELS \o DRIVERS

(* Mutant: room for one header too few.                                    *)
FirstOffset_one_less == HeaderSize * (MAX_FILES - 1) + ReservedForCount

FirstOffset == HeaderSize * MAX_FILES + ReservedForCount

Zero == <<"zero">>

(* seek, then write: a gap before the position is filled with zeros.  A    *)
(* write of no bytes fills none.                                           *)
WriteAt(out, pos, bytes) ==
  LET end == IF bytes = <<>> THEN 0 ELSE pos + Len(bytes) IN
  [k \in 1..(IF end > Len(out) THEN end ELSE Len(out)) |->
     IF k > pos /\ k <= end THEN bytes[k - pos]
     ELSE IF k <= Len(out) THEN out[k] ELSE Zero]

CountBytes(n) == [k \in 1..CountSize |-> <<"count", n>>]

HeaderBytes(h) == [k \in 1..HeaderSize |-> <<"header", h, k>>]

(* What a reader has: nothing yet, a panic, or bytes.                      *)
NotRead == [is |-> "not read", data |-> <<>>]

Panics == [is |-> "panics", data |-> <<>>]

Read(bytes) == [is |-> "read", data |-> bytes]

(* The bytes of an input as it is now: a rebuild changes all of them.      *)
FileBytes(f) == [k \in 1..disk[f] |-> <<"file", f, rebuilt[f], k>>]

Init ==
  /\ disk \in [Inputs -> Lengths]
  /\ rebuilt = [f \in Inputs |-> 0]
  /\ file_headers = <<>> /\ offset = FirstOffset /\ output = <<>> /\ cut = {}
  /\ pc = "lengths" /\ i = 1
  /\ loader = NotRead /\ kernel = NotRead

(* cargo writes an input again while the generator runs.                   *)
rebuild(f) ==
  /\ pc \in {"lengths", "headers", "data"}
  /\ rebuilt[f] < MaxRebuilds
  /\ \E n \in Lengths : disk' = [disk EXCEPT ![f] = n]
  /\ rebuilt' = [rebuilt EXCEPT ![f] = @ + 1]
  /\ UNCHANGED <<file_headers, offset, output, cut, pc, i, loader, kernel>>

(* The first loop: the length of one input becomes its header.             *)
read_length ==
  /\ pc = "lengths" /\ i <= Len(files)
  /\ file_headers' = Append(file_headers,
                            [file_offset |-> offset, file_length |-> disk[files[i]]])
  /\ offset' = offset + disk[files[i]]
  /\ i' = i + 1
  /\ UNCHANGED <<disk, rebuilt, output, cut, pc, loader, kernel>>

(* File::create and the number of headers.                                 *)
write_count ==
  /\ pc = "lengths" /\ i > Len(files)
  /\ output' = CountBytes(Len(file_headers))
  /\ pc' = "headers" /\ i' = 1
  /\ UNCHANGED <<disk, rebuilt, file_headers, offset, cut, loader, kernel>>

(* The number and the headers, a few bytes each, are taken as written      *)
(* whole.                                                                  *)
write_header ==
  /\ pc = "headers" /\ i <= Len(file_headers)
  /\ output' = output \o HeaderBytes(file_headers[i])
  /\ i' = i + 1
  /\ UNCHANGED <<disk, rebuilt, file_headers, offset, cut, pc, loader, kernel>>

headers_written ==
  /\ pc = "headers" /\ i > Len(file_headers)
  /\ pc' = "data" /\ i' = 1
  /\ UNCHANGED <<disk, rebuilt, file_headers, offset, output, cut, loader, kernel>>

(* Mutant: the data is appended where the last write ended.                *)
write_data_no_seek ==
  /\ pc = "data" /\ i <= Len(files)
  /\ output' = output \o FileBytes(files[i])
  /\ i' = i + 1
  /\ UNCHANGED <<disk, rebuilt, file_headers, offset, cut, pc, loader, kernel>>

(* The second open: the bytes the input has by now, at the header's        *)
(* offset.  File::write may write fewer than it is given, and says how     *)
(* many; nobody looks.                                                     *)
write_data ==
  /\ pc = "data" /\ i <= Len(files)
  /\ LET f == files[i] IN
     \E n \in 0..disk[f] :
       /\ output' = WriteAt(output, file_headers[i].file_offset, SubSeq(FileBytes(f), 1, n))
       /\ cut' = IF n < disk[f] THEN cut \cup {f} ELSE cut
  /\ i' = i + 1
  /\ UNCHANGED <<disk, rebuilt, file_headers, offset, pc, loader, kernel>>

image_built ==
  /\ pc = "data" /\ i > Len(files)
  /\ pc' = "load"
  /\ UNCHANGED <<disk, rebuilt, file_headers, offset, output, cut, i, loader, kernel>>

-----------------------------------------------------------------------------
(* BootImageFS.  A header that is not one (its bytes were overwritten) is  *)
(* garbage to the reader.                                                  *)
Count == output[1][2]

Garbage == [file_offset |-> 0, file_length |-> 0]

Header(k) ==
  LET at == CountSize + HeaderSize * (k - 1) IN
  IF \E h \in {file_headers[n] : n \in 1..Len(file_headers)} :
       \A b \in 1..HeaderSize : at + b <= Len(output) /\ output[at + b] = <<"header", h, b>>
  THEN output[at + 1][2] ELSE Garbage

(* The slice: out of the image's bounds, it panics.                        *)
file_data(h) ==
  IF h.file_offset + h.file_length > Len(output) THEN Panics
  ELSE Read(SubSeq(output, h.file_offset + 1, h.file_offset + h.file_length))

AllRead == [k \in 1..Count |-> file_data(Header(k))]

(* The loader takes the slice of every file and keeps the first.           *)
loader_reads ==
  /\ pc = "load"
  /\ loader' = IF Count = 0 \/ \E k \in 1..Count : AllRead[k] = Panics
               THEN Panics ELSE AllRead[1]
  /\ pc' = IF loader' = Panics THEN "stopped" ELSE "start"
  /\ UNCHANGED <<disk, rebuilt, file_headers, offset, output, cut, i, kernel>>

(* _start takes the first file as the kernel and the second as the driver; *)
(* files.next().unwrap() panics when there is none.                        *)
kernel_reads ==
  /\ pc = "start"
  /\ kernel' = IF Count < 2 THEN Panics ELSE Read(<<AllRead[1], AllRead[2]>>)
  /\ pc' = "stopped"
  /\ UNCHANGED <<disk, rebuilt, file_headers, offset, output, cut, i, loader>>

stopped == pc = "stopped" /\ UNCHANGED vars

Next ==
  \/ \E f \in Inputs : rebuild(f)
  \/ read_length \/ write_count \/ write_header \/ headers_written
  \/ write_data \/ image_built
  \/ loader_reads \/ kernel_reads \/ stopped

Spec == Init /\ [][Next]_vars

-----------------------------------------------------------------------------
Built == pc \in {"load", "start", "stopped"}

Unchanged(f) == rebuilt[f] = 0

(* An input whose bytes went into the image as they were when the run      *)
(* began; an empty one has no place in it.                                 *)
Kept(f) == Unchanged(f) /\ f \notin cut /\ disk[f] > 0

(* In a finished image an input that was not built again during the run    *)
(* and written whole reads back byte for byte, whatever happened to its    *)
(* neighbours: one that grew between the two opens spills over the next    *)
(* file, which is written after it, and one that shrank or was cut short   *)
(* leaves a gap in its own place only (main.rs 43-61, 85-96).  An empty    *)
(* input need not: its slice lies outside a shortened image.               *)
FilesReadBack ==
  Built => \A k \in 1..Len(files) :
    Kept(files[k]) => file_data(file_headers[k]) = Read(FileBytes(files[k]))

(* The readers find every header the generator made, in order: no data is  *)
(* written over the headers and the space set aside is enough for them     *)
(* (main.rs 40, 72-96 against lib.rs 57-62).                               *)
HeadersReadBack ==
  Built => /\ Count = Len(files)
           /\ \A k \in 1..Count : Header(k) = file_headers[k]

(* "Make sure kernel is first or everything breaks" (main.rs 27): when     *)
(* every input went into the image, the loader starts the kernel's         *)
(* executable, the kernel copies its own pages from that same file and     *)
(* never takes itself for the driver.                                      *)
KernelFirst ==
  (\A f \in Inputs : Kept(f)) =>
    /\ loader # NotRead => loader = Read(FileBytes(KERNELS[1]))
    /\ kernel \notin {NotRead, Panics} =>
         kernel = Read(<<Read(FileBytes(KERNELS[1])), Read(FileBytes(DRIVERS[1]))>>)
=============================================================================
