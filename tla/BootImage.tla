------------------------------ MODULE BootImage ------------------------------
(***************************************************************************)
(* The kernel makes the boot image visible (kernel/src/main.rs, _start):   *)
(* map_virt over the image at BOOT_IMAGE, whose failure panics, and then a *)
(* loop over all frames of the image that drops every result.  The second  *)
(* loop matters: the image need not start on a page border, and map_virt   *)
(* stops with the shorter of its two ranges.  Its pages are of 2 MiB, that *)
(* is, of level 2.  Before, interrupts::init and the PCI functions have    *)
(* mapped pages of their own, with whatever result.                        *)
(***************************************************************************)
EXTENDS Paging

CONSTANTS BOOT_IMAGE,      (* virtual address of the image                 *)
          ImageAddresses,  (* where the loader may have put it             *)
          ImageSizes

(* The first small page of the image's range and the level-2 table it lies *)
(* in.                                                                     *)
ImageStart == Containing(BOOT_IMAGE, 1)

ImageTable == TableOf(ImageStart, 2)

(* BOOT_IMAGE (100 GiB) stands at the border of a level-2 table (1 GiB),   *)
(* the image (some 20 MB) fits into that table, and no other call touches  *)
(* a page of it: those of the I/O APIC and of identity mappings lie below  *)
(* it and those of PCI (1 TB) above, maybe under the same upper tables.    *)
ASSUME ImageAssumption ==
  /\ Levels >= 2 /\ ImageAddresses \subseteq Nat /\ ImageSizes \subseteq Nat
  /\ BOOT_IMAGE \in Nat /\ BOOT_IMAGE % (PageSize * Entries ^ 2) = 0
  /\ \A z \in ImageSizes : Containing(z, 2) + 1 < Entries
  /\ \A l \in 1 .. Levels, a \in Addresses, z \in Sizes :
       \A page \in Containing(a, l) .. Containing(a + z, l) :
         \A p \in (page * Covered(l)) .. (page * Covered(l) + Covered(l) - 1) :
           TableOf(p, 2) # ImageTable

VARIABLES boot_image,  (* (address, length) from the kernel parameters     *)
          boot,        (* where _start stands                              *)
          j            (* frame of the second loop                         *)

vars == <<pt, fa, call, calls, done, boot_image, boot, j>>

NoImage == [addr |-> 0, len |-> 0]

ImageInit ==
  /\ Init
  /\ boot_image = NoImage
  /\ boot = "start" /\ j = 0

Stay == UNCHANGED <<boot_image, boot, j>>

(* The parameters are read: the image may lie anywhere.                    *)
map_image ==
  /\ boot = "start"
  /\ boot_image' \in [addr : ImageAddresses, len : ImageSizes]
  /\ map_virt(2, boot_image'.addr, BOOT_IMAGE, boot_image'.len)
  /\ boot' = "map_virt"
  /\ UNCHANGED j

(* .unwrap()                                                               *)
unwrap ==
  /\ boot = "map_virt" /\ Idle
  /\ boot' = IF call.res = "Ok" THEN "loop" ELSE "panicked"
  /\ UNCHANGED <<pt, fa, call, calls, done, boot_image, j>>

FirstImageFrame == Containing(boot_image.addr, 2)

LastImageFrame == Containing(boot_image.addr + boot_image.len, 2)

LargePage == PageSize * Covered(2)

(* Mutant: the loop counts from the image's address, not from its frame.   *)
map_image_frame_shifted ==
  /\ boot = "loop" /\ FirstImageFrame + j <= LastImageFrame
  /\ LET frame == FirstImageFrame + j
         page  == Containing(BOOT_IMAGE + boot_image.addr - LargePage * FirstImageFrame
                             + LargePage * (j + 1), 2)
         r     == map_to_level(pt, fa, 2, page, frame) IN
     pt' = r.pt /\ fa' = r.fa
  /\ j' = j + 1
  /\ UNCHANGED <<call, calls, done, boot_image, boot>>

(* One iteration of the second loop; the result of map_to is dropped.      *)
map_image_frame ==
  /\ boot = "loop" /\ FirstImageFrame + j <= LastImageFrame
  /\ LET frame == FirstImageFrame + j
         page  == Containing(LargePage * frame - LargePage * FirstImageFrame + BOOT_IMAGE, 2)
         r     == map_to_level(pt, fa, 2, page, frame) IN
     pt' = r.pt /\ fa' = r.fa
  /\ j' = j + 1
  /\ UNCHANGED <<call, calls, done, boot_image, boot>>

(* BootImageFS::new reads the image.                                       *)
read_image ==
  /\ boot = "loop" /\ FirstImageFrame + j > LastImageFrame
  /\ boot' = "read"
  /\ UNCHANGED <<pt, fa, call, calls, done, boot_image, j>>

stop == boot \in {"read", "panicked"} /\ UNCHANGED vars

ImageNext ==
  \/ boot = "start" /\ call_any /\ Stay
  \/ map_image
  \/ map_page /\ Stay
  \/ map_return /\ Stay
  \/ unwrap
  \/ map_image_frame
  \/ read_image
  \/ stop

ImageSpec == ImageInit /\ [][ImageNext]_vars

------------------------------------------------------------------------------
(* ptr = BOOT_IMAGE + boot_image.0 - pt.start_address()                    *)
ImagePointer == BOOT_IMAGE + boot_image.addr - LargePage * FirstImageFrame

(* When the kernel reads the image, each byte of it is mapped, at the      *)
(* address the kernel computes, to the frame that holds it, however the    *)
(* image lies in its pages and although the loop's errors are dropped.     *)
ImageReadable ==
  boot = "read" =>
    \A b \in 0 .. (boot_image.len - 1) :
      LET page == Containing(ImagePointer + b, 1) IN
      page \in Mapped(pt) /\ pt.map[page] = Containing(boot_image.addr + b, 1)
===============================================================================
