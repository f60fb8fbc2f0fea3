----------------------------- MODULE MCIsoImage -----------------------------
(* Inputs for create_iso: the one of disk_image_generator/src/main.rs and  *)
(* trees that exercise nesting, merging, directories of several blocks,    *)
(* files that end at a block's end, boot images that are patched and path  *)
(* tables of two blocks.                                                   *)
EXTENDS IsoImage

F(id, no, parts, size) ==
  [name |-> [id |-> id, no |-> no, parts |-> parts], is_dir |-> FALSE, size |-> size]

DirOf(id, no, parts, entries) ==
  [name |-> [id |-> id, no |-> no, parts |-> parts], is_dir |-> TRUE, entries |-> entries]

D(id, entries) == DirOf(id, 0, <<4>>, entries)

(* n files with names of one length.                                       *)
Many(n, parts) == [k \in 1..n |-> F("many", k, parts, 1)]

Img(size) == F("kernel.img", 0, <<6, 3>>, size)

KernelImg == Img(5000)

(* The path of the boot image: in the root, or in boot, or in boot/grub.   *)
InRoot == <<KernelImg.name>>
InBoot == <<D("boot", <<>>).name, KernelImg.name>>
InGrub == <<D("boot", <<>>).name, D("grub", <<>>).name, KernelImg.name>>

FileSizes == {0, 1, 2047, 2048, 2049, 4096}

Small ==
  {<<KernelImg>>, <<F("a", 0, <<252>>, 1), KernelImg>>,
   <<KernelImg, F("a", 0, <<251>>, 1)>>,
   <<KernelImg, F("a", 0, <<162>>, 1), DirOf("b", 0, <<164>>, <<F("c", 0, <<162>>, 1)>>)>>,
   <<D("boot", <<D("grub", <<KernelImg>>), D("misc", <<>>)>>), D("home", <<D("grub", <<>>)>>),
     D("boot", <<D("grub", Many(2, <<3>>)), F("b", 0, <<2>>, 1)>>), KernelImg>>}
  \cup {<<F("a", 0, <<1>>, s), D("boot", <<F("b", 0, <<1, 1>>, s), KernelImg>>), KernelImg>> :
          s \in FileSizes}

Wide ==
  {Many(n, p) \o <<D("many", Many(m, p)), D("last", Many(1, p))>> :
     n \in {0, 18, 19}, m \in {17, 37, 38}, p \in {<<8>>, <<7>>, <<9, 3>>}}

Option(e, info, grub2, n) ==
  [eltorito_boot |-> e, boot_info_table |-> info, grub2_boot_info |-> grub2, embedded_boot |-> n]

(* Path tables that fill two blocks, all that is reserved for each: 12     *)
(* directories with 16 each, of 20 bytes, and the root of 10.              *)
LongTable ==
  [k \in 1..12 |-> DirOf("many", k, <<8, 3>>, [n \in 1..16 |-> DirOf("below", n, <<8, 3>>, <<>>)])]

Boot == {Option(InRoot, info, grub2, 512) : info, grub2 \in BOOLEAN}

NoBootImage == {Option(<<>>, info, FALSE, n) :
                  info \in BOOLEAN, n \in {0, 16 * LOGIC_SIZE, 16 * LOGIC_SIZE + 1}}

Job(option, inputs) ==
  [inputs |-> inputs, eltorito_boot |-> option.eltorito_boot,
   boot_info_table |-> option.boot_info_table, grub2_boot_info |-> option.grub2_boot_info,
   embedded_boot |-> option.embedded_boot]

TreeOf(inputs) == set_path([name |-> inputs[1].name, is_dir |-> TRUE, entries |-> inputs])

(* No directory's records fill a block exactly: see MCIsoFullBlock.cfg.    *)
NeverFull(inputs) ==
  \A p \in PathsBelow(TreeOf(inputs), <<>>) : ~FillsABlock(At(TreeOf(inputs), p))

(* A boot image in a directory or in the root, with other files behind it. *)
ImgEverywhere(size) ==
  <<D("boot", <<Img(size), D("grub", <<Img(size), F("a", 0, <<1>>, 1)>>)>>), Img(size),
    F("z", 0, <<1>>, 1)>>

(* Boot images that the patches lengthen.  With grub2_boot_info one below  *)
(* a block outgrows its reservation and is left out.                       *)
Patched ==
  {Job(Option(path, info, FALSE, 0), ImgEverywhere(size)) :
     path \in {InRoot, InBoot, InGrub}, info \in BOOLEAN, size \in {0, 23, 24}}
  \cup {Job(Option(path, info, TRUE, 0), ImgEverywhere(size)) :
     path \in {InRoot, InBoot, InGrub}, info \in BOOLEAN, size \in {2048, 2555, 2556}}

(* Names of files of 163 to 250 characters, and of directories of 165 to   *)
(* 250, are left out: the length byte of their record, a u8, does not hold *)
(* its length.                                                             *)
MCJobs ==
  {Job(o, i) : o \in Boot \cup NoBootImage, i \in Small}
  \cup {Job(Option(<<>>, FALSE, FALSE, 0), i) : i \in {w \in Wide : NeverFull(w)}}
  \cup {Job(Option(<<>>, FALSE, FALSE, 0), LongTable)}
  \cup Patched
  \cup {Job(Option(path, FALSE, FALSE, 0), <<D("boot", <<F("a", 0, <<1>>, 1)>>)>>) :
          path \in {InRoot, InBoot, InGrub}}

(* Root records of 113 + 78 bytes and files of 97 + 19 bytes fill a block  *)
(* of 2048 bytes with 15 files and one of 117 bytes.                       *)
FullBlock == Many(15, <<15, 3>>) \o <<F("n", 0, <<16, 3>>, 1), F("o", 0, <<1>>, 1)>>

MCFullBlock == {Job(Option(<<>>, FALSE, FALSE, 0), FullBlock)}
=============================================================================
