------------------------------ MODULE IsoTree -------------------------------
(***************************************************************************)
(* The directory tree of the ISO image and the sizes of what is written of *)
(* it (disk_image_generator/src/iso: directory_entry.rs, file_entry.rs,    *)
(* utils.rs).  A name is the sequence of the lengths of its parts between  *)
(* the dots, with an identity and a number; a directory's entries come in  *)
(* path order, as set_path sorts them.                                     *)
(***************************************************************************)
EXTENDS Integers, Sequences, SequencesExt

CONSTANT LOGIC_SIZE   (* bytes of a logical block, 0x800                   *)

ASSUME LogicSizeAssumption == LOGIC_SIZE \in Nat \ {0}

AddLengths(seq) == FoldLeft(LAMBDA a, b : a + b, 0, seq)

AtMost(n, bound) == IF n > bound THEN bound ELSE n

align_up(value) == ((value + LOGIC_SIZE - 1) \div LOGIC_SIZE) * LOGIC_SIZE

NameLen(name) == AddLengths(name.parts) + Len(name.parts) - 1

(* The length of the 8.3 identifier; only the first two parts count.       *)
convert_name(name) ==
  LET extension == IF Len(name.parts) > 1 THEN AtMost(name.parts[2], 3) ELSE 0 IN
  AtMost(name.parts[1], 8) + (IF extension # 0 THEN 1 + extension ELSE 0)

(* Kinds of record: 0 by name, 1 "." and 2 "..", 3 "." of the root, 5 the  *)
(* root in the volume descriptor and in the path table, 6 a path table's.  *)
IdentifierLen(name, directory_type) ==
  IF directory_type \in {1, 2, 3, 5} THEN 1 ELSE convert_name(name)

PX == 44          (* Rock Ridge attributes                                 *)
SP == 7           (* SUSP indicator                                        *)
CE == 28          (* SUSP pointer to the continuation area                 *)
NM(name) == 5 + NameLen(name)

(* get_entry_size panics for a longer name.                                *)
MaxName == 251

(* Mutant: the padding has the wrong parity.                               *)
get_entry_size_parity(base_size, name, directory_type, padding_type) ==
  LET len == IdentifierLen(name, directory_type) IN
  base_size + len + (IF len % 2 = padding_type THEN 1 ELSE 0)
  + (IF directory_type < 5 THEN PX ELSE 0)
  + (IF directory_type = 0 THEN NM(name) ELSE 0)
  + (IF directory_type = 3 THEN SP + CE ELSE 0)

get_entry_size(base_size, name, directory_type, padding_type) ==
  LET len == IdentifierLen(name, directory_type) IN
  base_size + len + (IF len % 2 # padding_type THEN 1 ELSE 0)
  + (IF directory_type < 5 THEN PX ELSE 0)
  + (IF directory_type = 0 THEN NM(name) ELSE 0)
  + (IF directory_type = 3 THEN SP + CE ELSE 0)

RecordBase == 33      (* 0x21: a directory record without its identifier   *)
Version == 2          (* ";1" behind a file's identifier                   *)

DirEntrySize(dir, directory_type) ==
  get_entry_size(RecordBase, dir.name, directory_type, 1)

FileEntrySize(file) == get_entry_size(RecordBase + Version, file.name, 0, 1)

(* What the two write_entry functions write, byte for byte.                *)
DirBytesWritten(dir, directory_type) ==
  LET len == IdentifierLen(dir.name, directory_type) IN
  RecordBase + len + (IF len % 2 = 0 THEN 1 ELSE 0)
  + (IF directory_type = 3 THEN SP + CE ELSE 0)
  + (IF directory_type < 5 THEN PX ELSE 0)
  + (IF directory_type = 0 THEN NM(dir.name) ELSE 0)

FileBytesWritten(file) ==
  LET len == convert_name(file.name) + Version IN
  RecordBase + len + (IF len % 2 = 0 THEN 1 ELSE 0) + PX + NM(file.name)

-----------------------------------------------------------------------------
(* One entry more in the estimate of an extent.                            *)
AddEntry(sum, entry_size) ==
  LET available == align_up(sum.size) - sum.size IN
  IF entry_size > available /\ available # 0
  THEN [res |-> sum.res + 1, size |-> entry_size]
  ELSE [sum EXCEPT !.size = @ + entry_size]

EntrySizes(dir) ==
  [k \in 1..Len(dir.dirs) |-> DirEntrySize(dir.dirs[k], 0)]
  \o [k \in 1..Len(dir.files) |-> FileEntrySize(dir.files[k])]

Estimate(dir) == [res |-> 1, size |-> DirEntrySize(dir, 3) + DirEntrySize(dir, 2)]

(* Mutant: the files are left out of the estimate.                         *)
get_extent_size_in_lb_dirs(dir) ==
  FoldLeft(AddEntry, Estimate(dir),
           [k \in 1..Len(dir.dirs) |-> DirEntrySize(dir.dirs[k], 0)]).res

(* Blocks a directory's records need.                                      *)
get_extent_size_in_lb(dir) == FoldLeft(AddEntry, Estimate(dir), EntrySizes(dir)).res

(* The records up to some entry, and some more after it, end exactly at    *)
(* the end of a block, which AddEntry does not count as a full one.        *)
FillsABlock(dir) ==
  \E k \in 0..(Len(EntrySizes(dir)) - 1) :
    LET sum == FoldLeft(AddEntry, Estimate(dir), SubSeq(EntrySizes(dir), 1, k)) IN
    sum.size % LOGIC_SIZE = 0

PathEntrySize(dir, root) == get_entry_size(8, dir.name, IF root THEN 5 ELSE 6, 0)

RECURSIVE get_path_table_size(_, _)
get_path_table_size(dir, root) ==
  PathEntrySize(dir, root)
  + AddLengths([k \in 1..Len(dir.dirs) |-> get_path_table_size(dir.dirs[k], FALSE)])

-----------------------------------------------------------------------------
(* Building the tree from the inputs, directories of one name are merged.  *)
NewFile(entry) == [name |-> entry.name, size |-> entry.size]

Same(dirs, dir) == {k \in 1..Len(dirs) : dirs[k].name = dir.name}

(* Mutant: the files of a merged directory are replaced.                   *)
RECURSIVE add_and_merge_replacing(_, _)
add_and_merge_replacing(dirs, other) ==
  IF Same(dirs, other) = {} THEN Append(dirs, other)
  ELSE LET last == CHOOSE k \in Same(dirs, other) : \A j \in Same(dirs, other) : j <= k IN
       [dirs EXCEPT ![last] =
          [@ EXCEPT !.files = other.files,
                    !.dirs = FoldLeft(add_and_merge_replacing, @, other.dirs)]]

RECURSIVE add_and_merge_childs_directories(_, _)
add_and_merge_childs_directories(dirs, other) ==
  IF Same(dirs, other) = {} THEN Append(dirs, other)
  ELSE LET last == CHOOSE k \in Same(dirs, other) : \A j \in Same(dirs, other) : j <= k IN
       [dirs EXCEPT ![last] =
          [@ EXCEPT !.files = @ \o other.files,
                    !.dirs = FoldLeft(add_and_merge_childs_directories, @, other.dirs)]]

IsDir(entry) == entry.is_dir

IsFile(entry) == ~entry.is_dir

RECURSIVE set_path(_)
set_path(entry) ==
  LET dirs  == SelectSeq(entry.entries, IsDir)
      files == SelectSeq(entry.entries, IsFile) IN
  [name  |-> entry.name,
   dirs  |-> FoldLeft(add_and_merge_childs_directories, <<>>,
                      [k \in 1..Len(dirs) |-> set_path(dirs[k])]),
   files |-> [k \in 1..Len(files) |-> NewFile(files[k])]]

(* The root takes the inputs as its children and the first one's name; the *)
(* boot catalog is already among its files.                                *)
set_path_files(tree, inputs) ==
  LET new == set_path([name |-> inputs[1].name, is_dir |-> TRUE, entries |-> inputs]) IN
  [name |-> new.name, dirs |-> tree.dirs \o new.dirs, files |-> tree.files \o new.files]

(* The directory a path of child numbers leads to.                         *)
At(tree, path) == FoldLeft(LAMBDA dir, k : dir.dirs[k], tree, path)

(* All directories of the tree below a path.                               *)
RECURSIVE PathsBelow(_, _)
PathsBelow(tree, path) ==
  {path} \cup UNION {PathsBelow(tree, Append(path, k)) : k \in 1..Len(At(tree, path).dirs)}

NamesFit(dir) ==
  \A entry \in Range(dir.dirs) \cup Range(dir.files) : NameLen(entry.name) <= MaxName

(* The length of the name's own field is a u8 whose addition is checked.   *)
NMFits(entry) == NM(entry.name) <= 255
=============================================================================
