------------------------------ MODULE IsoImage ------------------------------
(***************************************************************************)
(* create_iso (disk_image_generator/src/iso/mod.rs): the tree is built, a  *)
(* place is reserved for every directory and file from estimated sizes,    *)
(* and only then is everything written, each part by seeking to its place. *)
(* Nothing ties the two passes together but that they count alike.  The    *)
(* image is the set of pairs of a block and what was written into it; a    *)
(* directory's extent also keeps its records.                              *)
(***************************************************************************)
EXTENDS IsoTree, FiniteSets

CONSTANT Jobs   (* the options and inputs create_iso may be given          *)

VARIABLES
  job,          (* [inputs, eltorito_boot, boot_info_table, grub2_boot_info, embedded_boot] *)
  tree,         (* the root, with its directories and files                *)
  pc, todo,     (* step of create_iso; the directories still to be visited *)
  current_lba, last_index, last_lba,
  lba, path_table_index, parent_index,  (* of the directories, by path     *)
  file_lba,     (* of the files, by path and number                        *)
  pos,          (* position in the output file                             *)
  frames,       (* the calls of write_extent under way                     *)
  written,      (* pairs of a block and its owner                          *)
  records,      (* records written into each directory's extent            *)
  tables,       (* the path tables                                         *)
  boot          (* LBAs in the boot record and in the boot catalog         *)

vars == <<job, tree, pc, todo, current_lba, last_index, last_lba, lba, path_table_index,
          parent_index, file_lba, pos, frames, written, records, tables, boot>>

Root == <<>>

NoLba == 0

CatalogName == [id |-> "boot.catalog", no |-> 0, parts |-> <<4, 7>>]

Panic == pc' = "panicked"

Dir(path) == At(tree, path)

Children(path) == [k \in 1..Len(Dir(path).dirs) |-> Append(path, k)]

(* No boot image is named: its path is empty.                              *)
NoBoot == job.eltorito_boot = <<>>

generate_volume_descriptors ==
  IF ~NoBoot THEN <<"Primary", "Boot", "End">> ELSE <<"Primary", "End">>

SystemArea == 16   (* blocks                                               *)

path_table_start_lba == SystemArea + 1 + Len(generate_volume_descriptors)

-----------------------------------------------------------------------------
(* The first pass: the tree and a place for everything in it.              *)
Init ==
  /\ job \in Jobs
  /\ tree = [name |-> CatalogName, dirs |-> <<>>, files |-> <<>>]
  /\ pc = "build" /\ todo = <<>>
  /\ current_lba = 0 /\ last_index = 0 /\ last_lba = 0
  /\ lba = <<>> /\ path_table_index = <<>> /\ parent_index = <<>> /\ file_lba = <<>>
  /\ pos = 0 /\ frames = <<>> /\ written = {} /\ records = <<>> /\ tables = <<>>
  /\ boot = [record |-> NoLba, catalog |-> NoLba]

create_boot_catalog(dir) ==
  [dir EXCEPT !.files = Append(@, [name |-> CatalogName, size |-> 0])]

(* The beginning of create_iso.                                            *)
build ==
  /\ pc = "build"
  /\ LET empty == IF ~NoBoot THEN create_boot_catalog(tree) ELSE tree
         new   == set_path_files(empty, job.inputs)
         paths == PathsBelow(new, Root) IN
     /\ tree' = new
     /\ lba' = [p \in paths |-> NoLba]
     /\ path_table_index' = [p \in paths |-> 0]
     /\ parent_index' = [p \in paths |-> 0]
     /\ file_lba' = [p \in paths |-> [k \in 1..Len(At(new, p).files) |-> NoLba]]
     /\ records' = [p \in paths |-> <<>>]
  /\ current_lba' = path_table_start_lba + 4
  /\ last_lba' = current_lba'
  /\ pc' = "assign" /\ todo' = <<Root>>
  /\ UNCHANGED <<job, last_index, pos, frames, written, tables, boot>>

(* The block of the root's continuation area is reserved before the root.  *)
Continuation(path) == IF path = Root THEN 1 ELSE 0

ChildIndex(last, child) == last + Last(child)

(* One call of assign_directory_identifiers; its calls for the children    *)
(* follow before those of its siblings.                                    *)
assign_directory_identifiers ==
  /\ pc = "assign" /\ todo # <<>>
  /\ LET p     == Head(todo)
         index == IF last_index = 0 THEN 1 ELSE path_table_index[p]
         last  == IF last_index = 0 THEN 1 ELSE last_index
         place == last_lba + Continuation(p) IN
     IF ~NamesFit(Dir(p))
     THEN Panic /\ UNCHANGED <<todo, lba, path_table_index, parent_index, last_index, last_lba>>
     ELSE
       /\ lba' = IF last_index = 0 THEN lba ELSE [lba EXCEPT ![p] = place]
       /\ last_lba' = place + get_extent_size_in_lb(Dir(p))
       /\ path_table_index' =
            [q \in DOMAIN lba |->
               IF q = p THEN index
               ELSE IF q \in Range(Children(p)) THEN ChildIndex(last, q)
               ELSE path_table_index[q]]
       /\ parent_index' = [q \in DOMAIN lba |->
                             IF q \in Range(Children(p)) THEN index ELSE parent_index[q]]
       /\ last_index' = last + Len(Dir(p).dirs)
       /\ todo' = Children(p) \o Tail(todo)
       /\ pc' = pc
  /\ UNCHANGED <<job, tree, current_lba, file_lba, pos, frames, written, records, tables, boot>>

(* The root's own place is the one before everything assigned.             *)
assign_root ==
  /\ pc = "assign" /\ todo = <<>>
  /\ parent_index' = [parent_index EXCEPT ![Root] = 1]
  /\ lba' = [lba EXCEPT ![Root] = current_lba]
  /\ current_lba' = last_lba
  /\ pc' = "reserve" /\ todo' = <<Root>>
  /\ UNCHANGED <<job, tree, last_index, last_lba, path_table_index, file_lba, pos, frames,
                 written, records, tables, boot>>

(* Mutant: a file of whole blocks gets one block too few.                  *)
FileBlocks_short(size) == size \div LOGIC_SIZE

FileBlocks(size) == (size + LOGIC_SIZE) \div LOGIC_SIZE

(* One call of reserve_file_space.                                         *)
reserve_file_space ==
  /\ pc = "reserve" /\ todo # <<>>
  /\ LET p     == Head(todo)
         files == Dir(p).files
         Upto(k) == AddLengths([n \in 1..k |-> FileBlocks(files[n].size)]) IN
     /\ file_lba' = [file_lba EXCEPT ![p] =
                       [k \in 1..Len(files) |-> current_lba + Upto(k - 1)]]
     /\ current_lba' = current_lba + Upto(Len(files))
     /\ todo' = Children(p) \o Tail(todo)
  /\ UNCHANGED <<job, tree, pc, last_index, last_lba, lba, path_table_index, parent_index, pos,
                 frames, written, records, tables, boot>>

-----------------------------------------------------------------------------
Named(entries, name) == {k \in 1..Len(entries) : entries[k].name = name}

(* No directory has the number 0.                                          *)
Nowhere == <<0>>

(* One step down a path: the first child of that name, if there is one.    *)
get_directory(path, name) ==
  IF path = Nowhere \/ Named(Dir(path).dirs, name) = {} THEN Nowhere
  ELSE Append(path, Min(Named(Dir(path).dirs, name)))

NoFile == [dir |-> Nowhere, no |-> 0]

(* The file a path of names leads to: its directory and its number there,  *)
(* the first of that name.                                                 *)
get_file(names) ==
  LET dir == FoldLeft(get_directory, Root, Front(names)) IN
  IF dir = Nowhere \/ Named(Dir(dir).files, Last(names)) = {} THEN NoFile
  ELSE [dir |-> dir, no |-> Min(Named(Dir(dir).files, Last(names)))]

boot_catalog == get_file(<<CatalogName>>)

LbaOf(file) == file_lba[file.dir][file.no]

(* FileEntry::update of the file with number no in the directory at path.  *)
RECURSIVE Resized(_, _, _, _)
Resized(dir, path, no, size) ==
  IF path = <<>> THEN [dir EXCEPT !.files[no].size = size]
  ELSE [dir EXCEPT !.dirs[Head(path)] = Resized(@, Tail(path), no, size)]

CatalogSize == 64

(* The catalog gets its contents, and its size, after its reservation.     *)
fill_boot_catalog ==
  /\ pc = "reserve" /\ todo = <<>>
  /\ \/ NoBoot /\ pc' = "patch" /\ UNCHANGED <<tree, boot>>
     \/ ~NoBoot /\ get_file(job.eltorito_boot) = NoFile /\ Panic /\ UNCHANGED <<tree, boot>>
     \/ /\ ~NoBoot /\ get_file(job.eltorito_boot) # NoFile
        /\ tree' = Resized(tree, boot_catalog.dir, boot_catalog.no, CatalogSize)
        /\ boot' = [boot EXCEPT !.catalog = LbaOf(get_file(job.eltorito_boot))]
        /\ pc' = "patch"
  /\ UNCHANGED <<job, todo, current_lba, last_index, last_lba, lba, path_table_index,
                 parent_index, file_lba, pos, frames, written, records, tables>>

(* Where the last patched byte of the boot image lies: 16 bytes at 0x8 and *)
(* 8 bytes at 0x9f4; a shorter image becomes that long.                    *)
Patches == (IF job.boot_info_table THEN {8 + 16} ELSE {})
           \cup (IF job.grub2_boot_info THEN {2548 + 8} ELSE {})

patch_boot_image ==
  /\ pc = "patch"
  /\ \/ Patches = {} /\ pc' = "system_area" /\ UNCHANGED tree
     \/ Patches # {} /\ NoBoot /\ Panic /\ UNCHANGED tree
     \/ /\ Patches # {} /\ ~NoBoot
        /\ LET file == get_file(job.eltorito_boot)
               size == Dir(file.dir).files[file.no].size IN
           tree' = Resized(tree, file.dir, file.no, Max({size} \cup Patches))
        /\ pc' = "system_area"
  /\ UNCHANGED <<job, todo, current_lba, last_index, last_lba, lba, path_table_index,
                 parent_index, file_lba, pos, frames, written, records, tables, boot>>

-----------------------------------------------------------------------------
(* The second pass: everything is written to its place.                    *)
Layout == <<job, current_lba, last_index, last_lba, lba, path_table_index, parent_index, file_lba>>

(* The blocks that hold the bytes from one position up to another.         *)
Blocks(from, end) == (from \div LOGIC_SIZE)..((align_up(end) \div LOGIC_SIZE) - 1)

(* What a block was written for: a part of the image, a directory's        *)
(* extent or a file.                                                       *)
Part(what) == [is |-> what, dir |-> Root, no |-> 0]

Extent(path) == [is |-> "dir", dir |-> path, no |-> 0]

Content(path, k) == [is |-> "file", dir |-> path, no |-> k]

Put(owner, from, end) == written \cup {<<b, owner>> : b \in Blocks(from, end)}

(* A boot sector of more than 16 blocks is refused; shorter is padded.     *)
write_system_area ==
  /\ pc = "system_area"
  /\ IF job.embedded_boot > SystemArea * LOGIC_SIZE
     THEN pc' = "refused" /\ UNCHANGED <<pos, written, todo>>
     ELSE /\ pos' = SystemArea * LOGIC_SIZE
          /\ written' = Put(Part("system area"), 0, pos')
          /\ pc' = "volumes" /\ todo' = generate_volume_descriptors
  /\ UNCHANGED <<Layout, tree, frames, records, tables, boot>>

(* One descriptor; the boot record holds the place of the catalog.         *)
write_volume ==
  /\ pc = "volumes" /\ todo # <<>>
  /\ pos' = pos + LOGIC_SIZE
  /\ written' = Put(Part(Head(todo)), pos, pos')
  /\ boot' = IF Head(todo) = "Boot"
             THEN [boot EXCEPT !.record = LbaOf(boot_catalog)] ELSE boot
  /\ todo' = Tail(todo)
  /\ UNCHANGED <<Layout, tree, pc, frames, records, tables>>

(* The block behind the descriptors.                                       *)
write_mki ==
  /\ pc = "volumes" /\ todo = <<>>
  /\ pos' = pos + LOGIC_SIZE
  /\ written' = Put(Part("MKI"), pos, pos')
  /\ pc' = "path_table" /\ todo' = <<path_table_start_lba, path_table_start_lba + 2>>
  /\ UNCHANGED <<Layout, tree, frames, records, tables, boot>>

(* Mutant: each child's children follow it at once.                        *)
RECURSIVE write_path_table_childs_depth_first(_)
write_path_table_childs_depth_first(path) ==
  FlattenSeq([k \in 1..Len(Children(path)) |->
                <<Children(path)[k]>> \o write_path_table_childs_depth_first(Children(path)[k])])

(* The directories below one, in the order of the path table: all its      *)
(* children, then what is below the first, and so on.                      *)
RECURSIVE write_path_table_childs(_)
write_path_table_childs(path) ==
  Children(path)
  \o FlattenSeq([k \in 1..Len(Children(path)) |-> write_path_table_childs(Children(path)[k])])

PathEntryWritten(path) ==
  LET len == IF path = Root THEN 1 ELSE convert_name(Dir(path).name) IN
  8 + len + (len % 2)

(* One of the two tables; the position is restored afterwards.             *)
write_path_table ==
  /\ pc = "path_table" /\ todo # <<>>
  /\ LET dirs == <<Root>> \o write_path_table_childs(Root)
         size == AddLengths([k \in 1..Len(dirs) |-> PathEntryWritten(dirs[k])])
         from == Head(todo) * LOGIC_SIZE IN
     /\ tables' = Append(tables, [k \in 1..Len(dirs) |->
                    [dir |-> dirs[k], lba |-> lba[dirs[k]], parent |-> parent_index[dirs[k]]]])
     /\ written' = Put([Part("path table") EXCEPT !.no = Head(todo)], from, from + size)
     /\ IF size = get_path_table_size(tree, TRUE) THEN pc' = pc ELSE Panic
     /\ todo' = Tail(todo)
  /\ UNCHANGED <<Layout, tree, pos, frames, records, boot>>

-----------------------------------------------------------------------------
(* Where a record goes: padded to the next block if it does not fit.       *)
Place(position, size) ==
  LET left == align_up(position) - position IN
  IF size > left /\ left # 0 THEN position + left ELSE position

Record(what, at, size, place, len) ==
  [what |-> what, at |-> at, size |-> size, lba |-> place, len |-> len]

ExtentLen(dir) == get_extent_size_in_lb(dir) * LOGIC_SIZE

(* A dummy directory is the root's parent.                                 *)
Dummy == [name |-> [id |-> "dummy", no |-> 0, parts |-> <<5>>], dirs |-> <<>>, files |-> <<>>]

(* write_extent up to its loops: "." and "..".                             *)
Opened(path) ==
  LET type   == IF path = Root THEN 3 ELSE 1
      parent == IF path = Root THEN Dummy ELSE Dir(Front(path))
      up     == IF path = Root THEN lba[Root] ELSE lba[Front(path)]
      first  == lba[path] * LOGIC_SIZE
      second == Place(first + DirEntrySize(Dir(path), type), DirEntrySize(parent, 2)) IN
  [records |-> <<Record(<<"self", 0>>, first, DirEntrySize(Dir(path), type), lba[path], ExtentLen(Dir(path))),
                 Record(<<"up", 0>>, second, DirEntrySize(parent, 2), up, ExtentLen(parent))>>,
   exact   |-> /\ DirBytesWritten(Dir(path), type) = DirEntrySize(Dir(path), type)
               /\ DirBytesWritten(parent, 2) = DirEntrySize(parent, 2)]

EndOf(record) == record.at + record.size

BlockOf(record) == record.at \div LOGIC_SIZE

Open(path) == [dir |-> path, next |-> 1, pos |-> EndOf(Last(Opened(path).records))]

Used(path, new) == {<<BlockOf(new[k]), Extent(path)>> : k \in 1..Len(new)}

start_extents ==
  /\ pc = "path_table" /\ todo = <<>>
  /\ records' = [records EXCEPT ![Root] = Opened(Root).records]
  /\ written' = written \cup Used(Root, Opened(Root).records)
  /\ frames' = <<Open(Root)>>
  /\ IF Opened(Root).exact THEN pc' = "extents" ELSE Panic
  /\ UNCHANGED <<Layout, tree, todo, pos, tables, boot>>

InDirs(frame) == frame.next <= Len(Dir(frame.dir).dirs)

(* A child's record, and then the child's own extent before the next one.  *)
write_one ==
  /\ pc = "extents" /\ frames # <<>> /\ InDirs(Head(frames))
  /\ LET f     == Head(frames)
         child == Append(f.dir, f.next)
         size  == DirEntrySize(Dir(child), 0)
         new   == Record(<<"dir", f.next>>, Place(f.pos, size), size, lba[child], ExtentLen(Dir(child))) IN
     /\ records' = [records EXCEPT ![f.dir] = Append(@, new), ![child] = Opened(child).records]
     /\ written' = written \cup Used(f.dir, <<new>>) \cup Used(child, Opened(child).records)
     /\ frames' = <<Open(child), [f EXCEPT !.next = @ + 1, !.pos = EndOf(new)]>> \o Tail(frames)
     /\ IF DirBytesWritten(Dir(child), 0) = size /\ Opened(child).exact /\ NMFits(Dir(child))
        THEN pc' = pc ELSE Panic
  /\ UNCHANGED <<Layout, tree, todo, pos, tables, boot>>

FileNo(frame) == frame.next - Len(Dir(frame.dir).dirs)

write_entry ==
  /\ pc = "extents" /\ frames # <<>> /\ ~InDirs(Head(frames))
  /\ LET f    == Head(frames)
         file == Dir(f.dir).files[FileNo(f)]
         size == FileEntrySize(file)
         new  == Record(<<"file", FileNo(f)>>, Place(f.pos, size), size,
                        file_lba[f.dir][FileNo(f)], file.size) IN
     /\ FileNo(f) <= Len(Dir(f.dir).files)
     /\ records' = [records EXCEPT ![f.dir] = Append(@, new)]
     /\ written' = written \cup Used(f.dir, <<new>>)
     /\ frames' = <<[f EXCEPT !.next = @ + 1, !.pos = EndOf(new)]>> \o Tail(frames)
     /\ IF FileBytesWritten(file) = size /\ NMFits(file) THEN pc' = pc ELSE Panic
  /\ UNCHANGED <<Layout, tree, todo, pos, tables, boot>>

ContinuationBlock == lba[Root] + get_extent_size_in_lb(tree)

(* The end of write_extent: padding, and the root's continuation area.     *)
close_extent ==
  /\ pc = "extents" /\ frames # <<>>
  /\ FileNo(Head(frames)) = Len(Dir(Head(frames).dir).files) + 1
  /\ written' = IF Head(frames).dir = Root
                THEN written \cup {<<ContinuationBlock, Part("continuation")>>} ELSE written
  /\ frames' = Tail(frames)
  /\ UNCHANGED <<Layout, tree, pc, todo, pos, records, tables, boot>>

(* write_files: the files below the children come before one's own.        *)
RECURSIVE FilesBelow(_)
FilesBelow(path) ==
  FlattenSeq([k \in 1..Len(Children(path)) |-> FilesBelow(Children(path)[k])])
  \o [k \in 1..Len(Dir(path).files) |-> <<path, k>>]

start_files ==
  /\ pc = "extents" /\ frames = <<>>
  /\ pc' = "files" /\ todo' = FilesBelow(Root)
  /\ UNCHANGED <<Layout, tree, pos, frames, written, records, tables, boot>>

write_content ==
  /\ pc = "files" /\ todo # <<>>
  /\ LET path == Head(todo)[1]
         k    == Head(todo)[2]
         from == file_lba[path][k] * LOGIC_SIZE IN
     written' = Put(Content(path, k), from, from + Dir(path).files[k].size)
  /\ todo' = Tail(todo)
  /\ UNCHANGED <<Layout, tree, pc, pos, frames, records, tables, boot>>

(* 128 empty blocks behind everything.                                     *)
Tail128 == 128

LastBlock == Max({b[1] : b \in written})

write_tail ==
  /\ pc = "files" /\ todo = <<>>
  /\ written' = Put(Part("tail"), (LastBlock + 1) * LOGIC_SIZE, (LastBlock + 1 + Tail128) * LOGIC_SIZE)
  /\ pc' = "done"
  /\ UNCHANGED <<Layout, tree, todo, pos, frames, records, tables, boot>>

finished == pc \in {"done", "refused", "panicked"} /\ UNCHANGED vars

Next ==
  \/ build \/ assign_directory_identifiers \/ assign_root \/ reserve_file_space
  \/ fill_boot_catalog \/ patch_boot_image
  \/ write_system_area \/ write_volume \/ write_mki \/ write_path_table
  \/ start_extents \/ write_one \/ write_entry \/ close_extent
  \/ start_files \/ write_content \/ write_tail \/ finished

Spec == Init /\ [][Next]_vars

-----------------------------------------------------------------------------
(* No block is written for two purposes: the places reserved in the first  *)
(* pass from estimated sizes are those that the second pass fills          *)
(* (get_extent_size_in_lb and reserve_file_space against write_extent,     *)
(* write_continuation_area, write_path_table and write_content).           *)
OneOwnerPerBlock ==
  \A a, b \in written : a[1] = b[1] => a[2] = b[2]

(* What a reader of the image finds in a directory: it goes from record to *)
(* record by the length byte (a u8), to the next block at a zero byte,     *)
(* within the extent that the directory's own record announces.            *)
RECURSIVE Walk(_, _)
Walk(path, position) ==
  LET here == {k \in 1..Len(records[path]) : records[path][k].at = position}
      end  == lba[path] * LOGIC_SIZE + ExtentLen(Dir(path)) IN
  IF position >= end THEN <<>>
  ELSE IF here = {} THEN Walk(path, align_up(position + 1))
  ELSE LET r == records[path][CHOOSE k \in here : TRUE] IN
       IF r.size % 256 = 0 THEN <<r>> ELSE <<r>> \o Walk(path, position + (r.size % 256))

(* When the image is complete, a reader that walks a directory's extent    *)
(* finds every record that was written into it, in order, and each leads   *)
(* to the first block of what it names, of the length it names             *)
(* (write_entry of both kinds, write_extent).                              *)
DirectoriesReadBack ==
  pc = "done" => \A path \in DOMAIN lba :
    /\ Walk(path, lba[path] * LOGIC_SIZE) = records[path]
    /\ \A r \in Range(records[path]) :
         /\ r.what[1] = "dir" =>
              records[Append(path, r.what[2])][1].at = r.lba * LOGIC_SIZE
         /\ r.what[1] = "file" =>
              /\ r.len = Dir(path).files[r.what[2]].size
              /\ \A b \in Blocks(r.lba * LOGIC_SIZE, r.lba * LOGIC_SIZE + r.len) :
                   <<b, Content(path, r.what[2])>> \in written

(* The files of the inputs with the directories they are in.               *)
RECURSIVE HostFiles(_, _)
HostFiles(entry, names) ==
  IF entry.is_dir
  THEN UNION {HostFiles(entry.entries[k], Append(names, entry.name)) : k \in 1..Len(entry.entries)}
  ELSE {<<names, entry.name>>}

NamesOf(path) == [k \in 1..Len(path) |-> Dir(SubSeq(path, 1, k)).name]

(* No file of the inputs is lost on the way into the tree, and each is in  *)
(* the directory it was in, whether that was merged with another of its    *)
(* name or not (set_path_files, add_and_merge_childs_directories).         *)
NoFileLost ==
  pc # "build" => \A k \in 1..Len(job.inputs) : \A f \in HostFiles(job.inputs[k], <<>>) :
    \E p \in DOMAIN lba :
      /\ NamesOf(p) = f[1]
      /\ \E n \in 1..Len(Dir(p).files) : Dir(p).files[n].name = f[2]

(* In both path tables the parent number of an entry is the place of its   *)
(* parent in the table: the numbers are given out in the first pass in the *)
(* order in which the entries are written in the second                    *)
(* (assign_directory_identifiers, write_path_table_childs).                *)
PathTableParents ==
  \A t \in Range(tables) : \A k \in 1..Len(t) :
    /\ path_table_index[t[k].dir] = k
    /\ t[k].dir = Root => t[k].parent = 1
    /\ t[k].dir # Root => t[t[k].parent].dir = Front(t[k].dir)

(* The assertions of write_entry and write_path_table hold: what is        *)
(* written has the size it was reserved with.  The only panics left are    *)
(* those for a name that is too long (of 251 characters: too long for the  *)
(* length of its own field) and for a boot image that is not there.        *)
AssertionsHold ==
  pc = "panicked" =>
    \/ \E p \in DOMAIN lba :
         \/ ~NamesFit(Dir(p))
         \/ \E entry \in Range(Dir(p).dirs) \cup Range(Dir(p).files) : ~NMFits(entry)
    \/ NoBoot /\ Patches # {}
    \/ ~NoBoot /\ get_file(job.eltorito_boot) = NoFile

(* "The 'CE' logical block is just after the root directory entries"       *)
(* (directory_entry.rs 123): no record of the root lies in it or behind it.*)
ContinuationAfterEntries ==
  pc = "done" => \A r \in Range(records[Root]) : BlockOf(r) < ContinuationBlock
=============================================================================
