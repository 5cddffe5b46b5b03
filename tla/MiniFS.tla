------------------------------- MODULE MiniFS -------------------------------
(***************************************************************************)
(* MiniFS v2 on its disk (os/kernel/minifs.c): bitmaps, inodes with direct *)
(* and indirect blocks, directories, paths, and the system calls that      *)
(* change them, down to the order of the sector writes, any of which may   *)
(* be the last one before the machine is switched off.                     *)
(*                                                                         *)
(* A sector of data is a function from its slots to words.  A word is a    *)
(* directory entry, a block number of an indirect block, or file data,     *)
(* which is marked with the inode it was written to; sizes and offsets     *)
(* count slots.  A helper takes the trace of the disks after each write so *)
(* far (the last one is the current disk) and returns it extended.         *)
(* bitmap_buffer is not kept apart: each change of it is written at once.  *)
(* Descriptor tables are those of module Fds: a task has one descriptor.   *)
(***************************************************************************)
EXTENDS Integers, Sequences, SequencesExt, FiniteSetsExt

CONSTANTS MaxInodes,     \* MINIFS_MAX_INODES
          Blocks,        \* sectors of the data area
          DirectBlocks,  \* MINIFS_DIRECT_BLOCKS
          BlockSlots,    \* slots of a sector: 8 entries or 128 block numbers
          MaxFileSize,   \* MINIFS_MAX_FILE_SIZE
          Names, Tasks,
          PathLength,    \* bound on the components of a path
          OpenFlags,     \* subset of the flags open is called with
          UnlinkCwd      \* do programs remove directories some task is in?

ASSUME MiniFSAssumption ==
  /\ MaxInodes \in Nat \ {0} /\ Blocks \subseteq Nat \ {0}
  /\ DirectBlocks \in Nat \ {0} /\ BlockSlots \in Nat \ {0} /\ MaxFileSize \in Nat
  /\ MaxFileSize <= (DirectBlocks + BlockSlots) * BlockSlots
  /\ UnlinkCwd \in BOOLEAN

VARIABLES disk,  \* [ibm, dbm : sets of allocated inodes and blocks, inode, block]
          cwd,   \* cwd_inode of each task
          file   \* the open file of each task

vars == <<disk, cwd, file>>

Root == 0
Inodes == 0 .. MaxInodes - 1
BlockIndex == 0 .. BlockSlots - 1
MaxSlots == (DirectBlocks + BlockSlots) * BlockSlots
None == -1                              \* the error result
Zero == [word |-> "zero"]
Deleted == [word |-> "deleted"]         \* an entry whose inode is 0xffffffff
Entry(n, m, name) == [word |-> "entry", inode |-> n, mode |-> m, name |-> name]
Pointer(b) == [word |-> "block", block |-> b]
Data(n) == [word |-> "data", inode |-> n]
ZeroBlock == [i \in BlockIndex |-> Zero]
NewInode_NoParent(m, p) ==              \* mutant: parent is left zero
  [mode |-> m, size |-> 0, parent |-> Root, direct |-> [i \in 0 .. DirectBlocks - 1 |-> 0], indirect |-> 0]
NewInode(m, p) ==
  [mode |-> m, size |-> 0, parent |-> p, direct |-> [i \in 0 .. DirectBlocks - 1 |-> 0], indirect |-> 0]
NoFile == [inode |-> None, offset |-> 0, flags |-> {}]

(* The image made by mkfs, without files *)
Init ==
  /\ disk = [ibm |-> {Root}, dbm |-> {},
             inode |-> [n \in Inodes |-> IF n = Root THEN NewInode("dir", Root) ELSE NewInode("free", 0)],
             block |-> [b \in Blocks |-> ZeroBlock]]
  /\ cwd = [t \in Tasks |-> Root]
  /\ file = [t \in Tasks |-> NoFile]

-----------------------------------------------------------------------------
(* Inodes and blocks.  d is a disk, tr a trace, i an inode's contents. *)

WriteInode_Neighbour(tr, n, i) ==       \* mutant: a file next in the sector loses its size
  LET m == (n + 1) % MaxInodes
      lost == Last(tr).inode[m].mode = "file"
  IN Append(tr, [Last(tr) EXCEPT !.inode[n] = i, !.inode[m].size = IF lost THEN 0 ELSE @])
WriteInode(tr, n, i) == Append(tr, [Last(tr) EXCEPT !.inode[n] = i])
WriteBlock(tr, b, w) == Append(tr, [Last(tr) EXCEPT !.block[b] = w])
WriteWord(tr, b, k, w) == Append(tr, [Last(tr) EXCEPT !.block[b][k] = w])

FreeInodes(d) == (Inodes \ {Root}) \ d.ibm
FreeBlocks(d) == Blocks \ d.dbm
free_inode_number(tr, n) == Append(tr, [Last(tr) EXCEPT !.ibm = @ \ {n}])

alloc_data_block_NoMark(tr) ==          \* mutant: the bitmap is not written
  WriteBlock(tr, Min(FreeBlocks(Last(tr))), ZeroBlock)

alloc_data_block_NoZero(tr) ==          \* mutant: the block keeps its old contents
  Append(tr, [Last(tr) EXCEPT !.dbm = @ \cup {Min(FreeBlocks(Last(tr)))}])

alloc_data_block(tr) ==
  LET b == Min(FreeBlocks(Last(tr)))
  IN WriteBlock(Append(tr, [Last(tr) EXCEPT !.dbm = @ \cup {b}]), b, ZeroBlock)

(* The block of an inode at an index, 0 for none *)
inode_block(d, i, index) ==
  IF index < DirectBlocks THEN i.direct[index]
  ELSE IF i.indirect = 0 \/ index >= DirectBlocks + BlockSlots THEN 0
  ELSE LET w == d.block[i.indirect][index - DirectBlocks]
       IN IF w.word = "block" THEN w.block ELSE 0

(* ... allocated if it is missing: the trace, the inode and the block, 0   *)
(* if the disk is full, in which case an indirect block may stay.          *)
EnsureDirect(tr, i, index) ==
  IF i.direct[index] # 0 THEN [tr |-> tr, i |-> i, block |-> i.direct[index]]
  ELSE IF FreeBlocks(Last(tr)) = {} THEN [tr |-> tr, i |-> i, block |-> 0]
  ELSE LET b == Min(FreeBlocks(Last(tr)))
       IN [tr |-> alloc_data_block(tr), i |-> [i EXCEPT !.direct[index] = b], block |-> b]

EnsureIndirect(tr, i) ==
  IF i.indirect # 0 \/ FreeBlocks(Last(tr)) = {} THEN [tr |-> tr, i |-> i]
  ELSE [tr |-> alloc_data_block(tr), i |-> [i EXCEPT !.indirect = Min(FreeBlocks(Last(tr)))]]

EnsureEntry(e, index) ==                \* e is the result of EnsureIndirect
  LET old == inode_block(Last(e.tr), e.i, index)
      b == Min(FreeBlocks(Last(e.tr)))
  IN IF e.i.indirect = 0 \/ (old = 0 /\ FreeBlocks(Last(e.tr)) = {})
     THEN [tr |-> e.tr, i |-> e.i, block |-> 0]
     ELSE IF old # 0 THEN [tr |-> e.tr, i |-> e.i, block |-> old]
     ELSE [tr |-> WriteWord(alloc_data_block(e.tr), e.i.indirect, index - DirectBlocks, Pointer(b)),
           i |-> e.i, block |-> b]

ensure_inode_block(tr, i, index) ==
  IF index < DirectBlocks THEN EnsureDirect(tr, i, index)
  ELSE IF index >= DirectBlocks + BlockSlots THEN [tr |-> tr, i |-> i, block |-> 0]
  ELSE EnsureEntry(EnsureIndirect(tr, i), index)

(* The blocks of an inode, in the order truncate_inode frees them *)
BlocksOf(d, i) ==
  LET ds == [k \in 1 .. DirectBlocks |-> i.direct[k - 1]]
      es == IF i.indirect = 0 THEN <<>>
            ELSE [k \in 1 .. BlockSlots |-> inode_block(d, i, DirectBlocks + k - 1)] \o <<i.indirect>>
  IN SelectSeq(ds \o es, LAMBDA b : b # 0)

truncate_inode_NoIndirect(tr, i) ==     \* mutant: only the direct blocks are freed
  LET bs == SelectSeq([k \in 1 .. DirectBlocks |-> i.direct[k - 1]], LAMBDA b : b # 0)
  IN tr \o [k \in 1 .. Len(bs) |-> [Last(tr) EXCEPT !.dbm = @ \ {bs[j] : j \in 1 .. k}]]

truncate_inode(tr, i) ==
  LET bs == BlocksOf(Last(tr), i)
  IN tr \o [k \in 1 .. Len(bs) |-> [Last(tr) EXCEPT !.dbm = @ \ {bs[j] : j \in 1 .. k}]]

-----------------------------------------------------------------------------
(* Directories *)

IsDir(d, n) == d.inode[n].mode = "dir"
WordAt(d, i, k) == d.block[inode_block(d, i, k \div BlockSlots)][k % BlockSlots]

(* The first of the entries that is one of the wanted words, size if there *)
(* is none; the scan fails at a block that is missing.                     *)
Scan(d, n, wanted) ==
  LET i == d.inode[n]
      stops == {k \in 0 .. i.size - 1 :
                  \/ inode_block(d, i, k \div BlockSlots) = 0
                  \/ WordAt(d, i, k) \in wanted}
  IN IF stops = {} THEN i.size
     ELSE IF inode_block(d, i, Min(stops) \div BlockSlots) = 0 THEN None
     ELSE Min(stops)

Named(name) == {Entry(n, m, name) : n \in Inodes, m \in {"dir", "file"}}

dir_lookup(d, n, name) ==
  LET k == Scan(d, n, Named(name))
  IN IF ~IsDir(d, n) \/ k \in {None, d.inode[n].size} THEN None
     ELSE WordAt(d, d.inode[n], k).inode

(* The first deleted entry, or the end of the directory *)
FreeSlot(d, n) == Scan(d, n, {Deleted})

(* The entry goes to slot k, into the block that e has made sure of.       *)
EnterName(e, n, k, entry) ==
  IF e.block = 0 THEN [tr |-> e.tr, ok |-> FALSE]
  ELSE [tr |-> WriteInode(WriteWord(e.tr, e.block, k % BlockSlots, entry), n,
                          [e.i EXCEPT !.size = Max({@, k + 1})]),
        ok |-> TRUE]

dir_add_NoLookup(tr, n, name, child, mode) ==  \* mutant: the name may be there already
  LET d == Last(tr)
      k == FreeSlot(d, n)
  IN IF ~IsDir(d, n) \/ k = None THEN [tr |-> tr, ok |-> FALSE]
     ELSE EnterName(ensure_inode_block(tr, d.inode[n], k \div BlockSlots),
                    n, k, Entry(child, mode, name))

dir_add(tr, n, name, child, mode) ==
  LET d == Last(tr)
      k == FreeSlot(d, n)
  IN IF dir_lookup(d, n, name) # None \/ ~IsDir(d, n) \/ k = None THEN [tr |-> tr, ok |-> FALSE]
     ELSE EnterName(ensure_inode_block(tr, d.inode[n], k \div BlockSlots),
                    n, k, Entry(child, mode, name))

dir_remove(tr, n, name) ==
  LET d == Last(tr)
      k == Scan(d, n, Named(name))
  IN IF k \in {None, d.inode[n].size} THEN tr
     ELSE WriteWord(tr, inode_block(d, d.inode[n], k \div BlockSlots), k % BlockSlots, Deleted)

(* Every entry is marked deleted *)
IsEmpty(d, n) ==
  \A k \in 0 .. d.inode[n].size - 1 :
    /\ inode_block(d, d.inode[n], k \div BlockSlots) # 0
    /\ WordAt(d, d.inode[n], k) = Deleted

-----------------------------------------------------------------------------
(* Paths: whether it starts with a slash, and its components *)

Paths == [absolute : BOOLEAN, parts : BoundedSeq(Names \cup {".."}, PathLength)]
Start(from, p) == IF p.absolute THEN Root ELSE from

Walk(d, n, c) ==
  IF n = None THEN None
  ELSE IF c = ".." THEN d.inode[n].parent
  ELSE dir_lookup(d, n, c)

resolve(d, from, p) ==
  IF ~p.absolute /\ p.parts = <<>> THEN None      \* the empty path
  ELSE FoldLeft(LAMBDA n, c : Walk(d, n, c), Start(from, p), p.parts)

resolve_parent(d, from, p) ==
  IF p.parts = <<>> \/ Last(p.parts) = ".." THEN None
  ELSE FoldLeft(LAMBDA n, c : Walk(d, n, c), Start(from, p), Front(p.parts))

(* The end of create_node: the inode is given back if dir_add has failed.  *)
Created(r, n) ==
  IF r.ok THEN [tr |-> r.tr, inode |-> n]
  ELSE [tr |-> free_inode_number(r.tr, n), inode |-> None]

create_node_EntryFirst(tr, parent, name, mode) ==  \* mutant: the inode is written last
  LET n == Min(FreeInodes(Last(tr)))
      t1 == Append(tr, [Last(tr) EXCEPT !.ibm = @ \cup {n}])
      r == Created(dir_add(t1, parent, name, n, mode), n)
  IN IF FreeInodes(Last(tr)) = {} THEN [tr |-> tr, inode |-> None]
     ELSE IF r.inode = None THEN r
     ELSE [r EXCEPT !.tr = WriteInode(@, n, NewInode(mode, parent))]

create_node(tr, parent, name, mode) ==
  LET n == Min(FreeInodes(Last(tr)))
      t1 == Append(tr, [Last(tr) EXCEPT !.ibm = @ \cup {n}])   \* alloc_inode
      t2 == WriteInode(t1, n, NewInode(mode, parent))
  IN IF FreeInodes(Last(tr)) = {} THEN [tr |-> tr, inode |-> None]
     ELSE Created(dir_add(t2, parent, name, n, mode), n)

-----------------------------------------------------------------------------
(* System calls, as traces of the disk *)

mkdir_trace(from, p) ==
  LET parent == resolve_parent(disk, from, p)
  IN IF parent = None THEN <<disk>>
     ELSE create_node(<<disk>>, parent, Last(p.parts), "dir").tr

(* minifs_open up to alloc_ofd: the file, found or created, ...            *)
FoundOrCreated(found, parent, p, flags) ==
  IF found = None /\ "create" \in flags /\ parent # None
  THEN create_node(<<disk>>, parent, Last(p.parts), "file")
  ELSE [tr |-> <<disk>>, inode |-> found]

Creating(from, p, flags) ==
  FoundOrCreated(resolve(disk, from, p), resolve_parent(disk, from, p), p, flags)

Truncated(r, flags) ==                  \* ... and truncated
  LET i == Last(r.tr).inode[r.inode]
  IN IF r.inode = None \/ i.mode # "file" THEN [tr |-> r.tr, inode |-> None]
     ELSE IF "trunc" \notin flags THEN r
     ELSE [tr |-> WriteInode(truncate_inode(r.tr, i), r.inode, NewInode("file", i.parent)),
           inode |-> r.inode]

open_trace(from, p, flags) == Truncated(Creating(from, p, flags), flags)

inode_is_open(n) == \E t \in Tasks : file[t].inode = n

unlink_trace(from, p) ==
  LET parent == resolve_parent(disk, from, p)
      n == IF parent = None THEN None ELSE dir_lookup(disk, parent, Last(p.parts))
      t1 == WriteInode(truncate_inode(<<disk>>, disk.inode[n]), n, NewInode("free", 0))
  IN IF n \in {None, Root} \/ inode_is_open(n) THEN <<disk>>
     ELSE IF IsDir(disk, n) /\ ~IsEmpty(disk, n) THEN <<disk>>
     ELSE free_inode_number(dir_remove(t1, parent, Last(p.parts)), n)

(* write_at: block after block until the disk is full, then the inode      *)
WriteData(n, from, end, e, index) ==
  [k \in BlockIndex |-> IF index * BlockSlots + k \in from .. end - 1 THEN Data(n)
                        ELSE Last(e.tr).block[e.block][k]]

WriteChunk(n, from, to, r, e, index) ==  \* e makes sure of the block at index
  LET end == Min({(index + 1) * BlockSlots, to})
  IN IF e.block = 0 THEN [r EXCEPT !.tr = e.tr, !.i = e.i, !.full = TRUE]
     ELSE [r EXCEPT !.tr = WriteBlock(e.tr, e.block, WriteData(n, from, end, e, index)),
                    !.i = e.i, !.pos = end]

WriteChunks(n, from, to) ==
  LET first == from \div BlockSlots
      indexes == [k \in 1 .. ((to - 1) \div BlockSlots) - first + 1 |-> first + k - 1]
  IN FoldLeft(LAMBDA r, x : IF r.full THEN r
                            ELSE WriteChunk(n, from, to, r, ensure_inode_block(r.tr, r.i, x), x),
              [tr |-> <<disk>>, i |-> disk.inode[n], pos |-> from, full |-> FALSE], indexes)

Written(n, from, r) ==
  [tr |-> WriteInode(r.tr, n, [r.i EXCEPT !.size = Max({@, r.pos})]), done |-> r.pos - from]

write_at(n, from, length) ==
  IF from >= MaxFileSize \/ disk.inode[n].mode # "file" THEN [tr |-> <<disk>>, done |-> 0]
  ELSE Written(n, from, WriteChunks(n, from, Min({from + length, MaxFileSize})))

(* minifs_pread: the number of slots read, None at a missing block         *)
pread(n, from, length) ==
  LET to == Min({from + length, disk.inode[n].size})
  IN IF from >= disk.inode[n].size THEN 0
     ELSE IF \E k \in from .. to - 1 : inode_block(disk, disk.inode[n], k \div BlockSlots) = 0
     THEN None ELSE to - from

-----------------------------------------------------------------------------
Mkdir(t, p) ==
  /\ disk' = Last(mkdir_trace(cwd[t], p))
  /\ UNCHANGED <<cwd, file>>

Opened(t, r, flags) ==                  \* r is the result of open_trace
  LET start == IF "append" \in flags THEN Last(r.tr).inode[r.inode].size ELSE 0
  IN /\ disk' = Last(r.tr)
     /\ file' = IF r.inode = None \/ file[t] # NoFile THEN file  \* no descriptor is left
                ELSE [file EXCEPT ![t] = [inode |-> r.inode, offset |-> start, flags |-> flags]]
     /\ UNCHANGED cwd

Open(t, p, flags) == Opened(t, open_trace(cwd[t], p, flags), flags)

Close(t) ==
  /\ file[t] # NoFile
  /\ file' = [file EXCEPT ![t] = NoFile]
  /\ UNCHANGED <<disk, cwd>>

Unlink(t, p) ==
  /\ disk' = Last(unlink_trace(cwd[t], p))
  /\ UnlinkCwd \/ \A u \in Tasks : cwd[u] \in disk'.ibm
  /\ UNCHANGED <<cwd, file>>

Chdir(t, p) ==
  LET n == resolve(disk, cwd[t], p)
  IN /\ n # None /\ IsDir(disk, n)
     /\ cwd' = [cwd EXCEPT ![t] = n]
     /\ UNCHANGED <<disk, file>>

WriteFrom(t) ==
  IF "append" \in file[t].flags THEN disk.inode[file[t].inode].size ELSE file[t].offset

Write(t, length) ==
  LET r == write_at(file[t].inode, WriteFrom(t), length)
  IN /\ file[t] # NoFile /\ "write" \in file[t].flags
     /\ disk' = Last(r.tr)
     /\ file' = [file EXCEPT ![t].offset = WriteFrom(t) + r.done]
     /\ UNCHANGED cwd

Read(t, length) ==
  LET done == pread(file[t].inode, file[t].offset, length)
  IN /\ file[t] # NoFile /\ "read" \in file[t].flags
     /\ done > 0
     /\ file' = [file EXCEPT ![t].offset = @ + done]
     /\ UNCHANGED <<disk, cwd>>

Lseek(t, to) ==
  /\ file[t] # NoFile
  /\ to \in 0 .. MaxFileSize
  /\ file' = [file EXCEPT ![t].offset = to]
  /\ UNCHANGED <<disk, cwd>>

(* The machine stops after some of the sector writes of a system call and  *)
(* is started again (minifs_init).  Truncation and unlink are left out:    *)
(* they free blocks before they write the inode, and there is no recovery. *)
Lengths == 1 .. BlockSlots
Interrupted(t) ==
  UNION {Range(mkdir_trace(cwd[t], p)) : p \in Paths}
  \cup UNION {Range(Creating(cwd[t], p, flags).tr) : p \in Paths, flags \in OpenFlags}
  \cup UNION {Range(write_at(file[t].inode, WriteFrom(t), length).tr) :
                length \in {l \in Lengths : file[t] # NoFile /\ "write" \in file[t].flags}}

PowerCut ==
  /\ disk' \in UNION {Interrupted(t) : t \in Tasks}
  /\ cwd' = [t \in Tasks |-> Root]
  /\ file' = [t \in Tasks |-> NoFile]

Call ==
  \E t \in Tasks :
    \/ \E p \in Paths : Mkdir(t, p) \/ Unlink(t, p) \/ Chdir(t, p)
    \/ \E p \in Paths, flags \in OpenFlags : Open(t, p, flags)
    \/ Close(t)
    \/ \E length \in Lengths : Write(t, length) \/ Read(t, length)
    \/ \E to \in -1 .. MaxFileSize + 1 : Lseek(t, to)

Next == Call \/ PowerCut
Spec == Init /\ [][Next]_vars

(* ... when the machine is only switched off at rest *)
CallSpec == Init /\ [][Call]_vars

-----------------------------------------------------------------------------
Words ==
  {Zero, Deleted} \cup {Pointer(b) : b \in Blocks} \cup {Data(n) : n \in Inodes}
    \cup {Entry(n, m, name) : n \in Inodes, m \in {"dir", "file"}, name \in Names}

TypeOK ==
  /\ Root \in disk.ibm /\ disk.ibm \subseteq Inodes /\ disk.dbm \subseteq Blocks
  /\ \A n \in Inodes : disk.inode[n] \in
       [mode : {"free", "dir", "file"}, size : 0 .. MaxSlots,
        parent : Inodes, direct : [0 .. DirectBlocks - 1 -> Blocks \cup {0}], indirect : Blocks \cup {0}]
  /\ \A b \in Blocks, k \in BlockIndex : disk.block[b][k] \in Words
  /\ cwd \in [Tasks -> Inodes]
  /\ \A t \in Tasks : file[t].inode \in Inodes \cup {None} /\ file[t].offset \in 0 .. MaxFileSize

(* The slots of an inode that can be read *)
Content(d, n) ==
  LET i == d.inode[n]
  IN [k \in {k \in 0 .. i.size - 1 : inode_block(d, i, k \div BlockSlots) # 0} |-> WordAt(d, i, k)]
EntriesOf(d, n) == {w \in Range(Content(d, n)) : w.word = "entry"}
UsedDirs(d) == {n \in d.ibm : IsDir(d, n)}
Owned(d) == UNION {Range(BlocksOf(d, d.inode[n])) : n \in d.ibm}

(* A directory entry names an inode that is allocated, of the entry's type *)
(* and with the directory as its parent (create_node writes bitmap, inode  *)
(* and entry in this order; unlink never frees what another entry names).  *)
EntriesValid ==
  \A n \in UsedDirs(disk) : \A e \in EntriesOf(disk, n) :
    /\ e.inode \in disk.ibm
    /\ disk.inode[e.inode].mode = e.mode
    /\ disk.inode[e.inode].parent = n

(* A block has one owner: the blocks of the allocated inodes are marked in *)
(* the bitmap, and none is in two inodes or twice in one.                  *)
BlocksOwnedOnce ==
  /\ Owned(disk) \subseteq disk.dbm
  /\ \A n \in disk.ibm : IsInjective(BlocksOf(disk, disk.inode[n]))
  /\ \A n, m \in disk.ibm : n # m =>
       Range(BlocksOf(disk, disk.inode[n])) \cap Range(BlocksOf(disk, disk.inode[m])) = {}

(* A file holds what was written to it, or zeros: a new block never shows  *)
(* what a deleted file or directory has left in it.                        *)
OwnContentOnly ==
  \A n \in disk.ibm : disk.inode[n].mode = "file" =>
    Range(Content(disk, n)) \subseteq {Zero, Data(n)}

(* A call changes the contents of at most one file or directory that was   *)
(* there before and still is.                                              *)
OthersUntouched ==
  [][Cardinality({n \in disk.ibm \cap disk'.ibm : Content(disk, n) # Content(disk', n)}) <= 1]_disk

(* Blocks are lost (dir_add drops the indirect block it has allocated) by  *)
(* no call but one that has found the disk full.                           *)
LostOnlyWhenFull ==
  [][(disk'.dbm \ Owned(disk')) \subseteq (disk.dbm \ Owned(disk)) \/ FreeBlocks(disk') = {}]_vars

(* minifs_getcwd, from the directory up to the root: the path, or None     *)
(* when it is longer than the inodes allow (MINIFS_PATH_MAX) or the name   *)
(* of a directory is not found in its parent.                              *)
NameIn(d, parent, n) ==
  LET ks == {k \in DOMAIN Content(d, parent) :
               Content(d, parent)[k].word = "entry" /\ Content(d, parent)[k].inode = n}
  IN IF ks = {} THEN None ELSE Content(d, parent)[Min(ks)].name

getcwd(d, n) ==
  LET up[k \in 0 .. MaxInodes] ==
        IF k = 0 THEN [inode |-> n, parts |-> <<>>]
        ELSE LET r == up[k - 1]
                 parent == d.inode[r.inode].parent
             IN IF r.inode \in {Root, None} THEN r
                ELSE IF NameIn(d, parent, r.inode) = None THEN [inode |-> None, parts |-> <<>>]
                ELSE [inode |-> parent, parts |-> <<NameIn(d, parent, r.inode)>> \o r.parts]
  IN up[MaxInodes]

(* Every allocated inode is named by exactly one entry of one allocated    *)
(* directory, the root by none, and no directory has a name twice.         *)
Tree ==
  /\ \A n \in disk.ibm \ {Root} :
       Cardinality({<<m, k>> \in UsedDirs(disk) \X (0 .. MaxSlots - 1) :
                      /\ k \in DOMAIN Content(disk, m)
                      /\ Content(disk, m)[k].word = "entry"
                      /\ Content(disk, m)[k].inode = n}) = 1
  /\ \A m \in UsedDirs(disk) : \A e, f \in EntriesOf(disk, m) :
       e.inode # Root /\ (e.name = f.name => e = f)

(* The path getcwd shows for a directory leads back to that directory: the *)
(* parent links and the entries describe the same tree, rooted at Root.    *)
GetcwdResolves ==
  \A n \in UsedDirs(disk) :
    LET r == getcwd(disk, n)
    IN r.inode = Root /\ resolve(disk, Root, [absolute |-> TRUE, parts |-> r.parts]) = n
=============================================================================
