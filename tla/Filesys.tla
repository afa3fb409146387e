------------------------------- MODULE Filesys -------------------------------
(***************************************************************************)
(* The file system: filesys.c, directory.c, inode.c, free-map.c and file.c *)
(* of filesys/, as the system calls of userprog/syscall.c and load use it. *)
(*                                                                         *)
(* Data is counted in sectors.  The root directory fits in one sector, so  *)
(* a change of an entry reads and writes all of them.  A step ends with a  *)
(* write to the disk or where another thread can interfere; create, load,  *)
(* read and write hold filesys_lock, open, remove and close do not.  The   *)
(* machine can be switched off, or panic, between any two steps.           *)
(***************************************************************************)
EXTENDS Naturals, FiniteSets, FiniteSetsExt

CONSTANTS
  Thread,       \* threads that call the file system
  Calls,        \* Thread -> the calls it makes
  Name,         \* file names
  Invalid,      \* of them, the empty and the too long ones
  Program,      \* Thread -> thread_name ()
  Lengths,      \* initial sizes, in sectors
  Val,          \* values of a sector; 0 is a sector of zeros
  Sectors,      \* size of the disk
  Entries,      \* entries of the root directory (16 in do_format)
  Inode,        \* bound: addresses of struct inode
  Handle,       \* bound: addresses of struct file
  MallocFails,  \* TRUE: memory can run out
  NULL

FREE_MAP_SECTOR == 0
ROOT_DIR_SECTOR == 1
Sector == 0..Sectors - 1
(* The two inodes above, and the data of the free map and of the root      *)
(* directory, which do_format allocates first.                             *)
System == 0..3

(* What the instances satisfy. *)
FilesysAssumption ==
  /\ Sectors > 4 /\ 0 \in Val /\ Invalid \subseteq Name
  /\ Calls \in [Thread -> SUBSET {"create", "open", "remove", "load"}]
  /\ NULL \notin Name

VARIABLES
  disk,      \* map, dir, inode, data: what is on the disk
  free_map,  \* sectors in use, in memory
  inode,     \* struct inode on open_inodes, by address, or NULL
  file,      \* struct file, by address, or NULL
  lock,      \* owner of filesys_lock
  pc, reg    \* place and local variables of each thread

vars == <<disk, free_map, inode, file, lock, pc, reg>>

NoEntry == [inode_sector |-> 0, name |-> NULL, in_use |-> FALSE]
NoReg == [op |-> NULL, name |-> NULL, len |-> 0, sector |-> 0, new |-> 0, start |-> 0, slot |-> 0,
          dir |-> NULL, ino |-> NULL, bounce |-> NULL, ret |-> NULL, f |-> NULL]

(* do_format and filesys_init. *)
Init ==
  /\ disk = [map   |-> System,
             dir   |-> [e \in 1..Entries |-> NoEntry],
             inode |-> [s \in Sector |-> [start |-> 0, length |-> 0]],
             data  |-> [s \in Sector |-> Max(Val)]]
  /\ free_map = System
  /\ inode = [i \in Inode |-> NULL]
  /\ file = [h \in Handle |-> NULL]
  /\ lock = NULL
  /\ pc = [t \in Thread |-> "user"]
  /\ reg = [t \in Thread |-> NoReg]

Goto(t, place) == pc' = [pc EXCEPT ![t] = place]
Malloc == IF MallocFails THEN BOOLEAN ELSE {TRUE}
Extent(i) == i.start .. (i.start + i.length) - 1

(* bitmap_scan_and_flip and bitmap_write; the sector is BITMAP_ERROR when  *)
(* there is no run of cnt free sectors.                                    *)
BITMAP_ERROR == Sectors
Scan(cnt) ==
  Min({s \in Sector : s + cnt <= Sectors /\ s..(s + cnt) - 1 \cap free_map = {}} \cup {BITMAP_ERROR})

Mark(set) == free_map' = free_map \cup set /\ disk' = [disk EXCEPT !.map = free_map \cup set]

(* free_map_release asserts that the sectors are marked. *)
Releasable(set) == set \subseteq free_map
(* What a free sector holds is not read again: any value will do that is   *)
(* not the zeros of a new file.                                            *)
Release(set) ==
  /\ free_map' = free_map \ set
  /\ disk' = [disk EXCEPT !.map = free_map \ set,
        !.inode = [s \in Sector |-> IF s \in set THEN [start |-> 0, length |-> 0] ELSE @[s]],
        !.data = [s \in Sector |-> IF s \in set THEN Max(Val) ELSE @[s]]]

inode_close(i) ==
  IF inode[i].open_cnt > 1
  THEN inode' = [inode EXCEPT ![i].open_cnt = @ - 1] /\ UNCHANGED <<free_map, disk>>
  ELSE /\ inode' = [inode EXCEPT ![i] = NULL]
       /\ IF inode[i].removed THEN Release({inode[i].sector} \cup Extent(inode[i]))
          ELSE UNCHANGED <<free_map, disk>>

(* The first entry with this name; none is Entries + 1. *)
lookup(n) ==
  Min({e \in 1..Entries : disk.dir[e].in_use /\ disk.dir[e].name = n} \cup {Entries + 1})

-----------------------------------------------------------------------------
(* A call starts with dir_open_root; create and load take filesys_lock.    *)
Call(t, op, n, len) ==
  /\ pc[t] = "user" /\ op \in Calls[t]
  /\ op = "create" \/ len = Min(Lengths)
  /\ IF op \in {"create", "load"} THEN lock = NULL /\ lock' = t ELSE UNCHANGED lock
  /\ Goto(t, "inode_open")
  /\ reg' = [reg EXCEPT ![t] =
               [NoReg EXCEPT !.op = op, !.name = n, !.len = len, !.sector = ROOT_DIR_SECTOR,
                             !.ret = IF op = "create" THEN "allocate" ELSE "lookup"]]
  /\ UNCHANGED <<disk, free_map, inode, file>>

(* inode_open returns i to the caller, dir_open or dir_lookup. *)
Return(t, i) ==
  /\ reg' = [reg EXCEPT ![t] = IF @.sector = ROOT_DIR_SECTOR THEN [@ EXCEPT !.dir = i]
                               ELSE [@ EXCEPT !.ino = i]]
  /\ Goto(t, IF i # NULL THEN reg[t].ret
             ELSE IF reg[t].sector # ROOT_DIR_SECTOR THEN "dir_close" ELSE "done")

(* inode_open: the search of open_inodes. *)
InodeFind(t) ==
  /\ pc[t] = "inode_open"
  /\ LET same == {i \in Inode : inode[i] # NULL /\ inode[i].sector = reg[t].sector} IN
     IF same # {}
     THEN \E i \in same : inode' = [inode EXCEPT ![i].open_cnt = @ + 1] /\ Return(t, i)
     ELSE Goto(t, "inode_new") /\ UNCHANGED <<inode, reg>>
  /\ UNCHANGED <<disk, free_map, file, lock>>

InodeNew(t) ==
  /\ pc[t] = "inode_new"
  /\ \E got \in Malloc :
       IF got
       THEN LET i == Min({j \in Inode : inode[j] = NULL})
                d == disk.inode[reg[t].sector] IN
            /\ inode' = [inode EXCEPT ![i] = [sector |-> reg[t].sector, open_cnt |-> 1, removed |-> FALSE,
                            deny_write_cnt |-> 0, start |-> d.start, length |-> d.length]]
            /\ Return(t, i)
       ELSE Return(t, NULL) /\ UNCHANGED inode
  /\ UNCHANGED <<disk, free_map, file, lock>>

-----------------------------------------------------------------------------
(* filesys_create.                                                         *)

AllocateInode(t) ==
  /\ pc[t] = "allocate"
  /\ LET s == Scan(1) IN
     IF s = BITMAP_ERROR
     THEN Goto(t, "dir_close") /\ UNCHANGED <<free_map, disk, reg>>
     ELSE Mark({s}) /\ reg' = [reg EXCEPT ![t].new = s] /\ Goto(t, "extent")
  /\ UNCHANGED <<inode, file, lock>>

(* inode_create: calloc and the allocation of the data. *)
AllocateExtent(t) ==
  /\ pc[t] = "extent"
  /\ \E got \in Malloc :
       LET s == Scan(reg[t].len) IN
       IF got /\ s # BITMAP_ERROR
       THEN /\ Mark(s..(s + reg[t].len) - 1)
            /\ reg' = [reg EXCEPT ![t].start = s] /\ Goto(t, "inode_write")
       ELSE Goto(t, "undo") /\ UNCHANGED <<free_map, disk, reg>>
  /\ UNCHANGED <<inode, file, lock>>

InodeWrite(t) ==
  /\ pc[t] = "inode_write" /\ Goto(t, "zero")
  /\ disk' = [disk EXCEPT !.inode[reg[t].new] = [start |-> reg[t].start, length |-> reg[t].len]]
  /\ UNCHANGED <<free_map, inode, file, lock, reg>>

(* Faulty variant of InodeZero: the data is left as it was. *)
InodeZero_not(t) ==
  /\ pc[t] = "zero" /\ Goto(t, "dir_add")
  /\ UNCHANGED <<disk, free_map, inode, file, lock, reg>>

InodeZero(t) ==
  /\ pc[t] = "zero" /\ Goto(t, "dir_add")
  /\ disk' = [disk EXCEPT !.data = [s \in Sector |->
                IF s \in reg[t].start..(reg[t].start + reg[t].len) - 1 THEN 0 ELSE @[s]]]
  /\ UNCHANGED <<free_map, inode, file, lock, reg>>

(* dir_add up to the reading of the directory's sector in inode_write_at.  *)
(* A full directory leaves ofs at the end of the file, and nothing is      *)
(* written there.                                                          *)
DirAdd(t) ==
  /\ pc[t] = "dir_add"
  /\ LET slot == Min({e \in 1..Entries : ~disk.dir[e].in_use} \cup {Entries + 1}) IN
     IF reg[t].name \in Invalid \/ lookup(reg[t].name) <= Entries \/ slot > Entries
     THEN Goto(t, "undo") /\ UNCHANGED reg
     ELSE Goto(t, "dir_write") /\ reg' = [reg EXCEPT ![t].slot = slot, ![t].bounce = disk.dir]
  /\ UNCHANGED <<disk, free_map, inode, file, lock>>

DirWrite(t) ==
  /\ pc[t] = "dir_write" /\ Goto(t, "dir_close")
  /\ disk' = [disk EXCEPT !.dir = [reg[t].bounce EXCEPT ![reg[t].slot] =
                [inode_sector |-> reg[t].new, name |-> reg[t].name, in_use |-> TRUE]]]
  /\ UNCHANGED <<free_map, inode, file, lock, reg>>

(* Faulty variant of CreateUndo: it also frees the sector of the file that *)
(* has the name already.                                                   *)
CreateUndo_other(t) ==
  /\ pc[t] = "undo" /\ Goto(t, "dir_close")
  /\ LET e == lookup(reg[t].name) IN
     Release(IF e <= Entries THEN {disk.dir[e].inode_sector} ELSE {reg[t].new})
  /\ UNCHANGED <<inode, file, lock, reg>>

(* A failed create releases the sector of the inode, not the data. *)
CreateUndo(t) ==
  /\ pc[t] = "undo" /\ Goto(t, "dir_close")
  /\ Release({reg[t].new})
  /\ UNCHANGED <<inode, file, lock, reg>>

-----------------------------------------------------------------------------
(* filesys_open, filesys_remove and load.                                  *)

(* dir_lookup and the first half of dir_remove; then inode_open. *)
Lookup(t) ==
  /\ pc[t] = "lookup"
  /\ LET e == lookup(reg[t].name) IN
     IF e > Entries
     THEN Goto(t, "dir_close") /\ UNCHANGED reg
     ELSE /\ Goto(t, "inode_open")
          /\ reg' = [reg EXCEPT ![t].sector = disk.dir[e].inode_sector, ![t].slot = e,
                        ![t].ret = IF reg[t].op = "remove" THEN "erase" ELSE "dir_close"]
  /\ UNCHANGED <<disk, free_map, inode, file, lock>>

(* dir_remove: the entry was read by lookup, the sector is read again.  Of  *)
(* an entry that is not in use the rest does not matter.                   *)
EraseRead(t) ==
  /\ pc[t] = "erase" /\ Goto(t, "erase_write")
  /\ reg' = [reg EXCEPT ![t].bounce = disk.dir]
  /\ UNCHANGED <<disk, free_map, inode, file, lock>>

EraseWrite(t) ==
  /\ pc[t] = "erase_write" /\ Goto(t, "remove")
  /\ disk' = [disk EXCEPT !.dir = [reg[t].bounce EXCEPT ![reg[t].slot] = NoEntry]]
  /\ UNCHANGED <<free_map, inode, file, lock, reg>>

(* inode_remove *)
InodeRemove(t) ==
  /\ pc[t] = "remove" /\ Goto(t, "inode_close")
  /\ inode' = [inode EXCEPT ![reg[t].ino].removed = TRUE]
  /\ UNCHANGED <<disk, free_map, file, lock, reg>>

InodeClose(t) ==
  /\ pc[t] = "inode_close" /\ Goto(t, "dir_close")
  /\ inode_close(reg[t].ino)
  /\ UNCHANGED <<file, lock, reg>>

dir_close(t) == inode_close(reg[t].dir)

(* The end of filesys_create and filesys_remove. *)
DirClose(t) ==
  /\ pc[t] = "dir_close" /\ reg[t].op \in {"create", "remove"}
  /\ dir_close(t) /\ Goto(t, "done")
  /\ UNCHANGED <<file, lock, reg>>

(* The end of filesys_open, which goes on with file_open. *)
OpenDirClose(t) ==
  /\ pc[t] = "dir_close" /\ reg[t].op \in {"open", "load"}
  /\ dir_close(t) /\ Goto(t, IF reg[t].ino # NULL THEN "file_open" ELSE "done")
  /\ UNCHANGED <<file, lock, reg>>

(* inode_deny_write and inode_allow_write, for a file that calls the one   *)
(* at most once, and the other only after it.                              *)
inode_deny_write(i) == [inode[i] EXCEPT !.deny_write_cnt = @ + 1]
inode_allow_write(i) == [inode[i] EXCEPT !.deny_write_cnt = @ - 1]

(* file_allow_write *)
file_allow_write(h) ==
  IF file[h].deny_write THEN inode_allow_write(file[h].inode) ELSE inode[file[h].inode]

(* The unused addresses for a struct file. *)
Free == {h \in Handle : file[h] = NULL}

(* file_open; a file with the name of the running program, and in load any *)
(* file, is then denied writing (file_deny_write).                         *)
FileOpen(t) ==
  /\ pc[t] = "file_open" /\ Free # {}
  /\ \E got \in Malloc :
       IF got
       THEN LET h == Min(Free)
                deny == reg[t].op = "load" \/ reg[t].name = Program[t] IN
            /\ file' = [file EXCEPT ![h] =
                          [inode |-> reg[t].ino, deny_write |-> deny, by |-> t, exec |-> FALSE]]
            /\ inode' = IF deny THEN [inode EXCEPT ![reg[t].ino] = inode_deny_write(reg[t].ino)] ELSE inode
            /\ reg' = [reg EXCEPT ![t].f = h]
            /\ Goto(t, IF reg[t].op = "load" THEN "segment" ELSE "done")
            /\ lock' = IF lock = t THEN NULL ELSE lock
            /\ UNCHANGED <<disk, free_map>>
       ELSE /\ inode_close(reg[t].ino) /\ Goto(t, "done") /\ UNCHANGED <<file, lock, reg>>

(* load_segment's file_reopen: the file that the program's pages come from, *)
(* kept as long as the program runs and after it.                          *)
Segment(t) ==
  /\ pc[t] = "segment" /\ Free # {} /\ Goto(t, "file_close")
  /\ file' = [file EXCEPT ![Min(Free)] =
                [inode |-> reg[t].ino, deny_write |-> FALSE, by |-> t, exec |-> TRUE]]
  /\ inode' = [inode EXCEPT ![reg[t].ino].open_cnt = @ + 1]
  /\ UNCHANGED <<disk, free_map, lock, reg>>

(* file_close: file_allow_write, inode_close. *)
file_close(h) ==
  LET i == file[h].inode
      allowed == file_allow_write(h) IN
  /\ file' = [file EXCEPT ![h] = NULL]
  /\ IF allowed.open_cnt > 1
     THEN inode' = [inode EXCEPT ![i] = [allowed EXCEPT !.open_cnt = @ - 1]] /\ UNCHANGED <<free_map, disk>>
     ELSE inode_close(i)

(* The end of load closes the file that it denied writing to. *)
LoadClose(t) ==
  /\ pc[t] = "file_close" /\ Goto(t, "done") /\ file_close(reg[t].f)
  /\ UNCHANGED <<lock, reg>>

Done(t) ==
  /\ pc[t] = "done" /\ Goto(t, "user")
  /\ reg' = [reg EXCEPT ![t] = NoReg]
  /\ lock' = IF lock = t THEN NULL ELSE lock
  /\ UNCHANGED <<disk, free_map, inode, file>>

(* close *)
Close(t, h) ==
  /\ pc[t] = "user" /\ file[h] # NULL /\ file[h].by = t /\ ~file[h].exec
  /\ file_close(h)
  /\ UNCHANGED <<lock, pc, reg>>

(* Faulty variant of Write: the count of those who deny writing is ignored. *)
Write_denied(t, h, k, v) ==
  /\ pc[t] = "user" /\ lock = NULL /\ file[h] # NULL /\ file[h].by = t /\ ~file[h].exec
  /\ LET i == inode[file[h].inode] IN
     /\ k < i.length
     /\ disk' = [disk EXCEPT !.data[i.start + k] = v]
  /\ UNCHANGED <<free_map, inode, file, lock, pc, reg>>

(* write, of one whole sector at position k. *)
Write(t, h, k, v) ==
  /\ pc[t] = "user" /\ lock = NULL /\ file[h] # NULL /\ file[h].by = t /\ ~file[h].exec
  /\ LET i == inode[file[h].inode] IN
     /\ i.deny_write_cnt = 0 /\ k < i.length
     /\ disk' = [disk EXCEPT !.data[i.start + k] = v]
  /\ UNCHANGED <<free_map, inode, file, lock, pc, reg>>

(* The machine stops; filesys_init reads the free map again. *)
Restart ==
  /\ free_map' = disk.map
  /\ inode' = [i \in Inode |-> NULL] /\ file' = [h \in Handle |-> NULL] /\ lock' = NULL
  /\ pc' = [t \in Thread |-> "user"] /\ reg' = [t \in Thread |-> NoReg]
  /\ UNCHANGED disk

Step(t) ==
  \/ InodeFind(t) \/ InodeNew(t)
  \/ AllocateInode(t) \/ AllocateExtent(t) \/ InodeWrite(t) \/ InodeZero(t)
  \/ DirAdd(t) \/ DirWrite(t) \/ CreateUndo(t)
  \/ Lookup(t) \/ EraseRead(t) \/ EraseWrite(t) \/ InodeRemove(t) \/ InodeClose(t)
  \/ DirClose(t) \/ OpenDirClose(t) \/ FileOpen(t) \/ Segment(t) \/ LoadClose(t) \/ Done(t)

Next ==
  \/ \E t \in Thread, n \in Name, op \in {"create", "open", "remove", "load"}, len \in Lengths :
       Call(t, op, n, len)
  \/ \E t \in Thread : Step(t)
  \/ \E t \in Thread, h \in Handle : Close(t, h)
  \/ \E t \in Thread, h \in Handle, k \in 0..Max(Lengths), v \in Val : Write(t, h, k, v)
  \/ Restart

Spec == Init /\ [][Next]_vars

-----------------------------------------------------------------------------
(* Properties.                                                             *)

InUse == {e \in 1..Entries : disk.dir[e].in_use}
SectorsOf(e) ==
  {disk.dir[e].inode_sector} \cup Extent(disk.inode[disk.dir[e].inode_sector])

(* What is on the disk is a file system at every step, and so after every  *)
(* restart: names are unique, no two files share a sector, none uses a     *)
(* sector of the system's, and the free map on the disk marks them all.    *)
(* (the order of the writes in filesys_create and dir_remove)              *)
DiskConsistent ==
  /\ System \subseteq disk.map
  /\ \A e \in InUse :
       /\ SectorsOf(e) \subseteq disk.map \ System
       /\ \A g \in InUse \ {e} :
            disk.dir[e].name # disk.dir[g].name /\ SectorsOf(e) \cap SectorsOf(g) = {}

Users(i) ==
  Cardinality({h \in Handle : file[h] # NULL /\ file[h].inode = i})
  + Cardinality({t \in Thread : reg[t].dir = i /\ pc[t] \notin {"file_open", "segment", "file_close", "done"}})
  + Cardinality({t \in Thread : reg[t].ino = i /\ pc[t] \in {"erase", "erase_write", "remove", "inode_close", "file_open"}})
  + Cardinality({t \in Thread : reg[t].ino = i /\ pc[t] = "dir_close" /\ reg[t].op \in {"open", "load"}})

(* Every inode in memory counts its users and those who deny writing, and  *)
(* its sectors are marked in use: inode_close frees neither memory nor     *)
(* blocks that someone still uses, and the assertions of inode_deny_write, *)
(* inode_allow_write and free_map_release hold.                            *)
InodesCounted ==
  \A i \in Inode : inode[i] # NULL =>
    /\ inode[i].open_cnt = Users(i)
    /\ inode[i].deny_write_cnt = Cardinality({h \in Handle : file[h] # NULL /\ file[h].inode = i /\ file[h].deny_write})
    /\ Releasable({inode[i].sector} \cup Extent(inode[i]))

HandleSector(h) == IF file[h] = NULL THEN NULL ELSE inode[file[h].inode].sector
NameSector(n) ==
  IF \E e \in InUse : disk.dir[e].name = n THEN disk.dir[lookup(n)].inode_sector ELSE NULL
Contents(s) ==
  IF (\E n \in Name : NameSector(n) = s) \/ (\E h \in Handle : HandleSector(h) = s)
  THEN [k \in 1..disk.inode[s].length |-> disk.data[(disk.inode[s].start + k) - 1]]
  ELSE NULL

Store == INSTANCE FileStore
           WITH File <- Sector \ System, NONE <- NULL, dir <- [n \in Name |-> NameSector(n)],
                open <- [h \in Handle |-> HandleSector(h)], contents <- [s \in Sector \ System |-> Contents(s)]

(* The file system implements FileStore: files do not run into each other, *)
(* a removed file lives as long as it is open, a write goes to the file of *)
(* the handle, and a restart at any step keeps names and contents.         *)
ImplementsStore == Store!Spec

(* While someone has a file open who denied writing, its data stays as it  *)
(* is (inode_write_at).                                                    *)
DeniedKept ==
  \A h \in Handle :
    file[h] # NULL /\ file'[h] = file[h] /\ file[h].deny_write =>
      Contents(HandleSector(h))' = Contents(HandleSector(h))
DeniedNotWritten == [][DeniedKept]_vars

-----------------------------------------------------------------------------
(* What comments and tests say and the code does not keep.                 *)

(* Opening a single inode twice returns the same struct inode (comment of  *)
(* open_inodes), when two threads open it at the same time.                *)
OneInodePerSector ==
  \A i, j \in Inode : i # j /\ inode[i] # NULL /\ inode[j] # NULL => inode[i].sector # inode[j].sector

(* dir_remove takes away the entry for the name it is given: no other      *)
(* entry disappears from the directory.                                    *)
OnlyRemovedDisappear ==
  [][\A e \in InUse : ~disk'.dir[e].in_use =>
       \E t \in Thread : pc[t] = "erase_write" /\ reg[t].name = disk.dir[e].name]_vars

(* The executable of a running process cannot be modified (test            *)
(* rox-child); load gives up its protection when it returns.               *)
ExecutableNotWritten ==
  [][\A h \in Handle :
       file[h] # NULL /\ file'[h] = file[h] /\ file[h].exec =>
         Contents(HandleSector(h))' = Contents(HandleSector(h))]_vars
=============================================================================
