------------------------------- MODULE UserFiles -------------------------------
(***************************************************************************)
(* The open files and the file mappings of one process: the descriptor     *)
(* table of struct thread, open, close, seek, sigaction, mmap and munmap   *)
(* of userprog/syscall.c, and process_add_file, process_get_file,          *)
(* do_munmap and process_exit of userprog/process.c.                       *)
(*                                                                         *)
(* A struct file is named by its address, which malloc gives out again     *)
(* after file_close.  The contents of mapped pages are left to Vm.         *)
(***************************************************************************)
EXTENDS Naturals, Sequences, FiniteSets, FiniteSetsExt, SequencesExt

CONSTANTS
  FDS,        \* length of fd[] and of handler[] (64)
  Inode,      \* files that can be opened
  Length,     \* Inode -> length in bytes
  PGSIZE,
  Pages,      \* number of pages of the user's address space; page 0 is at address 0
  Segment,    \* the pages of the program and of its stack
  CLOSE_ALL,  \* 9999
  Signal,     \* bound: signal numbers that get a handler
  Address,    \* bound: addresses of struct file
  MaxMaps,    \* bound: mappings made
  MaxFd,      \* bound: descriptors given out
  NULL

UPage == 0..Pages - 1
PagesOf(f) == (Length[f] + PGSIZE - 1) \div PGSIZE

(* What the instances satisfy. *)
UserFilesAssumption ==
  /\ FDS \in Nat /\ FDS > 2 /\ MaxFd < 2 * FDS /\ PGSIZE \in Nat \ {0}
  /\ Length \in [Inode -> Nat] /\ Segment \subseteq UPage \ {0} /\ CLOSE_ALL \in Nat
  /\ Signal \subseteq 0..FDS - 1

VARIABLES
  slot,       \* fd[], and after it handler[]: a struct file, NULL, or a handler
  next_fd,
  file,       \* struct file, by address: its inode, or NULL
  mmap_list,  \* mmap_file: mapid, file, vme_list (pages)
  next_mapid,
  vm,         \* the vm_entry of a page: map (0: none, 1: segment, or a mapid), offset, read_bytes
  returned,   \* what the last mmap returned: 0 for -1
  alive,      \* FALSE once process_exit is done
  halted      \* "no", or why the machine cannot go on

vars == <<slot, next_fd, file, mmap_list, next_mapid, vm, returned, alive, halted>>

HANDLER == 1000
NoVme == [map |-> 0, offset |-> 0, read_bytes |-> 0]

(* thread_create, and load for the segments. *)
Init ==
  /\ slot = [i \in 0..2 * FDS - 1 |-> NULL]
  /\ next_fd = 2
  /\ file = [x \in Address |-> NULL]
  /\ mmap_list = <<>> /\ next_mapid = 1
  /\ vm = [p \in UPage |-> IF p \in Segment THEN [NoVme EXCEPT !.map = 1] ELSE NoVme]
  /\ returned = 0 /\ alive = TRUE /\ halted = "no"

Running == alive /\ halted = "no"
Free == {x \in Address : file[x] = NULL}

(* The next entry is filled, and not compared with the table's length. *)
process_add_file(x) == slot' = [slot EXCEPT ![next_fd] = x] /\ next_fd' = next_fd + 1

(* The descriptor is open, and its file is at slot[i]. *)
process_get_file(i) == slot[i] \in Address

(* open, of a file that filesys_open finds. *)
open(f) ==
  /\ Running /\ Free # {} /\ next_fd < MaxFd
  /\ file' = [file EXCEPT ![Min(Free)] = f]
  /\ process_add_file(Min(Free))
  /\ UNCHANGED <<mmap_list, next_mapid, vm, returned, alive, halted>>

close(i) ==
  /\ Running /\ process_get_file(i)
  /\ file' = [file EXCEPT ![slot[i]] = NULL]
  /\ slot' = [slot EXCEPT ![i] = NULL]
  /\ UNCHANGED <<next_fd, mmap_list, next_mapid, vm, returned, alive, halted>>

(* seek and tell of a descriptor that is not open: ASSERT (file != NULL).  *)
SeekPanic(i) ==
  /\ Running /\ slot[i] = NULL
  /\ halted' = "panic"
  /\ UNCHANGED <<slot, next_fd, file, mmap_list, next_mapid, vm, returned, alive>>

(* A descriptor past the table, where a handler lies, is taken for a file. *)
WildFile(i) ==
  /\ Running /\ slot[i] = HANDLER
  /\ halted' = "wild"
  /\ UNCHANGED <<slot, next_fd, file, mmap_list, next_mapid, vm, returned, alive>>

sigaction(signum) ==
  /\ Running
  /\ slot' = [slot EXCEPT ![FDS + signum] = HANDLER]
  /\ UNCHANGED <<next_fd, file, mmap_list, next_mapid, vm, returned, alive, halted>>

-----------------------------------------------------------------------------
(* mmap.                                                                   *)

(* mmap at address 0 or inside a page: the reopened file stays open. *)
MmapBadAddress(i) ==
  /\ Running /\ process_get_file(i) /\ Free # {} /\ next_mapid < MaxMaps
  /\ file' = [file EXCEPT ![Min(Free)] = file[slot[i]]]
  /\ returned' = 0
  /\ UNCHANGED <<slot, next_fd, mmap_list, next_mapid, vm, alive, halted>>

find_vme(p) == vm[p].map # 0

(* The vm_entry for page k of a mapping. *)
Vme(id, f, k) ==
  [map |-> id, offset |-> k * PGSIZE, read_bytes |-> Min({PGSIZE, Length[f] - k * PGSIZE})]

(* The table with m entries for file f entered at page p. *)
insert_vme(p, m, id, f) == [q \in UPage |-> IF q \in p..(p + m) - 1 THEN Vme(id, f, q - p) ELSE vm[q]]

(* Faulty variant of mmap: it looks at the first page only. *)
mmap_first(i, p) ==
  /\ Running /\ process_get_file(i) /\ Free # {} /\ next_mapid < MaxMaps
  /\ LET f  == file[slot[i]]
         id == next_mapid + 1
         n  == PagesOf(f)
         ok == n = 0 \/ ~find_vme(p)
         m  == IF ok THEN n ELSE 0 IN
     /\ p > 0 /\ p + n <= Pages
     /\ file' = [file EXCEPT ![Min(Free)] = f]
     /\ next_mapid' = id
     /\ mmap_list' = Append(mmap_list, [mapid |-> id, file |-> Min(Free), vme_list |-> p..(p + m) - 1])
     /\ vm' = insert_vme(p, m, id, f)
     /\ returned' = IF ok THEN id ELSE 0
  /\ UNCHANGED <<slot, next_fd, alive, halted>>

(* mmap enters page after page until the file is covered, and returns -1   *)
(* at the first page that is in use already, with the others entered.      *)
mmap(i, p) ==
  /\ Running /\ process_get_file(i) /\ Free # {} /\ next_mapid < MaxMaps
  /\ LET f     == file[slot[i]]
         id    == next_mapid + 1
         n     == PagesOf(f)
         taken == {k \in 0..n - 1 : find_vme(p + k)}
         m     == IF taken = {} THEN n ELSE Min(taken) IN
     /\ p > 0 /\ p + n <= Pages
     /\ file' = [file EXCEPT ![Min(Free)] = f]
     /\ next_mapid' = id
     /\ mmap_list' = Append(mmap_list, [mapid |-> id, file |-> Min(Free), vme_list |-> p..(p + m) - 1])
     /\ vm' = insert_vme(p, m, id, f)
     /\ returned' = IF taken = {} THEN id ELSE 0
  /\ UNCHANGED <<slot, next_fd, alive, halted>>

-----------------------------------------------------------------------------
(* munmap: every mapping with this id, or all of them; do_munmap takes its *)
(* entries out of the page table, then its file is closed.                 *)
Unmapped(id) == {j \in DOMAIN mmap_list : id = CLOSE_ALL \/ mmap_list[j].mapid = id}
Remaining(id) == SelectSeq(mmap_list, LAMBDA m : ~(id = CLOSE_ALL \/ m.mapid = id))
delete_vme(pages) == [q \in UPage |-> IF q \in pages THEN NoVme ELSE vm[q]]
do_munmap(gone) == delete_vme(UNION {mmap_list[j].vme_list : j \in gone})

munmap(id) ==
  /\ Running
  /\ Unmapped(id) # {}
  /\ vm' = do_munmap(Unmapped(id))
  /\ file' = [x \in Address |-> IF \E j \in Unmapped(id) : mmap_list[j].file = x THEN NULL ELSE file[x]]
  /\ mmap_list' = Remaining(id)
  /\ UNCHANGED <<slot, next_fd, next_mapid, returned, alive, halted>>

(* What process_close_file finds from next_fd - 1 down to 2. *)
Exits == {i \in 2..next_fd - 1 : slot[i] # NULL}

(* process_exit: munmap (CLOSE_ALL), vm_destroy, then process_close_file   *)
(* from next_fd - 1 down to 2; a handler that lies there is no file.  A    *)
(* mmap, read or write of a descriptor that is not open comes here too, by *)
(* the page fault on its null pointer.                                     *)
process_exit ==
  /\ Running
  /\ IF \E i \in Exits : slot[i] = HANDLER
     THEN halted' = "wild" /\ UNCHANGED <<slot, file, mmap_list, vm, alive>>
     ELSE /\ file' = [x \in Address |->
                        IF (\E i \in Exits : slot[i] = x) \/ (\E j \in DOMAIN mmap_list : mmap_list[j].file = x)
                        THEN NULL ELSE file[x]]
          /\ slot' = [i \in DOMAIN slot |-> IF i \in Exits THEN NULL ELSE slot[i]]
          /\ mmap_list' = <<>> /\ vm' = [q \in UPage |-> NoVme] /\ alive' = FALSE
          /\ UNCHANGED halted
  /\ UNCHANGED <<next_fd, next_mapid, returned>>

Next ==
  \/ \E f \in Inode : open(f)
  \/ \E i \in 2..2 * FDS - 1 : close(i) \/ MmapBadAddress(i) \/ WildFile(i)
  \/ \E i \in 0..FDS - 1 : SeekPanic(i)
  \/ \E signum \in Signal : sigaction(signum)
  \/ \E i \in 2..2 * FDS - 1, p \in UPage : mmap(i, p)
  \/ \E id \in 2..MaxMaps \cup {CLOSE_ALL} : munmap(id)
  \/ process_exit

Spec == Init /\ [][Next]_vars

-----------------------------------------------------------------------------
Mappings == ToSet(mmap_list)
InTable == next_fd <= FDS

(* As long as the descriptors fit in the table, every struct file that the *)
(* process refers to is open and has one owner, a descriptor or a mapping: *)
(* it is never used after file_close, nor closed twice, through any order  *)
(* of open, mmap, close and munmap.                                        *)
FilesOwnedOnce ==
  InTable /\ halted = "no" =>
    LET fds == {i \in 2..FDS - 1 : slot[i] # NULL} IN
    /\ \A i \in fds : file[slot[i]] # NULL
    /\ \A m \in Mappings : file[m.file] # NULL
    /\ Cardinality({slot[i] : i \in fds} \cup {m.file : m \in Mappings})
         = Cardinality(fds) + Len(mmap_list)

(* The pages of a mapping are the entries that name it, and a mapping that *)
(* mmap has returned covers its file from the first byte to the last,      *)
(* whatever was mapped, refused and unmapped before it.                    *)
MappingsExact ==
  halted = "no" =>
    /\ \A m \in Mappings : m.vme_list = {q \in UPage : vm[q].map = m.mapid}
    /\ \A m \in Mappings : m.mapid = returned /\ InTable =>
         /\ Cardinality(m.vme_list) = PagesOf(file[m.file])
         /\ MapThenSumSet(LAMBDA q : vm[q].read_bytes, m.vme_list) = Length[file[m.file]]
         /\ \A q \in m.vme_list : vm[q].offset = PGSIZE * (q - Min(m.vme_list))
    /\ alive => \A q \in Segment : vm[q].map = 1

-----------------------------------------------------------------------------
(* What documents, comments and tests say and the code does not keep.      *)

(* The table holds every descriptor that open returns (64 in all); the     *)
(* next one lies in handler[].                                             *)
DescriptorsInTable == \A i \in FDS..2 * FDS - 1 : slot[i] \in {NULL, HANDLER}

(* Overlapping mappings are disallowed: a mmap that is refused for it maps *)
(* nothing.                                                                *)
RefusedMapsNothing ==
  [][next_mapid' # next_mapid /\ returned' = 0 => vm' = vm]_vars

(* process_exit frees the process's resources, its open files among them.  *)
FilesClosedAtExit == ~alive => \A x \in Address : file[x] = NULL

(* munmap unmaps the mapping with the given id and no other.               *)
OneUnmapped ==
  [][alive' /\ mmap_list' # mmap_list => Len(mmap_list') >= Len(mmap_list) - 1]_vars
=============================================================================
