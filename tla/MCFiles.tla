-------------------------------- MODULE MCFiles --------------------------------
(***************************************************************************)
(* Programs and their files: the life of processes (Process), loading      *)
(* (Loader), system calls (UserCalls), the files and mappings of a process *)
(* (UserFiles), the file system (Filesys, in two settings), the transfer   *)
(* of bytes (InodeIo, in two settings), the archive on the scratch device  *)
(* (Archive, in two settings) and the partitions of disks (Partitions).    *)
(* The components share no variable.  A behaviour is one of them; the      *)
(* variables of the others stay at 0, and those of Process at their first  *)
(* values.  Process has the initial thread and three processes, created at *)
(* any time after each other, so that there are grandchildren and freed    *)
(* pages are used again.                                                   *)
(***************************************************************************)
EXTENDS Process, Sequences, TLC

CONSTANTS page_a, page_b, page_c, user_thread, name_a, name_b, long, file_e, file_f, file_g

VARIABLES
  part,
  disk, free_map, inode, file, lock, fs_pc, reg,
  bytes_on_disk, length, deny, pos, call, calls, buffer, size, offset, bytes, bounce, at_call,
  slot, next_fd, open_file, mmap_list, next_mapid, vm, returned, alive, halted,
  scratch, files, extract_sector, append_sector, op, name, rest, panicked, boots, archive, before,
  at, esp, word, areas, arg, called,
  phdrs, file_length, words, i, segment, pages, sp, mem, address, load_pc,
  table, option, all_blocks, probed, part_nr, stack, block_by_role, located, last, par_halted

fsVars == <<disk, free_map, inode, file, lock, fs_pc, reg>>
ioVars == <<bytes_on_disk, length, deny, pos, call, calls, buffer, size, offset, bytes, bounce, at_call>>
ufVars == <<slot, next_fd, open_file, mmap_list, next_mapid, vm, returned, alive, halted>>
arVars == <<scratch, files, extract_sector, append_sector, op, name, rest, panicked, boots, archive, before>>
ucVars == <<at, esp, word, areas, arg, called>>
ldVars == <<phdrs, file_length, words, i, segment, pages, sp, mem, address, load_pc>>
parVars == <<table, option, all_blocks, probed, part_nr, stack, block_by_role, located, last, par_halted>>
allVars == <<part, vars, fsVars, ioVars, ufVars, arVars, ucVars, ldVars, parVars>>

-----------------------------------------------------------------------------
AnyCall == [x \in {user_thread} |-> {"create", "open", "remove", "load"}]
RunsA == [x \in {user_thread} |-> name_a]
RunsLong == [x \in {user_thread} |-> long]

(* Two names, room for two files of a sector each, and a restart anywhere. *)
Two == INSTANCE Filesys WITH
  Thread <- {user_thread}, Calls <- AnyCall, Name <- {name_a, name_b}, Invalid <- {}, Program <- RunsLong, Lengths <- {1},
  Val <- {0, 1}, Sectors <- 8, Entries <- 2, Inode <- 1..3, Handle <- {1}, MallocFails <- FALSE, pc <- fs_pc

(* A name that is too long, a full directory and disk, and no memory. *)
Full == INSTANCE Filesys WITH
  Thread <- {user_thread}, Calls <- AnyCall, Name <- {name_a, long}, Invalid <- {long}, Program <- RunsA, Lengths <- {0, 1},
  Val <- {0, 1}, Sectors <- 7, Entries <- 1, Inode <- 1..4, Handle <- {1, 2}, MallocFails <- TRUE, pc <- fs_pc

(* One transfer in a file of up to three sectors. *)
Once == INSTANCE InodeIo WITH
  BLOCK_SECTOR_SIZE <- 3, MaxLength <- 7, MaxCalls <- 1, MallocFails <- FALSE, disk <- bytes_on_disk

(* Two transfers, with no memory for the bounce buffer. *)
Twice == INSTANCE InodeIo WITH
  BLOCK_SECTOR_SIZE <- 2, MaxLength <- 4, MaxCalls <- 2, MallocFails <- TRUE, disk <- bytes_on_disk

FileLength == [x \in {file_e, file_f, file_g} |-> IF x = file_e THEN 0 ELSE IF x = file_f THEN 3 ELSE 4]

(* Four descriptors, six pages of two bytes, files of zero to two pages. *)
Descriptors == INSTANCE UserFiles WITH
  FDS <- 4, Inode <- {file_e, file_f, file_g}, Length <- FileLength, PGSIZE <- 2, Signal <- {0}, Pages <- 6,
  Segment <- {3}, CLOSE_ALL <- 99, Address <- 1..4, MaxMaps <- 3, MaxFd <- 4, file <- open_file

Regular(n, c) == [name |-> n, type |-> "file", bytes |-> c]
Directory(n) == [name |-> n, type |-> "dir", bytes |-> <<>>]
PlainNames == {<<"a">>, <<"b">>}
PlainContents == {<<>>, <<1>>, <<0, 0>>, <<1, 0, 1>>}
PlainHost ==
  {<<>>, <<Regular(<<"a">>, <<1, 0, 1>>)>>,
   <<Directory(<<"a">>), Regular(<<"/", "b">>, <<>>), Regular(<<"a">>, <<0, 0>>)>>}
PrefixNames == {<<"a">>, <<".", ".", "/", "a">>, <<"/", ".", "/", "a">>, <<".", ".", "/">>, <<".">>}

(* Archives of the host and appended files, over two boots. *)
Plain == INSTANCE Archive WITH
  Sectors <- 7, SectorSize <- 2, Digits <- 2, NameLen <- 4, MaxBoots <- 2,
  Names <- PlainNames, Contents <- PlainContents, HostArchives <- PlainHost, NONE <- NULL

(* File names with several prefixes. *)
Prefixed == INSTANCE Archive WITH
  Sectors <- 7, SectorSize <- 2, Digits <- 2, NameLen <- 4, MaxBoots <- 1,
  Names <- PrefixNames, Contents <- {<<1>>}, HostArchives <- {<<>>}, NONE <- NULL

(* Words of two bytes, three pages for the program. *)
Calls == INSTANCE UserCalls WITH
  WORD <- 2, PGSIZE <- 8, LOW <- 8, PHYS_BASE <- 32, Top <- 33, Arg <- {0, 9, 17}, Esp <- {0, 23, 32},
  pc <- at, vm <- areas

(* Headers with values around every bound that validate_segment checks;    *)
(* pages of 32 bytes and addresses of eight bits.                          *)
Phdr(type, ofs, vaddr, filesz, memsz, writable) ==
  [type |-> type, offset |-> ofs, vaddr |-> vaddr, filesz |-> filesz, memsz |-> memsz, writable |-> writable]
FirstHeader ==
  {Phdr("load", o, v, m, n, FALSE) : o \in {0, 5, 32, 37}, v \in {0, 5, 32, 37, 63, 160, 165, 191, 192, 250},
                                     m \in {0, 1, 27, 64}, n \in {0, 1, 26, 27, 59, 64, 155, 220, 251}}
SecondHeader ==
  {Phdr("load", 5, 101, 3, 40, TRUE), Phdr("ignored", 0, 0, 0, 0, FALSE), Phdr("refused", 0, 0, 0, 0, FALSE)}
Programs == {<<x, y>> : x \in FirstHeader, y \in SecondHeader}
Lines == {<<<<65>>>>, <<<<65, 66>>>>, <<<<65, 66, 67>>, <<68>>>>}
Load == INSTANCE Loader WITH
  PGSIZE <- 32, PHYS_BASE <- 192, Word <- 256, Lengths <- {36, 100}, Images <- Programs, CommandLines <- Lines,
  NONE <- NULL, length <- file_length, vm <- pages, esp <- sp, pc <- load_pc

E(t, o, n) == [type |-> t, offset |-> o, size |-> n]
Disks == <<"hda", "hdb">>
MBRs ==
  { NULL,
    <<E("filesys", 1, 2), E("swap", 3, 2)>>,
    <<E("linux", 1, 2), E("filesys", 3, 3)>>,
    <<E("kernel", 1, 1), E("extended", 2, 3)>>,
    <<E("extended", 4, 2), E("scratch", 2, 3)>>,
    <<E("empty", 0, 0), E("swap", 5, 1)>>,
    <<E("scratch", 3, 6), E("filesys", 7, 1)>> }
EBRs == { NULL, <<E("swap", 1, 1), E("empty", 0, 0)>> }
DiskOptions == { NULL, <<"hda", 2>>, <<"hdb", 0>> }

(* Two disks of six sectors, with sector numbers of three bits. *)
Blocks == INSTANCE Partitions WITH
  Word <- 8, Disk <- Disks, Size <- 6, MBR <- MBRs, EBR <- EBRs, Options <- DiskOptions, MaxDepth <- 3,
  NONE <- NULL, halted <- par_halted

ASSUME
  /\ ProcessAssumption
  /\ Two!FilesysAssumption /\ Full!FilesysAssumption /\ Once!InodeIoAssumption /\ Twice!InodeIoAssumption
  /\ Descriptors!UserFilesAssumption /\ Calls!UserCallsAssumption

-----------------------------------------------------------------------------
FsOff == disk = 0 /\ free_map = 0 /\ inode = 0 /\ file = 0 /\ lock = 0 /\ fs_pc = 0 /\ reg = 0
IoOff ==
  /\ bytes_on_disk = 0 /\ length = 0 /\ deny = 0 /\ pos = 0 /\ call = 0 /\ calls = 0 /\ buffer = 0
  /\ size = 0 /\ offset = 0 /\ bytes = 0 /\ bounce = 0 /\ at_call = 0
UfOff ==
  /\ slot = 0 /\ next_fd = 0 /\ open_file = 0 /\ mmap_list = 0 /\ next_mapid = 0
  /\ vm = 0 /\ returned = 0 /\ alive = 0 /\ halted = 0
ArOff ==
  /\ scratch = 0 /\ files = 0 /\ extract_sector = 0 /\ append_sector = 0 /\ op = 0 /\ name = 0
  /\ rest = 0 /\ panicked = 0 /\ boots = 0 /\ archive = 0 /\ before = 0

UcOff == at = 0 /\ esp = 0 /\ word = 0 /\ areas = 0 /\ arg = 0 /\ called = 0
LdOff ==
  /\ phdrs = 0 /\ file_length = 0 /\ words = 0 /\ i = 0 /\ segment = 0 /\ pages = 0 /\ sp = 0
  /\ mem = 0 /\ address = 0 /\ load_pc = 0

ParOff ==
  /\ table = 0 /\ option = 0 /\ all_blocks = 0 /\ probed = 0 /\ part_nr = 0 /\ stack = 0
  /\ block_by_role = 0 /\ located = 0 /\ last = 0 /\ par_halted = 0

MCInit ==
  /\ Init
  /\ \/ part = "life" /\ FsOff /\ IoOff /\ UfOff /\ ArOff /\ UcOff /\ LdOff /\ ParOff
     \/ part = "two" /\ Two!Init /\ IoOff /\ UfOff /\ ArOff /\ UcOff /\ LdOff /\ ParOff
     \/ part = "full" /\ Full!Init /\ IoOff /\ UfOff /\ ArOff /\ UcOff /\ LdOff /\ ParOff
     \/ part = "once" /\ Once!Init /\ FsOff /\ UfOff /\ ArOff /\ UcOff /\ LdOff /\ ParOff
     \/ part = "twice" /\ Twice!Init /\ FsOff /\ UfOff /\ ArOff /\ UcOff /\ LdOff /\ ParOff
     \/ part = "user" /\ Descriptors!Init /\ FsOff /\ IoOff /\ ArOff /\ UcOff /\ LdOff /\ ParOff
     \/ part = "plain" /\ Plain!Init /\ FsOff /\ IoOff /\ UfOff /\ UcOff /\ LdOff /\ ParOff
     \/ part = "prefixed" /\ Prefixed!Init /\ FsOff /\ IoOff /\ UfOff /\ UcOff /\ LdOff /\ ParOff
     \/ part = "calls" /\ Calls!Init /\ FsOff /\ IoOff /\ UfOff /\ ArOff /\ LdOff /\ ParOff
     \/ part = "load" /\ Load!Init /\ FsOff /\ IoOff /\ UfOff /\ ArOff /\ UcOff /\ ParOff
     \/ part = "partitions" /\ Blocks!Init /\ FsOff /\ IoOff /\ UfOff /\ ArOff /\ UcOff /\ LdOff

MCNext ==
  \/ part = "life" /\ Next /\ UNCHANGED <<part, fsVars, ioVars, ufVars, arVars, ucVars, ldVars, parVars>>
  \/ part = "two" /\ Two!Next /\ UNCHANGED <<part, vars, ioVars, ufVars, arVars, ucVars, ldVars, parVars>>
  \/ part = "full" /\ Full!Next /\ UNCHANGED <<part, vars, ioVars, ufVars, arVars, ucVars, ldVars, parVars>>
  \/ part = "once" /\ Once!Next /\ UNCHANGED <<part, vars, fsVars, ufVars, arVars, ucVars, ldVars, parVars>>
  \/ part = "twice" /\ Twice!Next /\ UNCHANGED <<part, vars, fsVars, ufVars, arVars, ucVars, ldVars, parVars>>
  \/ part = "user" /\ Descriptors!Next /\ UNCHANGED <<part, vars, fsVars, ioVars, arVars, ucVars, ldVars, parVars>>
  \/ part = "plain" /\ Plain!Next /\ UNCHANGED <<part, vars, fsVars, ioVars, ufVars, ucVars, ldVars, parVars>>
  \/ part = "prefixed" /\ Prefixed!Next /\ UNCHANGED <<part, vars, fsVars, ioVars, ufVars, ucVars, ldVars, parVars>>
  \/ part = "calls" /\ Calls!Next /\ UNCHANGED <<part, vars, fsVars, ioVars, ufVars, arVars, ldVars, parVars>>
  \/ part = "load" /\ Load!Next /\ UNCHANGED <<part, vars, fsVars, ioVars, ufVars, arVars, ucVars, parVars>>
  \/ part = "partitions" /\ Blocks!Next /\ UNCHANGED <<part, vars, fsVars, ioVars, ufVars, arVars, ucVars, ldVars>>

MCSpec == MCInit /\ [][MCNext]_allVars

(* Pages other than the initial thread's are interchangeable. *)
Symmetric == Permutations({page_a, page_b, page_c})

-----------------------------------------------------------------------------
(* The file system implements FileStore: files do not run into each other, *)
(* a removed file lives as long as it is open, a write goes to the file of *)
(* the handle, and a restart at any step keeps names and contents          *)
(* (Filesys).                                                              *)
ImplementsStore ==
  /\ part = "two" => Two!Store!Init
  /\ [][part = "two" => Two!Store!Next \/ UNCHANGED Two!Store!vars]_allVars

(* What is on the disk is a file system at every step, and so after every  *)
(* restart, and every inode in memory counts its users and those who deny  *)
(* writing (Filesys).                                                      *)
FilesystemConsistent ==
  /\ part = "two" => Two!DiskConsistent /\ Two!InodesCounted
  /\ part = "full" => Full!DiskConsistent /\ Full!InodesCounted

(* While writing is denied, the data of a file stays as it is (Filesys). *)
DeniedNotWritten == [][part = "full" => Full!DeniedKept]_allVars

(* A transfer changes the bytes it reports and no other, in the buffer and *)
(* on the disk; it moves all that the file has at the position, and leaves *)
(* the position after it (InodeIo).                                        *)
TransferExact ==
  /\ part = "once" => Once!TransferExact /\ Once!TransferComplete
  /\ part = "twice" => Twice!TransferExact /\ Twice!TransferComplete

(* Every struct file of a process is open and has one owner, a descriptor  *)
(* or a mapping; the pages of a mapping are the entries that name it, and  *)
(* cover its file (UserFiles).                                             *)
FilesOwned == part = "user" => Descriptors!FilesOwnedOnce /\ Descriptors!MappingsExact

(* An extraction adds every regular file of the archive, byte for byte,    *)
(* and nothing else, and ends at once if nothing was put or appended since *)
(* the last one; no header is written whose name has an antisocial prefix  *)
(* (Archive).                                                              *)
ArchiveExact ==
  /\ [](part = "plain" => Plain!ExtractExact)
  /\ [](part = "prefixed" => Prefixed!NamesStripped)
  /\ [][part = "plain" => Plain!EndsWhenEmpty]_allVars

(* The handler works with the call and the arguments that the program gave *)
(* to the stub; read and write go to work on a buffer exactly if every     *)
(* byte of it is the program's, and writable for read (UserCalls).         *)
CallsChecked == part = "calls" => Calls!ArgumentsDelivered /\ Calls!BuffersChecked

(* No entry is made for page 0 or for a page of the kernel, every byte of  *)
(* a segment that shares no page with an earlier one comes from its place  *)
(* in the file, or is zero after the data, and main finds its words on an  *)
(* aligned stack (Loader).                                                 *)
ImageExact == part = "load" => Load!ImageInUserSpace /\ Load!ImageExact /\ Load!ArgumentsReadable

(* An access reaches the sector the caller means, inside its device.  Each *)
(* role is played by the device that the command line names, or by the     *)
(* first of its type (Partitions).                                         *)
PartitionsExact == part = "partitions" => Blocks!AccessContained /\ Blocks!RolesRight
=============================================================================
