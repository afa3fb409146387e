------------------------------- MODULE Partitions -------------------------------
(***************************************************************************)
(* From disks to the devices the kernel uses: devices/partition.c scans    *)
(* each disk that ide_init finds and registers its partitions with         *)
(* devices/block.c; locate_block_devices of threads/init.c picks the file  *)
(* system, scratch and swap devices; reads and writes then go through the  *)
(* partition to the disk.                                                  *)
(***************************************************************************)
EXTENDS Integers, Sequences

CONSTANTS
  Word,        \* sector numbers are computed modulo Word (2^32)
  Disk,        \* the disks in the order they are probed, a sequence
  Size,        \* of every disk, in sectors
  MBR, EBR,    \* tables that sector 0, and every other sector, may hold; NONE without the signature
  Options,     \* names that -filesys, -scratch and -swap may give, or NONE
  MaxDepth,    \* nested tables that fit on the kernel stack
  NONE

Role == <<"filesys", "scratch", "swap">>

(* Types 0x20 to 0x23 are Pintos partitions; an entry may be empty or     *)
(* point to an extended partition table.                                  *)
block_types == [kernel |-> "kernel", filesys |-> "filesys", scratch |-> "scratch", swap |-> "swap", linux |-> "foreign"]

VARIABLES
  table,      \* on the disks: disk -> sector -> table
  option,     \* role -> name
  all_blocks, \* registered devices in order; a name is a disk and a partition number
  probed,     \* disks that are scanned or being scanned
  part_nr,
  stack,      \* activations of read_partition_table
  block_by_role, located,
  last,       \* the last access: device, its sector, the disk's sector
  halted      \* by a panic

vars == <<table, option, all_blocks, probed, part_nr, stack, block_by_role, located, last, halted>>
scan == <<all_blocks, probed, part_nr, stack>>

Roles == {Role[k] : k \in 1..3}
Blocks == {all_blocks[k] : k \in 1..Len(all_blocks)}

Init ==
  /\ \E f \in [1..Len(Disk) -> MBR], e \in EBR :
       table = [d \in 1..Len(Disk) |-> [s \in 0..Size - 1 |-> IF s = 0 THEN f[d] ELSE e]]
  /\ option \in [Roles -> Options]
  /\ all_blocks = <<>> /\ probed = 0 /\ part_nr = 0 /\ stack = <<>>
  /\ block_by_role = [r \in Roles |-> NONE] /\ located = 0
  /\ last = NONE /\ halted = FALSE

-----------------------------------------------------------------------------
Block(nr, type, start, size) ==
  [name |-> <<Disk[probed'], nr>>, type |-> type, disk |-> probed', start |-> start, size |-> size]

(* A call of read_partition_table.  The table it reads is that of sector 0 *)
(* whatever SECTOR is; without the signature there is nothing to parse.    *)
Activation(d, sector, primary) ==
  [sector |-> sector, primary |-> primary, pt |-> table[d][0], i |-> 1]

(* A sector past the end of the device is not read. *)
read_partition_table(d, stk, sector, primary) ==
  IF sector >= Size \/ table[d][0] = NONE THEN stk
  ELSE Append(stk, Activation(d, sector, primary))

(* identify_ata_device registers the disk and calls partition_scan. *)
partition_scan ==
  /\ ~halted /\ stack = <<>> /\ probed < Len(Disk)
  /\ probed' = probed + 1 /\ part_nr' = 0
  /\ all_blocks' = Append(all_blocks, Block(0, "raw", 0, Size))
  /\ stack' = read_partition_table(probed', stack, 0, 0)
  /\ UNCHANGED <<table, option, block_by_role, located, last, halted>>

Top == stack[Len(stack)]
Entry == Top.pt[Top.i]
Advanced == [stack EXCEPT ![Len(stack)].i = @ + 1]
Parsing == ~halted /\ stack # <<>> /\ Top.i <= Len(Top.pt)
IsEmpty(e) == e.size = 0 \/ e.type = "empty"

EmptyEntry ==
  /\ Parsing /\ IsEmpty(Entry)
  /\ stack' = Advanced
  /\ UNCHANGED <<table, option, all_blocks, probed, part_nr, block_by_role, located, last, halted>>

(* In the master boot record the offset is absolute, elsewhere it is       *)
(* relative to the extended partition.                                     *)
ExtendedEntry ==
  /\ Parsing /\ ~IsEmpty(Entry) /\ Entry.type = "extended" /\ Len(stack) < MaxDepth
  /\ stack' = IF Top.sector = 0
              THEN read_partition_table(probed, Advanced, Entry.offset, Entry.offset)
              ELSE read_partition_table(probed, Advanced, (Entry.offset + Top.primary) % Word, Top.primary)
  /\ UNCHANGED <<table, option, all_blocks, probed, part_nr, block_by_role, located, last, halted>>

(* Faulty variant of Fits: the sum of start and size may wrap. *)
Fits_wrap(start, size) == start < Size /\ (start + size) % Word <= Size

(* found_partition: what reaches past the end of the device is ignored. *)
Fits(start, size) ==
  start < Size /\ (start + size) % Word >= start /\ (start + size) % Word <= Size

found_partition ==
  /\ Parsing /\ ~IsEmpty(Entry) /\ Entry.type # "extended"
  /\ part_nr' = part_nr + 1 /\ UNCHANGED probed
  /\ LET start == (Entry.offset + Top.sector) % Word IN
       all_blocks' = IF Fits(start, Entry.size)
                     THEN Append(all_blocks, Block(part_nr', block_types[Entry.type], start, Entry.size))
                     ELSE all_blocks
  /\ stack' = Advanced
  /\ UNCHANGED <<table, option, block_by_role, located, last, halted>>

TableDone ==
  /\ ~halted /\ stack # <<>> /\ Top.i > Len(Top.pt)
  /\ stack' = SubSeq(stack, 1, Len(stack) - 1)
  /\ UNCHANGED <<table, option, all_blocks, probed, part_nr, block_by_role, located, last, halted>>

-----------------------------------------------------------------------------
(* The first device in probe order that is one of S, or none *)
First(S) ==
  IF S = {} THEN NONE
  ELSE all_blocks[CHOOSE k \in 1..Len(all_blocks) : all_blocks[k] \in S /\ \A j \in 1..k - 1 : all_blocks[j] \notin S]

block_get_by_name(name) == First({b \in Blocks : b.name = name})

FirstOf(role) == First({b \in Blocks : b.type = role})

(* locate_block_devices, one role after the other: a device that is named  *)
(* must exist.                                                             *)
locate_block_device ==
  /\ ~halted /\ probed = Len(Disk) /\ stack = <<>> /\ located < 3
  /\ LET role == Role[located + 1]
         block == IF option[role] # NONE THEN block_get_by_name(option[role]) ELSE FirstOf(role)
     IN /\ halted' = (option[role] # NONE /\ block = NONE)
        /\ block_by_role' = [block_by_role EXCEPT ![role] = block]
  /\ located' = located + 1
  /\ UNCHANGED <<table, option, scan, last>>

-----------------------------------------------------------------------------
check_sector(size, sector) == sector < size

(* block_read and block_write on a device, for a partition through         *)
(* partition_read or partition_write to the disk, which checks again.      *)
Access(b, op, sector) ==
  LET at == (b.start + sector) % Word
      ok == /\ check_sector(b.size, sector) /\ (op = "write" => b.type # "foreign")
            /\ b.type # "raw" => check_sector(Size, at)
  IN /\ halted' = ~ok
     /\ last' = IF ok THEN [op |-> op, block |-> b, sector |-> sector, at |-> at] ELSE last

(* The kernel uses only devices that have a role. *)
BlockIo(r, op, sector) ==
  /\ ~halted /\ located = 3 /\ block_by_role[r] # NONE
  /\ Access(block_by_role[r], op, sector)
  /\ UNCHANGED <<table, option, scan, block_by_role, located>>

Next ==
  \/ partition_scan
  \/ EmptyEntry
  \/ ExtendedEntry
  \/ found_partition
  \/ TableDone
  \/ locate_block_device
  \/ \E r \in Roles, op \in {"read", "write"}, sector \in 0..Word - 1 : BlockIo(r, op, sector)

Spec == Init /\ [][Next]_vars

-----------------------------------------------------------------------------
(* Whatever the tables say, an access reaches the sector the caller means, *)
(* inside its device and inside the disk; foreign partitions are not       *)
(* written (check_sector, found_partition, partition_write).               *)
AccessContained ==
  last # NONE =>
    LET b == last.block IN
    /\ last.at = b.start + last.sector
    /\ last.at < b.start + b.size /\ b.start + b.size <= Size
    /\ last.op = "write" => b.type # "foreign"

(* Each role is played by the device the command line names, or else by    *)
(* one of its own type on the first disk that has one; a name stands for   *)
(* one device only.                                                        *)
RolesRight ==
  /\ \A b, c \in Blocks : b.name = c.name => b = c
  /\ \A r \in Roles : block_by_role[r] # NONE =>
       LET b == block_by_role[r] IN
       IF option[r] # NONE THEN b.name = option[r]
       ELSE b.type = r /\ \A c \in Blocks : c.type = r => b.disk <= c.disk

(* "Reads the partition table in the given SECTOR of BLOCK"                *)
(* (read_partition_table).                                                 *)
TablesRead == \A k \in 1..Len(stack) : stack[k].pt = table[probed][stack[k].sector]
=============================================================================
