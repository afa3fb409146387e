------------------------------- MODULE InodeIo -------------------------------
(***************************************************************************)
(* inode_read_at and inode_write_at of filesys/inode.c, byte by byte, under *)
(* file_read, file_write and file_seek of filesys/file.c.  A transfer is a *)
(* loop over the sectors it touches; parts of a sector go through a bounce *)
(* buffer.  Bytes that were on the disk at first, and those of each        *)
(* buffer, are all different numbers.                                      *)
(***************************************************************************)
EXTENDS Integers, FiniteSets, FiniteSetsExt

CONSTANTS
  BLOCK_SECTOR_SIZE,
  MaxLength,    \* bound: length of the file in bytes
  MaxCalls,     \* bound: number of transfers
  MallocFails   \* TRUE: there may be no memory for the bounce buffer

(* What the instances satisfy. *)
InodeIoAssumption == BLOCK_SECTOR_SIZE \in Nat \ {0} /\ MaxLength \in Nat /\ MaxCalls \in Nat

B == BLOCK_SECTOR_SIZE
(* The file is in sectors 1, 2, ...; sector 0 and the one after it belong  *)
(* to others.                                                              *)
Sectors == (MaxLength + B - 1) \div B
Start == 1
Byte == 0..(Sectors + 2) * B - 1

VARIABLES
  disk,     \* the bytes of the disk
  length,   \* inode->data.length
  deny,     \* inode->deny_write_cnt # 0
  pos,      \* file->pos
  call,     \* "none", "read", "write", and "returned"
  calls,    \* transfers so far
  buffer, size, offset, bytes,   \* locals of the transfer
  bounce,   \* bounce # NULL
  at_call   \* disk, size and offset when the transfer began, and whether it writes

vars == <<disk, length, deny, pos, call, calls, buffer, size, offset, bytes, bounce, at_call>>

Init ==
  /\ disk = [b \in Byte |-> b]
  /\ length \in 0..MaxLength
  /\ deny \in BOOLEAN
  /\ pos \in 0..MaxLength + 1
  /\ call = "none" /\ calls = 0
  /\ buffer = <<>> /\ size = 0 /\ offset = 0 /\ bytes = 0 /\ bounce = FALSE
  /\ at_call = [disk |-> disk, size |-> 0, offset |-> 0, write |-> FALSE]

file_seek(new_pos) ==
  /\ call \in {"none", "returned"} /\ calls < MaxCalls
  /\ pos' = new_pos /\ call' = "none"
  /\ UNCHANGED <<disk, length, deny, calls, buffer, size, offset, bytes, bounce, at_call>>

(* file_read and file_write start at the file's position. *)
Call(n, write) ==
  /\ call = "none" /\ calls < MaxCalls
  /\ call' = (IF write THEN "write" ELSE "read") /\ calls' = calls + 1
  /\ buffer' = [j \in 0..n - 1 |-> IF write THEN 1000 * calls' + j ELSE -1]
  /\ size' = n /\ offset' = pos /\ bytes' = 0 /\ bounce' = FALSE
  /\ at_call' = [disk |-> disk, size |-> n, offset |-> pos, write |-> write]
  /\ UNCHANGED <<disk, length, deny, pos>>

(* byte_to_sector and the amount of the next chunk. *)
byte_to_sector == Start + offset \div B
sector_ofs == offset % B
sector_left == B - sector_ofs
chunk_size == Min({size, length - offset, sector_left})
Base == byte_to_sector * B

Whole == sector_ofs = 0 /\ chunk_size = B
Advance ==
  /\ size' = size - chunk_size /\ offset' = offset + chunk_size /\ bytes' = bytes + chunk_size

ReadChunk ==
  /\ call = "read" /\ size > 0 /\ chunk_size > 0
  /\ buffer' = [j \in DOMAIN buffer |->
                  IF j \in bytes..bytes + chunk_size - 1 THEN disk[Base + sector_ofs + j - bytes] ELSE buffer[j]]
  /\ bounce' = (bounce \/ ~Whole)
  /\ Advance
  /\ UNCHANGED <<disk, length, deny, pos, call, calls, at_call>>

(* Faulty variant of WriteChunk: a part of a sector is written over zeros. *)
WriteChunk_zeros ==
  /\ call = "write" /\ ~deny /\ size > 0 /\ chunk_size > 0
  /\ disk' = [b \in Byte |->
                IF b \in Base + sector_ofs .. Base + sector_ofs + chunk_size - 1
                THEN buffer[bytes + (b - Base - sector_ofs)]
                ELSE IF b \in Base .. Base + B - 1 THEN 0 ELSE disk[b]]
  /\ bounce' = (bounce \/ ~Whole)
  /\ Advance
  /\ UNCHANGED <<length, deny, pos, call, calls, buffer, at_call>>

(* What else is in the sector is read first, unless the chunk reaches from *)
(* its start to its end.                                                   *)
WriteChunk ==
  /\ call = "write" /\ ~deny /\ size > 0 /\ chunk_size > 0
  /\ LET keep == sector_ofs > 0 \/ chunk_size < sector_left IN
     disk' = [b \in Byte |->
                IF b \in Base + sector_ofs .. Base + sector_ofs + chunk_size - 1
                THEN buffer[bytes + (b - Base - sector_ofs)]
                ELSE IF b \in Base .. Base + B - 1 /\ ~keep THEN 0 ELSE disk[b]]
  /\ bounce' = (bounce \/ ~Whole)
  /\ Advance
  /\ UNCHANGED <<length, deny, pos, call, calls, buffer, at_call>>

(* The loop ends, or breaks at the end of the file or without memory for   *)
(* the bounce buffer; the position moves by what was transferred.          *)
Return ==
  /\ call \in {"read", "write"}
  /\ \/ size = 0 \/ chunk_size <= 0 \/ (call = "write" /\ deny)
     \/ MallocFails /\ ~Whole /\ ~bounce
  /\ pos' = pos + bytes /\ call' = "returned"
  /\ UNCHANGED <<disk, length, deny, calls, buffer, size, offset, bytes, bounce, at_call>>

Next ==
  \/ \E p \in 0..MaxLength + 1 : file_seek(p)
  \/ \E n \in 0..MaxLength + 1, write \in BOOLEAN : Call(n, write)
  \/ ReadChunk \/ WriteChunk \/ Return

Spec == Init /\ [][Next]_vars

-----------------------------------------------------------------------------
First == Start * B + at_call.offset

(* What a transfer has done when it returns n bytes, n at most what is     *)
(* there: a write has put the first n bytes of the buffer at the position  *)
(* and changed no other byte, of the file or of its neighbours on the      *)
(* disk; a read has filled the first n bytes of the buffer with the file's *)
(* and no more, and changed nothing.  (inode_read_at, inode_write_at)      *)
TransferExact ==
  call = "returned" =>
    /\ \A b \in Byte :
         disk[b] = IF at_call.write /\ b \in First .. First + bytes - 1
                   THEN buffer[b - First] ELSE at_call.disk[b]
    /\ ~at_call.write =>
         \A j \in DOMAIN buffer : buffer[j] = IF j < bytes THEN at_call.disk[First + j] ELSE -1

(* All that the file has at the position is transferred, unless writing is *)
(* denied or memory runs out, and the position is after it.                *)
TransferComplete ==
  call = "returned" =>
    /\ pos = at_call.offset + bytes
    /\ ~MallocFails => bytes = IF at_call.write /\ deny THEN 0
                               ELSE Max({0, Min({at_call.size, length - at_call.offset})})
=============================================================================
