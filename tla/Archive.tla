--------------------------------- MODULE Archive ---------------------------------
(***************************************************************************)
(* filesys/fsutil.c and lib/ustar.c: files are extracted from an archive   *)
(* on the scratch device, and appended to one there, sector by sector.     *)
(* Names are sequences of characters, and files sequences of bytes.        *)
(***************************************************************************)
EXTENDS Integers, Sequences, SequencesExt

CONSTANTS
  Sectors,      \* of the scratch device
  SectorSize,   \* BLOCK_SECTOR_SIZE
  Digits,       \* octal digits of a size (11)
  Names,        \* names of files
  NameLen,      \* characters of a name in a header (99)
  Contents,     \* contents of files
  HostArchives, \* archives that the host may have put, sequences of entries
  MaxBoots,
  NONE

VARIABLES
  scratch,      \* sector -> header or bytes
  files,        \* name -> bytes or NONE
  extract_sector, append_sector,     \* the two static variables
  op, name, rest,  \* what goes on, for which file, and the bytes left of it
  panicked, boots,
  archive,      \* the entries that the archive on the device should have
  before        \* the files when an extraction began

dev == <<scratch, extract_sector, append_sector>>
vars == <<dev, files, op, name, rest, panicked, boots, archive, before>>

-----------------------------------------------------------------------------
Zeros == [bytes |-> [k \in 1..SectorSize |-> 0]]
is_all_zeros(block) == block = Zeros

(* "%011o", and its parsing up to the byte after the digits *)
Octal(n) == [k \in 1..Digits |-> (n \div 8^(Digits - k)) % 8]
parse_octal_field(digits) == FoldLeft(LAMBDA v, c : 8 * v + c, 0, digits)

StartsWith(s, p) == Len(s) >= Len(p) /\ SubSeq(s, 1, Len(p)) = p

(* Names that are stripped of one prefix *)
Stripped(s) ==
  StartsWith(s, <<"/">>) \/ StartsWith(s, <<".", "/">>) \/ StartsWith(s, <<".", ".", "/">>)

strip_antisocial_prefixes(s) ==
  LET after[n \in 0..Len(s)] ==
        LET t == SubSeq(s, Len(s) - n + 1, Len(s))
        IN IF Stripped(t) THEN after[n - SelectInSeq(t, LAMBDA c : c = "/")] ELSE t
      r == after[Len(s)]
  IN IF r = <<>> \/ r = <<".", ".">> THEN <<".">> ELSE r

ustar_make_header(n, type, size) ==
  [name |-> strip_antisocial_prefixes(n), type |-> type, size |-> Octal(size)]

(* A sector of file data is no header, unless it is the end marker. *)
IsHeader(block) == "name" \in DOMAIN block

-----------------------------------------------------------------------------
Chunks(bytes) == (Len(bytes) + SectorSize - 1) \div SectorSize
Sector(bytes) == [bytes |-> [k \in 1..SectorSize |-> IF k <= Len(bytes) THEN bytes[k] ELSE 0]]
Chunk(bytes) == SubSeq(bytes, 1, IF Len(bytes) > SectorSize THEN SectorSize ELSE Len(bytes))
Drop(bytes) == SubSeq(bytes, Len(Chunk(bytes)) + 1, Len(bytes))

(* An archive as the host writes it (external) *)
Layout(entries) ==
  FlattenSeq([k \in DOMAIN entries |->
    <<[name |-> entries[k].name, type |-> entries[k].type, size |-> Octal(Len(entries[k].bytes))]>>
      \o [j \in 1..Chunks(entries[k].bytes) |-> Sector(SubSeq(entries[k].bytes, (j - 1) * SectorSize + 1,
                                     IF j * SectorSize < Len(entries[k].bytes) THEN j * SectorSize ELSE Len(entries[k].bytes)))]])

OnDevice(blocks) == [k \in 0..(Sectors - 1) |-> IF k < Len(blocks) THEN blocks[k + 1] ELSE Zeros]

Init ==
  /\ archive \in HostArchives /\ scratch = OnDevice(Layout(archive))
  /\ files \in [Names -> Contents \cup {NONE}]
  /\ extract_sector = 0 /\ append_sector = 0 /\ op = "none" /\ name = NONE /\ rest = <<>>
  /\ panicked = FALSE /\ boots = 0 /\ before = files

Panic == panicked' = TRUE /\ op' = "panic"

(* filesys_create and filesys_open succeed on a new name, with room for it. *)
ReadHeader ==
  LET block == scratch[extract_sector]
      n == strip_antisocial_prefixes(block.name)
  IN /\ op = "extract" /\ extract_sector' = extract_sector + 1
     /\ IF is_all_zeros(block)
        THEN /\ op' = "erase" /\ UNCHANGED <<files, name, rest, panicked>>
        ELSE IF ~IsHeader(block) \/ (block.type = "file" /\ files[n] # NONE)
        THEN Panic /\ UNCHANGED <<files, name, rest>>
        ELSE IF block.type = "dir" THEN UNCHANGED <<op, files, name, rest, panicked>>
        ELSE /\ op' = "copy_in" /\ name' = n /\ files' = [files EXCEPT ![n] = <<>>]
             /\ rest' = [k \in 1..parse_octal_field(block.size) |-> 0]
             /\ UNCHANGED panicked
     /\ UNCHANGED <<scratch, append_sector, boots, archive, before>>

CopyIn ==
  /\ op = "copy_in"
  /\ IF rest = <<>> THEN op' = "extract" /\ UNCHANGED <<files, rest, extract_sector>>
     ELSE /\ files' = [files EXCEPT ![name] = @ \o SubSeq(scratch[extract_sector].bytes, 1, Len(Chunk(rest)))]
          /\ rest' = Drop(rest) /\ extract_sector' = extract_sector + 1 /\ UNCHANGED op
  /\ UNCHANGED <<scratch, append_sector, name, panicked, boots, archive, before>>

Erase ==
  /\ op = "erase" /\ op' = "none" /\ scratch' = [scratch EXCEPT ![0] = Zeros, ![1] = Zeros]
  /\ archive' = <<>>
  /\ UNCHANGED <<extract_sector, append_sector, files, name, rest, panicked, boots, before>>

(* "extract" is done once in a boot, and "should precede all `append's". *)
fsutil_extract ==
  /\ op = "none" /\ extract_sector = 0 /\ append_sector = 0 /\ op' = "extract" /\ before' = files
  /\ UNCHANGED <<dev, files, name, rest, panicked, boots, archive>>

(* "append": the header; there must be such a file, and room for it. *)
fsutil_append(n) ==
  /\ op = "none"
  /\ IF files[n] = NONE \/ Len(strip_antisocial_prefixes(n)) > NameLen \/ append_sector >= Sectors
     THEN Panic /\ UNCHANGED <<scratch, append_sector, name, rest, archive>>
     ELSE /\ scratch' = [scratch EXCEPT ![append_sector] = ustar_make_header(n, "file", Len(files[n]))]
          /\ append_sector' = append_sector + 1
          /\ op' = "copy_out" /\ name' = n /\ rest' = files[n]
          /\ archive' = Append(IF append_sector = 0 THEN <<>> ELSE archive,
                               [name |-> n, type |-> "file", bytes |-> files[n]])
          /\ UNCHANGED panicked
  /\ UNCHANGED <<extract_sector, files, boots, before>>

CopyOut ==
  /\ op = "copy_out" /\ rest # <<>>
  /\ IF append_sector >= Sectors THEN Panic /\ UNCHANGED <<scratch, append_sector, rest>>
     ELSE /\ scratch' = [scratch EXCEPT ![append_sector] = Sector(Chunk(rest))]
          /\ append_sector' = append_sector + 1 /\ rest' = Drop(rest) /\ UNCHANGED <<op, panicked>>
  /\ UNCHANGED <<extract_sector, files, name, boots, archive, before>>

(* Faulty variant of AppendEnd: the position moves past the marker. *)
AppendEnd_past ==
  /\ op = "copy_out" /\ rest = <<>>
  /\ IF append_sector + 1 >= Sectors THEN Panic /\ UNCHANGED <<scratch, append_sector>>
     ELSE /\ scratch' = [scratch EXCEPT ![append_sector] = Zeros, ![append_sector + 1] = Zeros]
          /\ append_sector' = append_sector + 2 /\ op' = "none" /\ UNCHANGED panicked
  /\ UNCHANGED <<extract_sector, files, name, rest, boots, archive, before>>

(* The end marker; block_write panics behind the end of the device. *)
AppendEnd ==
  /\ op = "copy_out" /\ rest = <<>>
  /\ IF append_sector + 1 >= Sectors
     THEN /\ Panic /\ UNCHANGED append_sector
          /\ scratch' = IF append_sector < Sectors THEN [scratch EXCEPT ![append_sector] = Zeros] ELSE scratch
     ELSE /\ scratch' = [scratch EXCEPT ![append_sector] = Zeros, ![append_sector + 1] = Zeros]
          /\ op' = "none" /\ UNCHANGED <<append_sector, panicked>>
  /\ UNCHANGED <<extract_sector, files, name, rest, boots, archive, before>>

(* Another boot, with the file system formatted or not *)
Boot(format) ==
  /\ op = "none" /\ boots < MaxBoots /\ boots' = boots + 1
  /\ files' = IF format THEN [n \in Names |-> NONE] ELSE files
  /\ extract_sector' = 0 /\ append_sector' = 0
  /\ UNCHANGED <<scratch, op, name, rest, panicked, archive, before>>

Next ==
  \/ fsutil_extract \/ ReadHeader \/ CopyIn \/ Erase
  \/ (\E n \in Names : fsutil_append(n)) \/ CopyOut \/ AppendEnd
  \/ \E format \in BOOLEAN : Boot(format)

Spec == Init /\ [][Next]_vars

-----------------------------------------------------------------------------
RegularNames == {strip_antisocial_prefixes(archive[k].name) : k \in {j \in DOMAIN archive : archive[j].type = "file"}}
Entry(n) == LET k == CHOOSE j \in DOMAIN archive : archive[j].type = "file" /\ strip_antisocial_prefixes(archive[j].name) = n
            IN archive[k].bytes

(* An extraction that ends has added every regular file of the archive,    *)
(* whether the host made it or fsutil_append, byte for byte, and nothing   *)
(* else (fsutil_extract, fsutil_append: "Don't advance our position past   *)
(* them, though, in case we have more files to append").                   *)
ExtractExact ==
  op = "erase" =>
    \A n \in Names : files[n] = IF n \in RegularNames THEN Entry(n) ELSE before[n]

(* "so that the extraction operation is idempotent" (fsutil_extract):      *)
(* one that finds nothing that was put or appended since the last one      *)
(* ends, instead of meeting the same files again.                          *)
EndsWhenEmpty == (op = "extract" /\ panicked') => archive # <<>>
ExtractIdempotent == [][EndsWhenEmpty]_vars

(* "An archive with file names that start with "/" or "../" could cause a  *)
(* naive tar extractor to write to arbitrary parts of the file system"     *)
(* (strip_antisocial_prefixes): no header that is written has such a name. *)
NamesStripped ==
  \A k \in DOMAIN scratch : IsHeader(scratch[k]) =>
    LET s == scratch[k].name
    IN ~Stripped(s) /\ s # <<".", ".">> /\ s # <<>>
=============================================================================
