--------------------------------- MODULE Loader ---------------------------------
(***************************************************************************)
(* The program image that load of userprog/process.c makes from the        *)
(* program headers of an executable, and the arguments that start_process  *)
(* puts on its stack.  Nothing is read yet: load_segment makes vm_entries  *)
(* from which page faults read later.  Locking is in Process.              *)
(***************************************************************************)
EXTENDS Integers, Sequences, SequencesExt

CONSTANTS
  PGSIZE, PHYS_BASE,
  Word,        \* addresses and sizes are computed modulo Word (2^32)
  Lengths,     \* of the file
  Images,      \* sequences of program headers
  CommandLines,\* sequences of words; a word is a sequence of character codes
  NONE

VARIABLES
  phdrs, length, words,
  i,           \* program headers done
  segment,     \* locals of load_segment, or NONE
  vm,          \* page -> vm_entry, or NONE
  esp, mem,    \* the stack; a 4-byte number is at its lowest address
  address,     \* of the words, the last ones first known
  pc           \* headers, args, run or failed

image == <<phdrs, length, words>>
stack == <<esp, mem, address>>
vars == <<image, i, segment, vm, stack, pc>>

UserPages == 0..(PHYS_BASE \div PGSIZE) - 1
pg_ofs(a) == a % PGSIZE
pg_round_down(a) == a - pg_ofs(a)
ROUND_UP(x) == (((x + PGSIZE - 1) % Word) \div PGSIZE) * PGSIZE
is_user_vaddr(a) == a < PHYS_BASE

Init ==
  /\ phdrs \in Images /\ length \in Lengths /\ words \in CommandLines
  /\ i = 0 /\ segment = NONE
  /\ vm = [p \in 0..(Word \div PGSIZE) - 1 |-> NONE]
  /\ esp = PHYS_BASE /\ mem = [a \in PHYS_BASE - PGSIZE..PHYS_BASE - 1 |-> 0] /\ address = <<>>
  /\ pc = "headers"

-----------------------------------------------------------------------------
(* Faulty variant of validate_segment: no check for wrapping around. *)
validate_segment_wrap(h) ==
  /\ pg_ofs(h.offset) = pg_ofs(h.vaddr) /\ h.offset <= length
  /\ h.memsz >= h.filesz /\ h.memsz # 0
  /\ is_user_vaddr(h.vaddr) /\ is_user_vaddr((h.vaddr + h.memsz) % Word)
  /\ h.vaddr >= PGSIZE

validate_segment(h) ==
  /\ pg_ofs(h.offset) = pg_ofs(h.vaddr) /\ h.offset <= length
  /\ h.memsz >= h.filesz /\ h.memsz # 0
  /\ is_user_vaddr(h.vaddr) /\ is_user_vaddr((h.vaddr + h.memsz) % Word)
  /\ (h.vaddr + h.memsz) % Word >= h.vaddr
  /\ h.vaddr >= PGSIZE

(* How load calls load_segment: a segment without data reads nothing, one  *)
(* with data is read from the start of its first page.                     *)
Segment(h) ==
  LET read == IF h.filesz > 0 THEN (pg_ofs(h.vaddr) + h.filesz) % Word ELSE 0
  IN [ofs |-> pg_round_down(h.offset), upage |-> pg_round_down(h.vaddr), read |-> read,
      zero |-> (ROUND_UP((pg_ofs(h.vaddr) + h.memsz) % Word) - read) % Word, writable |-> h.writable]

(* The loop of load_segment runs while a byte is left. *)
Loop(s) == IF s.read > 0 \/ s.zero > 0 THEN s ELSE NONE

Header ==
  /\ pc = "headers" /\ segment = NONE /\ i < Len(phdrs) /\ i' = i + 1
  /\ LET h == phdrs[i + 1] IN
     \/ h.type = "ignored" /\ UNCHANGED <<segment, pc>>
     \/ h.type = "refused" /\ pc' = "failed" /\ UNCHANGED segment
     \/ /\ h.type = "load"
        /\ IF validate_segment(h) THEN segment' = Loop(Segment(h)) /\ UNCHANGED pc
           ELSE pc' = "failed" /\ UNCHANGED segment
  /\ UNCHANGED <<image, vm, stack>>

(* insert_vme; its result is not looked at, and a page that has an entry   *)
(* keeps it.                                                               *)
insert_vme(p, vme) == IF vm[p] = NONE THEN [vm EXCEPT ![p] = vme] ELSE vm

Zeros(read) == PGSIZE - read

(* One page of load_segment. *)
load_segment ==
  /\ pc = "headers" /\ segment # NONE
  /\ LET s == segment
         read == IF s.read < PGSIZE THEN s.read ELSE PGSIZE
         zero == Zeros(read)
         rest == [s EXCEPT !.read = @ - read, !.zero = (@ - zero) % Word,
                           !.ofs = @ + read, !.upage = (@ + PGSIZE) % Word]
     IN /\ vm' = insert_vme(s.upage \div PGSIZE,
                   [type |-> "bin", ofs |-> s.ofs, read |-> read, zero |-> zero, writable |-> s.writable])
        /\ segment' = Loop(rest)
  /\ UNCHANGED <<image, i, stack, pc>>

(* setup_stack: a zeroed page at the top; it succeeds also if the page has *)
(* an entry already.                                                       *)
setup_stack ==
  /\ pc = "headers" /\ segment = NONE /\ i = Len(phdrs)
  /\ vm' = insert_vme((PHYS_BASE \div PGSIZE) - 1,
             [type |-> "anon", ofs |-> 0, read |-> 0, zero |-> PGSIZE, writable |-> TRUE])
  /\ pc' = "args"
  /\ UNCHANGED <<image, i, segment, stack>>

-----------------------------------------------------------------------------
Stored(m, a, s) == [b \in DOMAIN m |-> IF b \in a..a + Len(s) - 1 THEN s[b - a + 1] ELSE m[b]]
Number(n) == <<n, 0, 0, 0>>

(* argument_stack: the words, last one first, each with its null byte. *)
PushWord ==
  /\ pc = "args" /\ Len(address) < Len(words)
  /\ LET w == words[Len(words) - Len(address)] IN
     /\ esp' = esp - Len(w) - 1
     /\ mem' = Stored(mem, esp', Append(w, 0))
     /\ address' = <<esp'>> \o address
  /\ UNCHANGED <<image, i, segment, vm, pc>>

Padding(total) == (4 - (total % 4)) % 4

(* Then padding, a null pointer, the addresses of the words, the address   *)
(* of the first of these, their number, and a return address.              *)
PushPointers ==
  /\ pc = "args" /\ Len(address) = Len(words)
  /\ LET total == PHYS_BASE - esp
         argv == esp - Padding(total) - 4 * (Len(words) + 1)
         numbers == <<0, Len(words), argv>> \o address \o <<0>>
     IN /\ esp' = argv - 12
        /\ mem' = Stored(mem, esp', FlattenSeq([k \in 1..Len(numbers) |-> Number(numbers[k])])
                                     \o [k \in 1..Padding(total) |-> 0])
  /\ pc' = "run"
  /\ UNCHANGED <<image, i, segment, vm, address>>

Next == Header \/ load_segment \/ setup_stack \/ PushWord \/ PushPointers

(* start_process runs to its end. *)
Spec == Init /\ [][Next]_vars
FairSpec == Spec /\ WF_vars(Next)

-----------------------------------------------------------------------------
Segments == {k \in 1..i : phdrs[k].type = "load"}
Bytes(h) == h.vaddr..h.vaddr + h.memsz - 1
PagesOf(h) == {a \div PGSIZE : a \in Bytes(h)}

(* No entry is made for page 0 or for a page of the kernel: "Disallow      *)
(* mapping page 0", "The region cannot wrap around across the kernel       *)
(* virtual address space" (validate_segment).                              *)
ImageInUserSpace == \A p \in DOMAIN vm : vm[p] # NONE => p \in UserPages \ {0}

(* What the first access to address a of segment h will find there *)
Holds(h, a) ==
  LET e == vm[a \div PGSIZE] IN
  /\ e # NONE /\ e.writable = h.writable
  /\ IF a - h.vaddr < h.filesz
     THEN pg_ofs(a) < e.read /\ e.ofs + pg_ofs(a) = h.offset + (a - h.vaddr)
     ELSE pg_ofs(a) >= e.read

(* When the program starts, every byte of a segment that shares no page    *)
(* with an earlier one comes from its place in the file, or is zero after  *)
(* the data (load, load_segment).                                          *)
ImageExact ==
  pc = "run" =>
    \A k \in Segments :
      (\A j \in Segments : j < k => PagesOf(phdrs[j]) \cap PagesOf(phdrs[k]) = {}) =>
        \A a \in Bytes(phdrs[k]) : Holds(phdrs[k], a)

(* "In total, READ_BYTES + ZERO_BYTES bytes of virtual memory are          *)
(* initialized" (load_segment), for every segment.                         *)
ImageWhole == pc = "run" => \A k \in Segments : \A a \in Bytes(phdrs[k]) : Holds(phdrs[k], a)

String(a) ==
  LET n == CHOOSE k \in 0..PGSIZE : mem[a + k] = 0 /\ \A j \in 0..k - 1 : mem[a + j] # 0
  IN [k \in 1..n |-> mem[a + k - 1]]

(* main finds on its stack, which is aligned, the number of words and an   *)
(* array of pointers that ends with a null pointer and from which it reads *)
(* the words of the command line (argument_stack).                         *)
ArgumentsReadable ==
  pc = "run" =>
    /\ esp % 4 = 0 /\ mem[esp + 4] = Len(words)
    /\ \A k \in 1..Len(words) : String(mem[mem[esp + 8] + 4 * (k - 1)]) = words[k]
    /\ mem[mem[esp + 8] + 4 * Len(words)] = 0

(* Loading comes to an end, whatever the headers say: the loop of          *)
(* load_segment counts down two unsigned numbers.                          *)
Loaded == pc \in {"run", "failed"}
LoadEnds == <>Loaded
=============================================================================
